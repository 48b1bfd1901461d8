---------------------------- MODULE ProgramProofs ----------------------------
(***************************************************************************)
(* The program, whichever instrument it is started for.  The main loop for *)
(* any number of clients, places, stats and threads: the command server's  *)
(* table has every open connection once, a client that was told the number *)
(* of stats gets each of them, and the threads are stopped only when       *)
(* somebody asked.  The producer of Kafka messages: what it counts of them,*)
(* of their bytes and of errors adds up.  And the configuration it reads,  *)
(* for every file and every readout: each readout is one event or one hit, *)
(* or is counted as one error, and the pixel of an event of the CDT        *)
(* electronics is of the part of the detector the module belongs to.       *)
(***************************************************************************)
EXTENDS MainProg, KafkaProducer, InstrumentGeometry, CommonLemmas


\* A client has a place of the table; it waits for accept().
Held(c) == \E s \in Slots : ClientFd[s] = c
Waits(c) == \E i \in DOMAIN backlog : backlog[i] = c

\* A client is where its state says, once: the strengthening of TableExact.
TableInv ==
  /\ ClientFd \in [Slots -> Clients \cup {None}]
  /\ client \in [Clients -> {"away", "waiting", "connected", "gone"}]
  /\ backlog \in Seq(Clients)
  /\ ready \subseteq {s \in Slots : ClientFd[s] # None}
  /\ \A s, t \in Slots : ClientFd[s] = ClientFd[t] /\ ClientFd[s] # None => s = t
  /\ \A i, j \in DOMAIN backlog : backlog[i] = backlog[j] => i = j
  /\ \A c \in Clients :
       /\ client[c] = "away" => ~Held(c) /\ ~Waits(c)
       /\ client[c] = "waiting" => ~Held(c) /\ Waits(c)
       /\ client[c] = "connected" => Held(c) /\ ~Waits(c)
       /\ client[c] = "gone" => (Held(c) <=> ~Waits(c))

\* Once the program has ended the table is given up.
ServerInv == running => TableInv

LEMMA NoneIsNoClient == None \notin Clients /\ Slots \in SUBSET Nat
<1>1. None \notin Clients
  BY CommandAssumption
<1>2. \A s \in Slots : s \in Nat
  BY CommandAssumption DEF Slots
<1> QED
  BY <1>1, <1>2

\* accept(): the first that waits gets a place or is turned away.
LEMMA AcceptKeeps ==
  ASSUME TableInv, Select
  PROVE  TableInv'
<1> USE NoneIsNoClient
<1>1. /\ ready' = readable /\ readable \subseteq {s \in Slots : ClientFd[s] # None}
      /\ accept
  BY DEF Select, readable
<1>2. CASE backlog = <<>>
  <2>1. UNCHANGED <<backlog, ClientFd, client>>
    BY <1>1, <1>2 DEF accept
  <2> QED
    BY <1>1, <2>1 DEF TableInv, Held, Waits
<1>3. CASE backlog # <<>>
  <2>0. PICK c \in Clients : c = Head(backlog)
    BY <1>3 DEF TableInv
  <2>1. /\ backlog' = Tail(backlog) /\ backlog' \in Seq(Clients)
        /\ Len(backlog) \in Nat \ {0} /\ Len(backlog') = Len(backlog) - 1
        /\ DOMAIN backlog = 1 .. Len(backlog) /\ DOMAIN backlog' = 1 .. Len(backlog')
        /\ backlog[1] = c
        /\ \A i \in DOMAIN backlog' : backlog'[i] = backlog[i + 1]
    <3>1. backlog' = Tail(backlog)
      BY <1>1, <1>3 DEF accept
    <3>2. backlog \in Seq(Clients) /\ Len(backlog) \in Nat \ {0}
      BY <1>3 DEF TableInv
    <3>3. /\ Tail(backlog) \in Seq(Clients)
          /\ Len(Tail(backlog)) = Len(backlog) - 1
          /\ \A i \in 1 .. Len(Tail(backlog)) : Tail(backlog)[i] = backlog[i + 1]
      BY <1>3, <3>2
    <3> QED
      BY <2>0, <3>1, <3>2, <3>3
  <2>2. ~Waits(c)'
    BY <2>1 DEF TableInv, Waits
  <2>3. ASSUME NEW d \in Clients, d # c
        PROVE  Waits(d)' <=> Waits(d)
    <3>1. ASSUME NEW i \in DOMAIN backlog', backlog'[i] = d
          PROVE  i + 1 \in DOMAIN backlog /\ backlog[i + 1] = d
      BY <2>1, <3>1
    <3>2. ASSUME NEW i \in DOMAIN backlog, backlog[i] = d
          PROVE  i - 1 \in DOMAIN backlog' /\ backlog'[i - 1] = d
      <4>1. i # 1
        BY <2>1, <2>3, <3>2
      <4>2. i - 1 \in DOMAIN backlog' /\ (i - 1) + 1 = i
        BY <2>1, <4>1
      <4> QED
        BY <2>1, <3>2, <4>2
    <3> QED
      BY <3>1, <3>2 DEF Waits
  <2>4. \A i, j \in DOMAIN backlog' : backlog'[i] = backlog'[j] => i = j
    BY <2>1 DEF TableInv
  <2>5. Waits(c) /\ ~Held(c) /\ client[c] \in {"waiting", "gone"}
    BY <2>1 DEF TableInv, Waits
  <2>6. CASE free = {}
    <3>1. client' = [client EXCEPT ![c] = "away"] /\ ClientFd' = ClientFd
      BY <1>1, <1>3, <2>0, <2>6 DEF accept
    <3>2. \A d \in Clients : Held(d)' <=> Held(d)
      BY <3>1 DEF Held
    <3> QED
      BY <1>1, <2>1, <2>2, <2>3, <2>4, <2>5, <3>1, <3>2 DEF TableInv
  <2>7. CASE free # {}
    <3>1. place \in Slots /\ ClientFd[place] = None
      <4>1. free \in SUBSET Nat
        BY DEF free
      <4>2. place \in free
        BY <2>7, <4>1, MinIsSmallest DEF place
      <4> QED
        BY <4>2 DEF free
    <3>2. /\ ClientFd' = [ClientFd EXCEPT ![place] = c]
          /\ client' = [client EXCEPT ![c] = IF @ = "waiting" THEN "connected" ELSE @]
      BY <1>1, <1>3, <2>0, <2>7 DEF accept
    <3> HIDE DEF place
    <3>3. Held(c)'
      BY <3>1, <3>2 DEF Held, TableInv
    <3>4. \A d \in Clients : d # c => (Held(d)' <=> Held(d))
      BY <3>1, <3>2 DEF Held, TableInv
    <3>5. \A s, t \in Slots : ClientFd'[s] = ClientFd'[t] /\ ClientFd'[s] # None => s = t
      BY <2>5, <3>1, <3>2 DEF Held, TableInv
    <3>6. ClientFd' \in [Slots -> Clients \cup {None}]
          /\ ready' \subseteq {s \in Slots : ClientFd'[s] # None}
      BY <1>1, <2>1, <3>1, <3>2 DEF TableInv
    <3> QED
      BY <2>1, <2>2, <2>3, <2>4, <2>5, <3>2, <3>3, <3>4, <3>5, <3>6 DEF TableInv
  <2> QED
    BY <2>6, <2>7
<1> QED
  BY <1>2, <1>3

\* A client whose connection is closed holds no place any more.
LEMMA CloseKeeps ==
  ASSUME TableInv, NEW s \in Slots, ClientFd[s] # None, serverClose(s),
         UNCHANGED backlog
  PROVE  TableInv'
<1> USE NoneIsNoClient
<1>0. PICK c \in Clients : c = ClientFd[s]
  BY DEF TableInv
<1>1. c \in Clients /\ Held(c)
  BY <1>0 DEF TableInv, Held
<1>2. /\ ready' = {} /\ ClientFd' = [ClientFd EXCEPT ![s] = None]
      /\ client' = [client EXCEPT ![c] = "away"] /\ backlog' = backlog
  BY <1>0 DEF serverClose
<1>3. ~Waits(c)
  BY <1>1 DEF TableInv
<1>4. ~Held(c)'
  BY <1>0, <1>1, <1>2 DEF TableInv, Held
<1>5. \A d \in Clients : d # c => (Held(d)' <=> Held(d))
  BY <1>0, <1>2 DEF TableInv, Held
<1>6. \A d \in Clients : Waits(d)' <=> Waits(d)
  BY <1>2 DEF Waits
<1> QED
  BY <1>1, <1>2, <1>3, <1>4, <1>5, <1>6 DEF TableInv

LEMMA ServeKeeps ==
  ASSUME TableInv, Serve
  PROVE  TableInv'
<1> DEFINE s == Min(ready)
<1>1. s \in ready /\ s \in Slots /\ ClientFd[s] # None
  BY NoneIsNoClient, MinIsSmallest DEF Serve, TableInv
<1>2. UNCHANGED backlog /\ (Disconnected(s) \/ ReceiveRequest(s) \/ AnswerRequest(s))
  BY DEF Serve
<1> HIDE DEF s
<1>3. CASE serverClose(s)
  BY <1>1, <1>2, <1>3, CloseKeeps
<1>4. CASE ready' \in {ready, ready \ {s}} /\ UNCHANGED <<ClientFd, client>>
  BY <1>2, <1>4 DEF TableInv, Held, Waits
<1> QED
  BY <1>2, <1>3, <1>4 DEF Disconnected, ReceiveRequest, AnswerRequest

\* The clients' own steps.
LEMMA ClientKeeps ==
  ASSUME TableInv, clientStep, UNCHANGED <<ClientFd, ready>>
  PROVE  TableInv'
<1>1. PICK c \in Clients : Connect(c) \/ Leave(c) \/ \E r \in Requests : Send(c, r)
  BY DEF clientStep
<1>2. \A d \in Clients : Held(d)' <=> Held(d)
  BY DEF Held
<1>3. CASE Connect(c)
  <2>1. /\ client[c] = "away" /\ client' = [client EXCEPT ![c] = "waiting"]
        /\ backlog' = Append(backlog, c)
    BY <1>3 DEF Connect
  <2> DEFINE n == Len(backlog)
  <2>2. /\ n \in Nat /\ DOMAIN backlog = 1 .. n /\ backlog' \in Seq(Clients)
        /\ DOMAIN backlog' = 1 .. (n + 1) /\ backlog'[n + 1] = c
        /\ \A i \in 1 .. n : backlog'[i] = backlog[i]
    BY <2>1 DEF TableInv
  <2> HIDE DEF n
  <2>3. ~Held(c) /\ ~Waits(c)
    BY <2>1 DEF TableInv
  <2>4. Waits(c)' /\ \A d \in Clients : d # c => (Waits(d)' <=> Waits(d))
    BY <2>2 DEF Waits
  <2>5. \A i, j \in DOMAIN backlog' : backlog'[i] = backlog'[j] => i = j
    BY <2>2, <2>3 DEF TableInv, Waits
  <2> QED
    BY <1>2, <2>1, <2>2, <2>3, <2>4, <2>5 DEF TableInv
<1>4. CASE Leave(c)
  <2>1. /\ client[c] \in {"waiting", "connected"}
        /\ client' = [client EXCEPT ![c] = "gone"] /\ backlog' = backlog
    BY <1>4 DEF Leave
  <2>2. \A d \in Clients : Waits(d)' <=> Waits(d)
    BY <2>1 DEF Waits
  <2> QED
    BY <1>2, <2>1, <2>2 DEF TableInv
<1>5. CASE \E r \in Requests : Send(c, r)
  <2>1. UNCHANGED <<client, backlog>>
    BY <1>5 DEF Send
  <2> QED
    BY <1>2, <2>1 DEF TableInv, Waits
<1> QED
  BY <1>1, <1>3, <1>4, <1>5

LEMMA ServerInductive ==
  ASSUME ServerInv, [MainNext]_mainVars
  PROVE  ServerInv'
<1> SUFFICES ASSUME running' PROVE TableInv'
  BY DEF ServerInv
<1>1. CASE UNCHANGED <<ClientFd, client, backlog, ready, mpc>>
  <2>1. running /\ TableInv
    BY <1>1 DEF running, ServerInv
  <2> QED
    BY <1>1, <2>1 DEF TableInv, Held, Waits
<1>2. CASE running /\ UNCHANGED <<ClientFd, client, backlog, ready>>
  <2>1. TableInv
    BY <1>2 DEF ServerInv
  <2> QED
    BY <1>2, <2>1 DEF TableInv, Held, Waits
<1>3. ASSUME mainThread PROVE TableInv'
  <2>1. CASE Stop \/ Publish \/ NothingToPublish \/ HandleLastSignal
    BY <1>2, <2>1 DEF Stop, Publish, NothingToPublish, HandleLastSignal, running,
                      clientVars, serverVars
  <2>2. CASE Poll
    BY <2>2, AcceptKeeps DEF Poll, ServerInv, running
  <2>3. CASE ServeClient
    BY <2>3, ServeKeeps DEF ServeClient, ServerInv, running
  <2>4. CASE Joined
    BY <2>4 DEF Joined, running
  <2> QED
    BY <1>3, <2>1, <2>2, <2>3, <2>4 DEF mainThread
<1>4. ASSUME threadStep PROVE TableInv'
  BY <1>1, <1>4 DEF threadStep, thread, Start, Throw, Caught, End, others,
                    clientVars, serverVars
<1>5. ASSUME environment PROVE TableInv'
  <2>1. CASE ClientStep
    BY <2>1, ClientKeeps DEF ClientStep, ServerInv, serverVars
  <2>2. CASE MetricsServer \/ Interrupt \/ Clock
    BY <1>1, <2>2 DEF MetricsServer, Interrupt, Clock, clientVars, serverVars
  <2> QED
    BY <1>5, <2>1, <2>2 DEF environment
<1>6. CASE UNCHANGED mainVars
  BY <1>1, <1>6 DEF mainVars, clientVars, serverVars
<1> QED
  BY <1>3, <1>4, <1>5, <1>6 DEF MainNext

\* A client holds as many places as its state says.
LEMMA PlacesCounted ==
  ASSUME TableInv, NEW c \in Clients
  PROVE  Cardinality({s \in Slots : ClientFd[s] = c}) = IF Held(c) THEN 1 ELSE 0
<1> DEFINE P == {s \in Slots : ClientFd[s] = c}
<1>1. CASE Held(c)
  <2>1. PICK s \in Slots : ClientFd[s] = c
    BY <1>1 DEF Held
  <2>2. P = {s}
    BY <2>1, NoneIsNoClient DEF TableInv
  <2> QED
    BY <1>1, <2>2, FS_Singleton
<1>2. CASE ~Held(c)
  <2>1. P = {}
    BY <1>2 DEF Held
  <2> QED
    BY <1>2, <2>1, FS_EmptySet
<1> QED
  BY <1>1, <1>2

\* The server's table has every open connection exactly once, whatever clients
\* connect, leave, are turned away or come back (Server::serverPoll).
THEOREM TableCorrect == MainSpec => []TableExact
<1>1. MainInit => ServerInv
  BY NoneIsNoClient DEF MainInit, ServerInit, ServerInv, TableInv, Held, Waits
<1>2. ServerInv /\ [MainNext]_mainVars => ServerInv'
  BY ServerInductive
<1>3. ServerInv => TableExact
  <2> SUFFICES ASSUME TableInv, NEW c \in Clients
               PROVE  Cardinality({s \in Slots : ClientFd[s] = c})
         = CASE client[c] = "connected" -> 1
             [] client[c] = "gone" -> IF \E i \in DOMAIN backlog : backlog[i] = c THEN 0 ELSE 1
             [] OTHER -> 0
    BY DEF ServerInv, TableExact
  <2>1. Cardinality({s \in Slots : ClientFd[s] = c}) = IF Held(c) THEN 1 ELSE 0
    BY PlacesCounted
  <2>2. client[c] \in {"away", "waiting", "connected", "gone"}
    BY DEF TableInv
  <2>3. CASE client[c] = "connected"
    BY <2>1, <2>3 DEF TableInv
  <2>4. CASE client[c] = "gone"
    BY <2>1, <2>4 DEF TableInv, Waits
  <2>5. CASE client[c] \in {"away", "waiting"}
    BY <2>1, <2>5 DEF TableInv
  <2> QED
    BY <2>2, <2>3, <2>4, <2>5
<1> QED
  BY <1>1, <1>2, <1>3, PTL DEF MainSpec
-----------------------------------------------------------------------------
\* The number of stats a client was told is never more than there are, nor is
\* the number the server has read for the request in hand, because stats are only
\* added: the strengthening of CountedStatsNamed.
StatsInv ==
  /\ detectorStats \in Nat
  /\ DOMAIN reply = Clients /\ DOMAIN counted = Clients
  /\ \A c \in Clients : counted[c] # None =>
       counted[c] \in Nat /\ counted[c] <= detectorStats + MainStats
  /\ inHand # None => inHand.size \in Nat /\ inHand.size <= detectorStats
  /\ CountedStatsNamed

\* STAT_GET names every stat there is but those registered while it looks;
\* STAT_GET_COUNT tells how many there are.
LEMMA StatsAnswered ==
  ASSUME NEW r, detectorStats \in Nat, NEW size \in 0 .. detectorStats
  PROVE  /\ replyTo(r, size).cmd = r.cmd /\ replyTo(r, size).size = size
         /\ (r.cmd = "STAT_GET_COUNT" /\ replyTo(r, size).status = "OK")
              => replyTo(r, size).value = detectorStats + MainStats
         /\ (/\ replyTo(r, size).cmd = "STAT_GET" /\ replyTo(r, size).status = "OK"
             /\ replyTo(r, size).arg \in 1 .. (detectorStats + MainStats))
              => \/ replyTo(r, size).value # 0
                 \/ replyTo(r, size).arg > size /\ replyTo(r, size).arg <= detectorStats
<1>1. replyTo(r, size) =
        [cmd |-> r.cmd, status |-> status(r), arg |-> r.arg,
         value |-> IF status(r) = "OK" THEN value(r, size) ELSE 0, size |-> size]
  BY DEF replyTo
<1>2. r.cmd = "STAT_GET_COUNT" => value(r, size) = detectorStats + MainStats
  BY DEF value
<1>3. r.cmd = "STAT_GET" => value(r, size) = statPlace(r.arg, size, detectorStats)
  BY DEF value
<1>4. ASSUME NEW i \in 1 .. (detectorStats + MainStats)
      PROVE  statPlace(i, size, detectorStats) # 0 \/ (i > size /\ i <= detectorStats)
  BY CommandAssumption DEF statPlace
<1> QED
  BY <1>1, <1>2, <1>3, <1>4

LEMMA AnsweredKeepsStats ==
  ASSUME StatsInv, NEW s, AnswerRequest(s), UNCHANGED detectorStats
  PROVE  StatsInv'
<1> DEFINE size == inHand.size
<1>0. inHand # None /\ inHand' = None /\ size \in 0 .. detectorStats
  BY DEF AnswerRequest, StatsInv
<1>1. PICK c, r :
        /\ reply' = [reply EXCEPT ![c] = replyTo(r, size)]
        /\ counted' = IF r.cmd = "STAT_GET_COUNT" /\ replyTo(r, size).status = "OK"
                        THEN [counted EXCEPT ![c] = replyTo(r, size).value] ELSE counted
  BY DEF AnswerRequest
<1> HIDE DEF size
<1>2. MainStats \in Nat /\ detectorStats \in Nat
  BY CommandAssumption DEF StatsInv
<1>3. DOMAIN reply' = Clients /\ DOMAIN counted' = Clients
  BY <1>1 DEF StatsInv
<1>4. ASSUME NEW d \in Clients
      PROVE  counted'[d] # None =>
               counted'[d] \in Nat /\ counted'[d] <= detectorStats + MainStats
  BY <1>0, <1>1, <1>2, StatsAnswered DEF StatsInv
<1>5. ASSUME NEW d \in Clients, asksForCounted(d)'
      PROVE  \/ reply'[d].value # 0
             \/ reply'[d].arg > reply'[d].size /\ reply'[d].arg <= detectorStats'
  <2>0. /\ reply'[d] # None /\ counted'[d] # None /\ reply'[d].cmd = "STAT_GET"
        /\ reply'[d].status = "OK" /\ reply'[d].arg \in 1 .. counted'[d]
    BY <1>5 DEF asksForCounted
  <2>1. CASE d = c
    <3>1. reply'[d] = replyTo(r, size)
      BY <1>1, <2>1 DEF StatsInv
    <3>2. replyTo(r, size).arg \in 1 .. (detectorStats + MainStats)
      BY <1>2, <1>4, <2>0, <3>1
    <3>3. /\ replyTo(r, size).cmd = "STAT_GET" /\ replyTo(r, size).status = "OK"
          /\ replyTo(r, size).size = size
      BY <1>0, <1>2, <2>0, <3>1, StatsAnswered
    <3> QED
      BY <1>0, <1>2, <3>1, <3>2, <3>3, StatsAnswered
  <2>2. CASE d # c
    <3>1. reply'[d] = reply[d] /\ counted'[d] = counted[d]
      BY <1>1, <2>2 DEF StatsInv
    <3> QED
      BY <2>0, <3>1 DEF StatsInv, CountedStatsNamed, asksForCounted
  <2> QED
    BY <2>1, <2>2
<1> QED
  BY <1>0, <1>2, <1>3, <1>4, <1>5 DEF StatsInv, CountedStatsNamed

LEMMA ReceivedKeepsStats ==
  ASSUME StatsInv, NEW s, ReceiveRequest(s), UNCHANGED detectorStats
  PROVE  StatsInv'
<1>1. inHand'.size = detectorStats /\ UNCHANGED <<reply, counted>>
  BY DEF ReceiveRequest
<1> QED
  BY <1>1 DEF StatsInv, CountedStatsNamed, asksForCounted

LEMMA ClientKeepsStats ==
  ASSUME StatsInv, clientStep, UNCHANGED <<detectorStats, inHand>>
  PROVE  StatsInv'
<1>1. PICK c \in Clients : Connect(c) \/ Leave(c) \/ \E r \in Requests : Send(c, r)
  BY DEF clientStep
<1>2. \/ UNCHANGED <<reply, counted>>
      \/ /\ reply' = [reply EXCEPT ![c] = None]
         /\ counted' \in {counted, [counted EXCEPT ![c] = None]}
  BY <1>1 DEF Connect, Leave, Send
<1> QED
  BY <1>2 DEF StatsInv, CountedStatsNamed, asksForCounted

LEMMA StatsInductive ==
  ASSUME StatsInv, [MainNext]_mainVars
  PROVE  StatsInv'
<1>1. CASE UNCHANGED <<reply, counted, detectorStats, inHand>>
  BY <1>1 DEF StatsInv, CountedStatsNamed, asksForCounted
<1>2. ASSUME mainThread PROVE StatsInv'
  <2>1. CASE ServeClient
    <3>1. PICK s : /\ Disconnected(s) \/ ReceiveRequest(s) \/ AnswerRequest(s)
                   /\ UNCHANGED detectorStats
      BY <2>1 DEF ServeClient, Serve
    <3> QED
      BY <1>1, <3>1, AnsweredKeepsStats, ReceivedKeepsStats DEF Disconnected
  <2>2. CASE Stop \/ Publish \/ NothingToPublish \/ Poll \/ HandleLastSignal \/ Joined
    BY <1>1, <2>2 DEF Stop, Publish, NothingToPublish, Poll, Select, HandleLastSignal, Joined,
                      clientVars, serverVars
  <2> QED
    BY <1>2, <2>1, <2>2 DEF mainThread
<1>3. ASSUME NEW t \in Threads, thread(t) PROVE StatsInv'
  <2>1. /\ UNCHANGED <<reply, counted, inHand>>
        /\ detectorStats' \in {detectorStats, detectorStats + 1}
    BY <1>3 DEF thread, Start, Throw, Caught, End, others, clientVars, serverVars
  <2>2. MainStats \in Nat /\ detectorStats \in Nat
    BY CommandAssumption DEF StatsInv
  <2> QED
    BY <2>1, <2>2 DEF StatsInv, CountedStatsNamed, asksForCounted
<1>4. ASSUME environment PROVE StatsInv'
  <2>1. CASE ClientStep
    BY <2>1, ClientKeepsStats DEF ClientStep, serverVars
  <2>2. CASE MetricsServer \/ Interrupt \/ Clock
    BY <1>1, <2>2 DEF MetricsServer, Interrupt, Clock, clientVars, serverVars
  <2> QED
    BY <1>4, <2>1, <2>2 DEF environment
<1>5. CASE UNCHANGED mainVars
  BY <1>1, <1>5 DEF mainVars, clientVars, serverVars
<1> QED
  BY <1>2, <1>3, <1>4, <1>5 DEF MainNext, threadStep

\* A client that was told the number of stats gets each of them by its index,
\* although the main loop's stats move behind those that threads add, unless a
\* thread adds one between the two calls of statsize() in stat_get
\* (Parser.cpp:55 and :59): then the detector has a stat of that index.
THEOREM CountedNamed == MainSpec => []CountedStatsNamed
<1>1. MainInit => StatsInv
  BY CommandAssumption DEF MainInit, ServerInit, StatsInv, CountedStatsNamed, asksForCounted
<1>2. StatsInv /\ [MainNext]_mainVars => StatsInv'
  BY StatsInductive
<1>3. StatsInv => CountedStatsNamed
  BY DEF StatsInv
<1> QED
  BY <1>1, <1>2, <1>3, PTL DEF MainSpec
-----------------------------------------------------------------------------
\* What asks for the stop, and what shows that somebody did: the strengthening
\* of StopsOnlyWhenAsked.
AskedInv ==
  /\ {keep_running, runThreads, asked, DoExit} \subseteq BOOLEAN
  /\ DOMAIN threads = Threads
  /\ (\/ ~keep_running \/ ~runThreads \/ DoExit \/ RunTimer = "late"
      \/ \E t \in Threads : threads[t] = "threw")  => asked

LEMMA AskedInductive ==
  ASSUME AskedInv, [MainNext]_mainVars
  PROVE  AskedInv'
<1>1. CASE UNCHANGED <<keep_running, runThreads, asked, DoExit, RunTimer, threads>>
  BY <1>1 DEF AskedInv
<1>2. ASSUME mainThread PROVE AskedInv'
  <2>1. CASE Stop
    BY <2>1 DEF Stop, stopNow, AskedInv
  <2>2. CASE ServeClient
    <3>1. PICK s : Disconnected(s) \/ ReceiveRequest(s) \/ AnswerRequest(s)
      BY <2>2 DEF ServeClient, Serve
    <3>2. UNCHANGED <<runThreads, DoExit, RunTimer, threads>>
      BY <2>2 DEF ServeClient, runVars
    <3>3. CASE Disconnected(s) \/ ReceiveRequest(s)
      BY <1>1, <3>2, <3>3 DEF Disconnected, ReceiveRequest
    <3>4. CASE AnswerRequest(s)
      <4>1. PICK ok \in BOOLEAN : keep_running' = (keep_running /\ ~ok) /\ asked' = (asked \/ ok)
        BY <3>4 DEF AnswerRequest, parse
      <4> QED
        BY <3>2, <4>1 DEF AskedInv
    <3> QED
      BY <3>1, <3>3, <3>4
  <2>3. CASE HandleLastSignal
    BY <2>3 DEF HandleLastSignal, signalled, AskedInv, runVars
  <2>4. CASE Publish \/ NothingToPublish \/ Poll \/ Joined
    BY <1>1, <2>4 DEF Publish, NothingToPublish, Poll, Select, Joined, runVars
  <2> QED
    BY <1>2, <2>1, <2>2, <2>3, <2>4 DEF mainThread
<1>3. ASSUME NEW t \in Threads, thread(t) PROVE AskedInv'
  <2>1. UNCHANGED <<runThreads, DoExit, RunTimer>>
    BY <1>3 DEF thread, Start, Throw, Caught, End, others
  <2>2. CASE Start(t) \/ End(t)
    <3>1. UNCHANGED <<keep_running, asked>> /\ DOMAIN threads' = Threads
          /\ \A u \in Threads : threads'[u] = "threw" => threads[u] = "threw"
      BY <2>2 DEF Start, End, AskedInv
    <3> QED
      BY <2>1, <3>1 DEF AskedInv
  <2>3. CASE Throw(t)
    <3>1. keep_running' = keep_running /\ asked' = TRUE /\ DOMAIN threads' = Threads
      BY <2>3 DEF Throw, AskedInv
    <3> QED
      BY <2>1, <3>1 DEF AskedInv
  <2>4. CASE Caught(t)
    <3>1. keep_running' = FALSE /\ asked' = asked /\ DOMAIN threads' = Threads
          /\ threads[t] = "threw"
      BY <2>4 DEF Caught, AskedInv
    <3>2. asked
      BY <3>1 DEF AskedInv
    <3> QED
      BY <2>1, <3>1, <3>2 DEF AskedInv
  <2> QED
    BY <1>3, <2>2, <2>3, <2>4 DEF thread
<1>4. ASSUME environment PROVE AskedInv'
  <2>1. CASE Interrupt \/ Clock
    <3>1. UNCHANGED <<keep_running, runThreads, threads>> /\ DoExit' \in {DoExit, TRUE}
      BY <2>1 DEF Interrupt, Clock
    <3>2. CASE asked' = TRUE
      BY <3>1, <3>2 DEF AskedInv
    <3>3. CASE asked' = asked /\ DoExit' = DoExit /\ RunTimer' # "late"
      BY <3>1, <3>3 DEF AskedInv
    <3> QED
      BY <2>1, <3>2, <3>3 DEF Interrupt, Clock
  <2>2. CASE ClientStep \/ MetricsServer
    BY <1>1, <2>2 DEF ClientStep, MetricsServer, runVars
  <2> QED
    BY <1>4, <2>1, <2>2 DEF environment
<1>5. CASE UNCHANGED mainVars
  BY <1>1, <1>5 DEF mainVars, runVars
<1> QED
  BY <1>2, <1>3, <1>4, <1>5 DEF MainNext, threadStep

\* The main thread stops the others only when a signal, an EXIT command, the
\* StopAfterSec or an exception of a thread has asked for it (MainProg::run,
\* Launcher::exceptionHandlingWrapper).
THEOREM StopsAsked == MainSpec => []StopsOnlyWhenAsked
<1>1. MainInit => AskedInv
  BY DEF MainInit, ServerInit, AskedInv
<1>2. AskedInv /\ [MainNext]_mainVars => AskedInv'
  BY AskedInductive
<1>3. AskedInv => StopsOnlyWhenAsked
  BY DEF AskedInv, StopsOnlyWhenAsked
<1> QED
  BY <1>1, <1>2, <1>3, PTL DEF MainSpec
-----------------------------------------------------------------------------
(***************************************************************************)
(* KafkaProducer: for every size of the queue, all lengths and error codes,*)
(* and any number of calls.                                                *)
(***************************************************************************)
\* There are as many reports as lengths, statuses and codes.
LEMMA ReportsFinite == IsFiniteSet(Report) /\ IsFiniteSet(Statuses)
<1> DEFINE E == Errors \cup {NoError}
           T == (Lengths \X Statuses) \X E
           f == [t \in T |-> [len |-> t[1][1], status |-> t[1][2], err |-> t[2]]]
<1>1. IsFiniteSet(Lengths) /\ IsFiniteSet(E)
  BY ProducerAssumption, FS_AddElement
<1>2. IsFiniteSet(Statuses)
  <2>1. IsFiniteSet({}) /\ Statuses = (({} \cup {"NOT_PERSISTED"})
                          \cup {"POSSIBLY_PERSISTED"}) \cup {"PERSISTED"}
    BY FS_EmptySet DEF Statuses
  <2> QED BY <2>1, FS_AddElement
<1> HIDE DEF E
<1>3. IsFiniteSet(T)
  BY <1>1, <1>2, FS_Product
<1>4. f \in Surjection(T, Report)
  <2>1. f \in [T -> Report]
    BY DEF Report, E
  <2>2. \A m \in Report : \E t \in T : f[t] = m
    <3> TAKE m \in Report
    <3>1. <<<<m.len, m.status>>, m.err>> \in T
      BY DEF Report, E
    <3>2. f[<<<<m.len, m.status>>, m.err>>] = m
      BY <3>1 DEF Report
    <3> QED BY <3>1, <3>2
  <2> QED BY <2>1, <2>2 DEF Surjection
<1> HIDE DEF T, f
<1> QED BY <1>2, <1>3, <1>4, FS_Surjection

\* One more, or one less, of something that has a weight.
weighed(w, f) == SumFunction([y \in DOMAIN f |-> w[y] * f[y]])

LEMMA WeightOfOneMore ==
  ASSUME NEW D, IsFiniteSet(D), NEW w \in [D -> Nat], NEW f \in [D -> Nat], NEW x \in D
  PROVE  /\ weighed(w, f) \in Int
         /\ weighed(w, OneMore(f, x)) = weighed(w, f) + w[x]
         /\ f[x] > 0 => weighed(w, OneLess(f, x)) = weighed(w, f) - w[x]
<1> DEFINE F(g) == [y \in D |-> w[y] * g[y]]
<1>0. \A a, b \in Nat : a * b \in Int /\ a * (b + 1) = a * b + a /\ a * (b - 1) = a * b - a
  OBVIOUS
<1>1. \A y \in D : F(f)[y] \in Int
  BY <1>0
<1>2. ASSUME NEW g \in [D -> Int] PROVE weighed(w, g) = SumFunctionOnSet(F(g), D)
  BY DEF weighed, SumFunction
<1>3. weighed(w, f) \in Int
  <2>1. weighed(w, f) = SumFunctionOnSet(F(f), D)
    BY <1>2
  <2> HIDE DEF F
  <2> QED BY <1>1, <2>1, SumType
<1>4. ASSUME NEW d \in {1, -1}
      PROVE  weighed(w, [f EXCEPT ![x] = @ + d]) = weighed(w, f) + w[x] * d
  <2> DEFINE h == [f EXCEPT ![x] = @ + d]
  <2>1. h \in [D -> Int] /\ f \in [D -> Int]
    OBVIOUS
  <2>2. w[x] \in Nat /\ f[x] \in Nat /\ h[x] = f[x] + d
    OBVIOUS
  <2>3. F(h)[x] = F(f)[x] + w[x] * d
    BY <1>0, <2>2
  <2>4. \A y \in D \ {x} : F(h)[y] = F(f)[y]
    OBVIOUS
  <2>5. w[x] * d \in Int
    BY <2>2
  <2>6. weighed(w, h) = SumFunctionOnSet(F(h), D) /\ weighed(w, f) = SumFunctionOnSet(F(f), D)
    BY <1>2, <2>1
  <2>7. SumFunctionOnSet(F(h), D) = SumFunctionOnSet(F(f), D) + w[x] * d
    <3> HIDE DEF F, h
    <3> QED BY <1>1, <2>3, <2>4, <2>5, SumChange
  <2> QED BY <2>6, <2>7
<1>5. w[x] \in Nat
  OBVIOUS
<1>6. weighed(w, OneMore(f, x)) = weighed(w, f) + w[x] * 1
  BY <1>4 DEF OneMore
<1>7. OneLess(f, x) = [f EXCEPT ![x] = @ + (-1)]
  BY DEF OneLess
<1>8. weighed(w, OneLess(f, x)) = weighed(w, f) + w[x] * (-1)
  BY <1>4, <1>7
<1> HIDE DEF F
<1> QED BY <1>3, <1>5, <1>6, <1>8

\* One more or one less in the sum of all.
LEMMA OneMoreOfAll ==
  ASSUME NEW D, IsFiniteSet(D), NEW f \in [D -> Nat], NEW x \in D
  PROVE  /\ SumFunction(f) \in Int
         /\ OneMore(f, x) \in [D -> Nat]
         /\ SumFunction(OneMore(f, x)) = SumFunction(f) + 1
         /\ f[x] > 0 => OneLess(f, x) \in [D -> Nat]
         /\ f[x] > 0 => SumFunction(OneLess(f, x)) = SumFunction(f) - 1
<1>1. OneMore(f, x) \in [D -> Nat] /\ DOMAIN f = D /\ DOMAIN OneLess(f, x) = D
  BY DEF OneMore, OneLess
<1>2. f[x] > 0 => OneLess(f, x) \in [D -> Nat]
  BY DEF OneLess
<1>3. \A y \in D : f[y] \in Int
  OBVIOUS
<1>4. SumFunctionOnSet(f, D) \in Int
  BY <1>3, SumType
<1>5. SumFunctionOnSet(OneMore(f, x), D) = SumFunctionOnSet(f, D) + 1
  <2>1. /\ OneMore(f, x)[x] = f[x] + 1
        /\ \A y \in D \ {x} : OneMore(f, x)[y] = f[y]
    BY DEF OneMore
  <2>2. 1 \in Int
    OBVIOUS
  <2> QED BY <1>3, <2>1, <2>2, SumChange
<1>6. SumFunctionOnSet(OneLess(f, x), D) = SumFunctionOnSet(f, D) + (-1)
  <2>1. /\ OneLess(f, x)[x] = f[x] + (-1)
        /\ \A y \in D \ {x} : OneLess(f, x)[y] = f[y]
    BY DEF OneLess
  <2>2. -1 \in Int
    OBVIOUS
  <2> QED BY <1>3, <2>1, <2>2, SumChange
<1>7. SumFunction(f) = SumFunctionOnSet(f, D)
      /\ SumFunction(OneMore(f, x)) = SumFunctionOnSet(OneMore(f, x), D)
      /\ SumFunction(OneLess(f, x)) = SumFunctionOnSet(OneLess(f, x), D)
  BY <1>1 DEF SumFunction
<1> QED BY <1>1, <1>2, <1>4, <1>5, <1>6, <1>7

queuedBytes == SumFunction([n \in Lengths |-> n * queue[n]])
reportedBytes == SumFunction([m \in Report |-> m.len * reports[m]])

\* What a message or report more, or less, does to the numbers and the bytes.
LEMMA MessageMore ==
  ASSUME NEW q \in [Lengths -> Nat], NEW n \in Lengths
  PROVE  LET bytes(p) == SumFunction([l \in Lengths |-> l * p[l]]) IN
         /\ bytes(q) \in Int
         /\ bytes(OneMore(q, n)) = bytes(q) + n
         /\ q[n] > 0 => bytes(OneLess(q, n)) = bytes(q) - n
<1> DEFINE w == [l \in Lengths |-> l]
           bytes(p) == SumFunction([l \in Lengths |-> l * p[l]])
<1>1. w \in [Lengths -> Nat] /\ w[n] = n /\ IsFiniteSet(Lengths)
  BY ProducerAssumption
<1>2. ASSUME NEW p, DOMAIN p = Lengths PROVE weighed(w, p) = bytes(p)
  <2>1. [y \in DOMAIN p |-> w[y] * p[y]] = [l \in Lengths |-> l * p[l]]
    BY <1>2
  <2> QED BY <2>1 DEF weighed
<1>3. DOMAIN q = Lengths /\ DOMAIN OneMore(q, n) = Lengths /\ DOMAIN OneLess(q, n) = Lengths
  BY DEF OneMore, OneLess
<1>4. /\ weighed(w, q) \in Int
      /\ weighed(w, OneMore(q, n)) = weighed(w, q) + w[n]
      /\ q[n] > 0 => weighed(w, OneLess(q, n)) = weighed(w, q) - w[n]
  <2> HIDE DEF w
  <2> QED BY <1>1, WeightOfOneMore
<1>5. /\ weighed(w, q) = bytes(q) /\ weighed(w, OneMore(q, n)) = bytes(OneMore(q, n))
      /\ weighed(w, OneLess(q, n)) = bytes(OneLess(q, n))
  <2> HIDE DEF w, bytes
  <2> QED BY <1>2, <1>3
<1> QED BY <1>1, <1>4, <1>5

LEMMA ReportMore ==
  ASSUME NEW r \in [Report -> Nat], NEW m \in Report
  PROVE  LET bytes(p) == SumFunction([l \in Report |-> l.len * p[l]]) IN
         /\ bytes(r) \in Int
         /\ bytes(OneMore(r, m)) = bytes(r) + m.len
         /\ r[m] > 0 => bytes(OneLess(r, m)) = bytes(r) - m.len
<1> DEFINE w == [l \in Report |-> l.len]
           bytes(p) == SumFunction([l \in Report |-> l.len * p[l]])
<1>1. w \in [Report -> Nat] /\ w[m] = m.len /\ IsFiniteSet(Report)
  BY ProducerAssumption, ReportsFinite DEF Report
<1>2. ASSUME NEW p, DOMAIN p = Report PROVE weighed(w, p) = bytes(p)
  <2>1. [y \in DOMAIN p |-> w[y] * p[y]] = [l \in Report |-> l.len * p[l]]
    BY <1>2
  <2> QED BY <2>1 DEF weighed
<1>3. DOMAIN r = Report /\ DOMAIN OneMore(r, m) = Report /\ DOMAIN OneLess(r, m) = Report
  BY DEF OneMore, OneLess
<1>4. /\ weighed(w, r) \in Int
      /\ weighed(w, OneMore(r, m)) = weighed(w, r) + w[m]
      /\ r[m] > 0 => weighed(w, OneLess(r, m)) = weighed(w, r) - w[m]
  <2> HIDE DEF w
  <2> QED BY <1>1, WeightOfOneMore
<1>5. /\ weighed(w, r) = bytes(r) /\ weighed(w, OneMore(r, m)) = bytes(OneMore(r, m))
      /\ weighed(w, OneLess(r, m)) = bytes(OneLess(r, m))
  <2> HIDE DEF w, bytes
  <2> QED BY <1>2, <1>3
<1> QED BY <1>1, <1>4, <1>5

\* The part of the types that each step disturbs, without what follows from the
\* bytes; and between calls there is no message of a call.
KafkaTyped ==
  /\ queue \in [Lengths -> Nat] /\ reports \in [Report -> Nat]
  /\ errorEvents \in [Errors -> Nat]
  /\ pc \in {"idle", "recover", "serve", "count"}
  /\ length \in Lengths \cup {0} /\ error \in Errors \cup {NoError}
  /\ HighWatermarkReached \in BOOLEAN
  /\ StatCounters \in Counters
  /\ pc = "idle" => length = 0
  /\ pc = "count" => length # 0

KafkaInv == KafkaTyped /\ DeliveriesAccounted

LEMMA SumsTyped ==
  ASSUME KafkaTyped
  PROVE  /\ queuedBytes \in Int /\ reportedBytes \in Int
         /\ SumFunction(queue) \in Int /\ SumFunction(reports) \in Int
         /\ SumFunction(errorEvents) \in Int
         /\ SumFunction(StatCounters.MsgStatus) \in Int
         /\ SumFunction(StatCounters.Err) \in Int
<1>1. ASSUME NEW D, IsFiniteSet(D), NEW f \in [D -> Nat] PROVE SumFunction(f) \in Int
  <2>1. \A y \in D : f[y] \in Int
    OBVIOUS
  <2>2. SumFunctionOnSet(f, D) \in Int
    BY <1>1, <2>1, SumType
  <2> QED BY <2>2 DEF SumFunction
<1>2. IsFiniteSet(Lengths) /\ IsFiniteSet(Errors) /\ IsFiniteSet(Report) /\ IsFiniteSet(Statuses)
  BY ProducerAssumption, ReportsFinite
<1>3. /\ SumFunction(queue) \in Int /\ SumFunction(reports) \in Int
      /\ SumFunction(errorEvents) \in Int
  BY <1>1, <1>2 DEF KafkaTyped
<1>4. StatCounters.MsgStatus \in [Statuses -> Nat] /\ StatCounters.Err \in [Errors -> Nat]
  BY DEF KafkaTyped, Counters
<1>5. SumFunction(StatCounters.MsgStatus) \in Int /\ SumFunction(StatCounters.Err) \in Int
  BY <1>1, <1>2, <1>4
<1>6. [n \in Lengths |-> n * queue[n]] \in [Lengths -> Nat]
  <2>1. \A n \in Lengths : n \in Nat /\ queue[n] \in Nat
    BY ProducerAssumption DEF KafkaTyped
  <2>2. \A a, b \in Nat : a * b \in Nat
    OBVIOUS
  <2> QED BY <2>1, <2>2
<1>7. [m \in Report |-> m.len * reports[m]] \in [Report -> Nat]
  <2>1. \A m \in Report : m.len \in Nat /\ reports[m] \in Nat
    BY ProducerAssumption DEF KafkaTyped, Report
  <2>2. \A a, b \in Nat : a * b \in Nat
    OBVIOUS
  <2> QED BY <2>1, <2>2
<1> QED BY <1>1, <1>2, <1>3, <1>5, <1>6, <1>7 DEF queuedBytes, reportedBytes

\* DeliveriesAccounted of the sums of what the library holds.
Accounts(c, unc, bytes, held, statuses, errors) ==
  /\ c.BytesInQueue + unc * length = bytes
  /\ c.ProduceCalls - c.ProduceError + unc = held + c.TotalMsgDeliveryEvent
  /\ c.TotalMsgDeliveryEvent = c.MsgDeliverySuccess + c.MsgError
  /\ c.TotalMsgDeliveryEvent = statuses
  /\ c.MsgError = 0 => c.ProduceBytesOk = c.BytesInQueue + c.BytesTransmittedToBrokers
  /\ errors = c.ProduceError + c.MsgError + c.ErrorEventCounter

AccountsNow ==
  Accounts(StatCounters, uncounted, queuedBytes + reportedBytes,
           SumFunction(queue) + SumFunction(reports),
           SumFunction(StatCounters.MsgStatus), SumFunction(StatCounters.Err))

LEMMA AccountsAre == /\ DeliveriesAccounted <=> AccountsNow
                     /\ DeliveriesAccounted' <=> AccountsNow'
BY DEF AccountsNow, DeliveriesAccounted, BytesAccounted, MessagesAccounted, ErrorsAccounted, Accounts,
   queuedBytes, reportedBytes

\* Counters that are set.
LEMMA CountersSet ==
  ASSUME NEW c \in Counters, NEW n \in Nat, NEW l \in Nat
  PROVE  /\ c.MsgError + 1 \in Nat /\ c.BytesInQueue - l \in Int
         /\ \A f \in [Statuses -> Nat] :
              [c EXCEPT !.TotalMsgDeliveryEvent = @ + 1, !.BytesInQueue = @ - l,
                        !.MsgStatus = f] \in Counters
         /\ [c EXCEPT !.MsgError = @ + 1] \in Counters
         /\ [c EXCEPT !.MsgError = @ + 1].MsgError = c.MsgError + 1
         /\ [c EXCEPT !.MsgDeliverySuccess = @ + 1,
                      !.BytesTransmittedToBrokers = @ + l] \in Counters
<1>1. c.MsgError + 1 \in Nat /\ c.BytesInQueue - l \in Int
      /\ c.TotalMsgDeliveryEvent + 1 \in Nat /\ c.MsgDeliverySuccess + 1 \in Nat
      /\ c.BytesTransmittedToBrokers + l \in Nat
  BY DEF Counters
<1>2. \A f \in [Statuses -> Nat] :
        [c EXCEPT !.TotalMsgDeliveryEvent = @ + 1, !.BytesInQueue = @ - l,
                  !.MsgStatus = f] \in Counters
  BY <1>1 DEF Counters
<1>3. /\ [c EXCEPT !.MsgError = @ + 1] \in Counters
      /\ [c EXCEPT !.MsgError = @ + 1].MsgError = c.MsgError + 1
  BY <1>1 DEF Counters
<1>4. [c EXCEPT !.MsgDeliverySuccess = @ + 1,
                !.BytesTransmittedToBrokers = @ + l] \in Counters
  BY <1>1 DEF Counters
<1> QED BY <1>1, <1>2, <1>3, <1>4

LEMMA UncountedTyped ==
  ASSUME KafkaTyped
  PROVE  uncounted \in {0, 1} /\ length \in Nat /\ uncounted * length \in Int
<1>1. uncounted \in {0, 1} /\ length \in Nat
  BY ProducerAssumption DEF uncounted, KafkaTyped
<1> HIDE DEF uncounted
<1>2. CASE uncounted = 0
  BY <1>1, <1>2
<1>3. CASE uncounted = 1
  BY <1>1, <1>3
<1> QED BY <1>1, <1>2, <1>3

\* A code or a status counted once more.
LEMMA ErrorCounted ==
  ASSUME NEW c \in Counters, NEW e \in Errors
  PROVE  /\ applyKafkaErrorCode(c, e) = [c EXCEPT !.Err = OneMore(@, e)]
         /\ applyKafkaErrorCode(c, e) \in Counters
         /\ SumFunction(applyKafkaErrorCode(c, e).Err) = SumFunction(c.Err) + 1
<1>1. c.Err \in [Errors -> Nat] /\ IsFiniteSet(Errors)
  BY ProducerAssumption DEF Counters
<1>2. /\ OneMore(c.Err, e) \in [Errors -> Nat]
      /\ SumFunction(OneMore(c.Err, e)) = SumFunction(c.Err) + 1
  BY <1>1, OneMoreOfAll
<1>3. applyKafkaErrorCode(c, e) = [c EXCEPT !.Err = OneMore(@, e)]
  BY DEF applyKafkaErrorCode, OneMore
<1>4. [c EXCEPT !.Err = OneMore(@, e)] \in Counters
  BY <1>2 DEF Counters
<1>5. [c EXCEPT !.Err = OneMore(@, e)].Err = OneMore(c.Err, e)
  BY DEF Counters
<1> QED BY <1>2, <1>3, <1>4, <1>5

LEMMA ReportServed ==
  ASSUME KafkaInv, NEW m \in Report, dr_cb(m)
  PROVE  KafkaInv'
<1> DEFINE c == StatCounters
           d == [c EXCEPT !.TotalMsgDeliveryEvent = @ + 1,
                          !.BytesInQueue = @ - m.len, !.MsgStatus = OneMore(@, m.status)]
<1>1. KafkaTyped /\ DeliveriesAccounted /\ c \in Counters
  BY DEF KafkaInv, KafkaTyped
<1>2. m.len \in Nat /\ m.status \in Statuses /\ m.err \in Errors \cup {NoError}
  BY ProducerAssumption DEF Report
<1>3. /\ OneMore(c.MsgStatus, m.status) \in [Statuses -> Nat]
      /\ SumFunction(OneMore(c.MsgStatus, m.status)) = SumFunction(c.MsgStatus) + 1
  <2>1. c.MsgStatus \in [Statuses -> Nat]
    BY <1>1 DEF Counters
  <2> QED BY <1>2, <2>1, ReportsFinite, OneMoreOfAll
<1>4. /\ reports' \in [Report -> Nat] /\ SumFunction(reports)' = SumFunction(reports) - 1
      /\ reportedBytes' = reportedBytes - m.len
  <2>1. reports \in [Report -> Nat] /\ reports[m] > 0 /\ reports' = OneLess(reports, m)
    BY <1>1 DEF dr_cb, KafkaTyped
  <2>2. OneLess(reports, m) \in [Report -> Nat]
        /\ SumFunction(OneLess(reports, m)) = SumFunction(reports) - 1
    BY <2>1, ReportsFinite, OneMoreOfAll
  <2> QED BY <2>1, <2>2, ReportMore DEF reportedBytes
<1>5. UNCHANGED <<queue, errorEvents, pc, length, error, HighWatermarkReached>>
      /\ queuedBytes' = queuedBytes /\ SumFunction(queue)' = SumFunction(queue)
      /\ uncounted' = uncounted
  BY DEF dr_cb, queuedBytes, uncounted
<1>6. d = [c EXCEPT !.TotalMsgDeliveryEvent = @ + 1, !.BytesInQueue = @ - m.len,
                    !.MsgStatus[m.status] = @ + 1]
  BY DEF OneMore
<1>7. d \in Counters
  <2>1. [c EXCEPT !.TotalMsgDeliveryEvent = @ + 1, !.BytesInQueue = @ - m.len,
                  !.MsgStatus = OneMore(c.MsgStatus, m.status)] \in Counters
    BY ONLY <1>1, <1>2, <1>3, CountersSet
  <2> QED BY <2>1
<1>8. /\ d.TotalMsgDeliveryEvent = c.TotalMsgDeliveryEvent + 1
      /\ d.BytesInQueue = c.BytesInQueue - m.len
      /\ d.MsgStatus = OneMore(c.MsgStatus, m.status)
      /\ d.ProduceBytesOk = c.ProduceBytesOk /\ d.ProduceCalls = c.ProduceCalls
      /\ d.ProduceError = c.ProduceError /\ d.Err = c.Err /\ d.MsgError = c.MsgError
      /\ d.ErrorEventCounter = c.ErrorEventCounter
      /\ d.MsgDeliverySuccess = c.MsgDeliverySuccess
      /\ d.BytesTransmittedToBrokers = c.BytesTransmittedToBrokers
  BY <1>1 DEF Counters
<1> HIDE DEF d
<1>9. c' = IF m.err # NoError
           THEN [applyKafkaErrorCode(d, m.err) EXCEPT !.MsgError = @ + 1]
           ELSE [d EXCEPT !.MsgDeliverySuccess = @ + 1,
                          !.BytesTransmittedToBrokers = @ + m.len]
  BY <1>6 DEF dr_cb
<1>10. /\ SumFunction(c.MsgStatus) \in Int /\ SumFunction(c.Err) \in Int
       /\ SumFunction(queue) \in Int /\ SumFunction(reports) \in Int
       /\ queuedBytes \in Int /\ reportedBytes \in Int
  BY <1>1, SumsTyped
<1>11. CASE m.err # NoError
  <2> DEFINE a == applyKafkaErrorCode(d, m.err)
  <2>1. m.err \in Errors
    BY <1>2, <1>11
  <2>2. /\ a = [d EXCEPT !.Err = OneMore(@, m.err)] /\ a \in Counters
        /\ SumFunction(a.Err) = SumFunction(d.Err) + 1
    BY <1>7, <2>1, ErrorCounted
  <2>3. /\ a.TotalMsgDeliveryEvent = d.TotalMsgDeliveryEvent
        /\ a.BytesInQueue = d.BytesInQueue /\ a.MsgStatus = d.MsgStatus
        /\ a.ProduceBytesOk = d.ProduceBytesOk /\ a.ProduceCalls = d.ProduceCalls
        /\ a.ProduceError = d.ProduceError /\ a.MsgError = d.MsgError
        /\ a.ErrorEventCounter = d.ErrorEventCounter
        /\ a.MsgDeliverySuccess = d.MsgDeliverySuccess
        /\ a.BytesTransmittedToBrokers = d.BytesTransmittedToBrokers
    BY <1>7, <2>2 DEF Counters
  <2> HIDE DEF a
  <2>4. c' = [a EXCEPT !.MsgError = @ + 1]
    BY <1>9, <1>11 DEF a
  <2>5. c' \in Counters /\ c'.MsgError = a.MsgError + 1
    BY ONLY <2>2, <2>4, CountersSet
  <2>6. /\ c'.TotalMsgDeliveryEvent = a.TotalMsgDeliveryEvent
        /\ c'.BytesInQueue = a.BytesInQueue /\ c'.MsgStatus = a.MsgStatus
        /\ c'.ProduceCalls = a.ProduceCalls
        /\ c'.ProduceError = a.ProduceError /\ c'.Err = a.Err
        /\ c'.ErrorEventCounter = a.ErrorEventCounter
        /\ c'.MsgDeliverySuccess = a.MsgDeliverySuccess
    BY <2>2, <2>4 DEF Counters
  <2>7. KafkaTyped'
    BY <1>1, <1>4, <1>5, <2>5 DEF KafkaTyped
  <2>8. AccountsNow'
    <3>1. /\ c.BytesInQueue \in Int /\ c.ProduceCalls \in Nat /\ c.ProduceError \in Nat
          /\ c.TotalMsgDeliveryEvent \in Nat /\ c.MsgDeliverySuccess \in Nat
          /\ c.MsgError \in Nat /\ c.ErrorEventCounter \in Nat
      BY <1>1 DEF Counters
    <3>2. uncounted \in {0, 1} /\ length \in Nat /\ uncounted * length \in Int
      BY <1>1, UncountedTyped
    <3>3. length' = length /\ uncounted' = uncounted
      BY <1>5
    <3>4. AccountsNow
      BY <1>1, AccountsAre
    <3>5. SumFunction(c'.MsgStatus) = SumFunction(c.MsgStatus) + 1
      BY <1>3, <1>8, <2>3, <2>6
    <3>6. SumFunction(c'.Err) = SumFunction(c.Err) + 1
      BY <1>8, <2>2, <2>6
    <3>7. /\ c'.TotalMsgDeliveryEvent = c.TotalMsgDeliveryEvent + 1
          /\ c'.BytesInQueue = c.BytesInQueue - m.len
          /\ c'.ProduceCalls = c.ProduceCalls /\ c'.ProduceError = c.ProduceError
          /\ c'.MsgError = c.MsgError + 1 /\ c'.ErrorEventCounter = c.ErrorEventCounter
          /\ c'.MsgDeliverySuccess = c.MsgDeliverySuccess
      BY <1>8, <2>3, <2>5, <2>6
    <3>8. c'.BytesInQueue + uncounted' * length' = queuedBytes' + reportedBytes'
      <4> DEFINE held == uncounted * length
                 held_1 == uncounted' * length'
      <4>1. c.BytesInQueue + held = queuedBytes + reportedBytes
        BY <3>4 DEF Accounts, AccountsNow
      <4>2. held_1 = held /\ held \in Int
        BY <3>2, <3>3
      <4> HIDE DEF held, held_1
      <4>3. c'.BytesInQueue = c.BytesInQueue - m.len
        BY <3>7
      <4>4. c'.BytesInQueue + held_1 = queuedBytes' + reportedBytes'
        BY <1>2, <1>4, <1>5, <1>10, <3>1, <4>1, <4>2, <4>3
      <4> QED BY <4>4 DEF held_1
    <3>9. c'.ProduceCalls - c'.ProduceError + uncounted'
            = SumFunction(queue') + SumFunction(reports') + c'.TotalMsgDeliveryEvent
      BY <1>4, <1>5, <1>10, <3>1, <3>2, <3>3, <3>4, <3>7 DEF Accounts, AccountsNow
    <3>10. /\ c'.TotalMsgDeliveryEvent = c'.MsgDeliverySuccess + c'.MsgError
           /\ c'.MsgError # 0
      BY <3>1, <3>4, <3>7 DEF Accounts, AccountsNow
    <3>11. c'.TotalMsgDeliveryEvent = SumFunction(c'.MsgStatus)
      BY <1>10, <3>1, <3>4, <3>5, <3>7 DEF Accounts, AccountsNow
    <3>12. SumFunction(c'.Err) = c'.ProduceError + c'.MsgError + c'.ErrorEventCounter
      BY <1>10, <3>1, <3>4, <3>6, <3>7 DEF Accounts, AccountsNow
    <3> QED
      BY <3>8, <3>9, <3>10, <3>11, <3>12 DEF Accounts, AccountsNow
  <2> QED BY <2>7, <2>8, AccountsAre DEF KafkaInv
<1>12. CASE m.err = NoError
  <2>1. c' = [d EXCEPT !.MsgDeliverySuccess = @ + 1,
                       !.BytesTransmittedToBrokers = @ + m.len]
    BY <1>9, <1>12
  <2>2. c' \in Counters
    BY ONLY <1>2, <1>7, <2>1, CountersSet
  <2>3. /\ c'.MsgDeliverySuccess = d.MsgDeliverySuccess + 1
         /\ c'.BytesTransmittedToBrokers = d.BytesTransmittedToBrokers + m.len
    BY <1>7, <2>1 DEF Counters
  <2>4. /\ c'.TotalMsgDeliveryEvent = d.TotalMsgDeliveryEvent
        /\ c'.BytesInQueue = d.BytesInQueue /\ c'.MsgStatus = d.MsgStatus
        /\ c'.ProduceBytesOk = d.ProduceBytesOk /\ c'.ProduceCalls = d.ProduceCalls
        /\ c'.ProduceError = d.ProduceError /\ c'.Err = d.Err /\ c'.MsgError = d.MsgError
        /\ c'.ErrorEventCounter = d.ErrorEventCounter
    BY <1>7, <2>1 DEF Counters
  <2>5. KafkaTyped'
    BY <1>1, <1>4, <1>5, <2>2 DEF KafkaTyped
  <2>6. AccountsNow'
    <3>1. /\ c.BytesInQueue \in Int /\ c.ProduceCalls \in Nat /\ c.ProduceError \in Nat
          /\ c.TotalMsgDeliveryEvent \in Nat /\ c.MsgDeliverySuccess \in Nat
          /\ c.MsgError \in Nat /\ c.ErrorEventCounter \in Nat
          /\ c.ProduceBytesOk \in Nat /\ c.BytesTransmittedToBrokers \in Nat
      BY <1>1 DEF Counters
    <3>2. uncounted \in {0, 1} /\ length \in Nat /\ uncounted * length \in Int
      BY <1>1, UncountedTyped
    <3>3. length' = length /\ uncounted' = uncounted
      BY <1>5
    <3>4. AccountsNow
      BY <1>1, AccountsAre
    <3>5. SumFunction(c'.MsgStatus) = SumFunction(c.MsgStatus) + 1
      BY <1>3, <1>8, <2>4
    <3>6. SumFunction(c'.Err) = SumFunction(c.Err)
      BY <1>8, <2>4
    <3>7. /\ c'.TotalMsgDeliveryEvent = c.TotalMsgDeliveryEvent + 1
          /\ c'.BytesInQueue = c.BytesInQueue - m.len
          /\ c'.ProduceCalls = c.ProduceCalls /\ c'.ProduceError = c.ProduceError
          /\ c'.MsgError = c.MsgError /\ c'.ErrorEventCounter = c.ErrorEventCounter
          /\ c'.MsgDeliverySuccess = c.MsgDeliverySuccess + 1
          /\ c'.ProduceBytesOk = c.ProduceBytesOk
          /\ c'.BytesTransmittedToBrokers = c.BytesTransmittedToBrokers + m.len
      BY <1>8, <2>3, <2>4
    <3>8. c'.BytesInQueue + uncounted' * length' = queuedBytes' + reportedBytes'
      <4> DEFINE held == uncounted * length
                 held_1 == uncounted' * length'
      <4>1. c.BytesInQueue + held = queuedBytes + reportedBytes
        BY <3>4 DEF Accounts, AccountsNow
      <4>2. held_1 = held /\ held \in Int
        BY <3>2, <3>3
      <4> HIDE DEF held, held_1
      <4>3. c'.BytesInQueue = c.BytesInQueue - m.len
        BY <3>7
      <4>4. c'.BytesInQueue + held_1 = queuedBytes' + reportedBytes'
        BY <1>2, <1>4, <1>5, <1>10, <3>1, <4>1, <4>2, <4>3
      <4> QED BY <4>4 DEF held_1
    <3>9. c'.ProduceCalls - c'.ProduceError + uncounted'
            = SumFunction(queue') + SumFunction(reports') + c'.TotalMsgDeliveryEvent
      BY <1>4, <1>5, <1>10, <3>1, <3>2, <3>3, <3>4, <3>7 DEF Accounts, AccountsNow
    <3>10. c'.TotalMsgDeliveryEvent = c'.MsgDeliverySuccess + c'.MsgError
      BY <3>1, <3>4, <3>7 DEF Accounts, AccountsNow
    <3>11. c'.TotalMsgDeliveryEvent = SumFunction(c'.MsgStatus)
      BY <1>10, <3>1, <3>4, <3>5, <3>7 DEF Accounts, AccountsNow
    <3>12. SumFunction(c'.Err) = c'.ProduceError + c'.MsgError + c'.ErrorEventCounter
      BY <1>10, <3>1, <3>4, <3>6, <3>7 DEF Accounts, AccountsNow
    <3>13. c'.MsgError = 0 =>
             c'.ProduceBytesOk = c'.BytesInQueue + c'.BytesTransmittedToBrokers
      BY <1>2, <3>1, <3>4, <3>7 DEF Accounts, AccountsNow
    <3> QED
      BY <3>8, <3>9, <3>10, <3>11, <3>12, <3>13 DEF Accounts, AccountsNow
  <2> QED BY <2>5, <2>6, AccountsAre DEF KafkaInv
<1> QED BY <1>11, <1>12

\* The counters that DeliveriesAccounted speaks of.
SameCounters(c, d) ==
  /\ d.BytesInQueue = c.BytesInQueue /\ d.ProduceCalls = c.ProduceCalls
  /\ d.ProduceError = c.ProduceError
  /\ d.TotalMsgDeliveryEvent = c.TotalMsgDeliveryEvent
  /\ d.MsgDeliverySuccess = c.MsgDeliverySuccess /\ d.MsgError = c.MsgError
  /\ d.MsgStatus = c.MsgStatus /\ d.ProduceBytesOk = c.ProduceBytesOk
  /\ d.BytesTransmittedToBrokers = c.BytesTransmittedToBrokers
  /\ d.Err = c.Err /\ d.ErrorEventCounter = c.ErrorEventCounter

LEMMA SameAccounts ==
  ASSUME KafkaInv, KafkaTyped', SameCounters(StatCounters, StatCounters'),
         length' = length, error' = error,
         queuedBytes' + reportedBytes' = queuedBytes + reportedBytes,
         SumFunction(queue') + SumFunction(reports') = SumFunction(queue) + SumFunction(reports)
  PROVE  KafkaInv'
<1>1. AccountsNow
  BY AccountsAre DEF KafkaInv
<1>2. uncounted' = uncounted
  BY DEF uncounted
<1>3. AccountsNow'
  BY <1>1, <1>2 DEF AccountsNow, Accounts, SameCounters
<1> QED BY <1>3, AccountsAre DEF KafkaInv

LEMMA ErrorServed ==
  ASSUME KafkaInv, NEW e \in Errors, event_cb(e)
  PROVE  KafkaInv'
<1> DEFINE a == applyKafkaErrorCode(StatCounters, e)
<1>1. KafkaTyped /\ AccountsNow /\ StatCounters \in Counters
  BY AccountsAre DEF KafkaInv, KafkaTyped
<1>2. /\ a = [StatCounters EXCEPT !.Err = OneMore(@, e)] /\ a \in Counters
      /\ SumFunction(a.Err) = SumFunction(StatCounters.Err) + 1
  BY <1>1, ErrorCounted
<1>3. /\ a.BytesInQueue = StatCounters.BytesInQueue
      /\ a.ProduceCalls = StatCounters.ProduceCalls
      /\ a.ProduceError = StatCounters.ProduceError
      /\ a.TotalMsgDeliveryEvent = StatCounters.TotalMsgDeliveryEvent
      /\ a.MsgDeliverySuccess = StatCounters.MsgDeliverySuccess
      /\ a.MsgError = StatCounters.MsgError /\ a.MsgStatus = StatCounters.MsgStatus
      /\ a.ProduceBytesOk = StatCounters.ProduceBytesOk
      /\ a.BytesTransmittedToBrokers = StatCounters.BytesTransmittedToBrokers
      /\ a.ErrorEventCounter = StatCounters.ErrorEventCounter
  BY <1>1, <1>2 DEF Counters
<1> HIDE DEF a
<1>4. StatCounters' = [a EXCEPT !.ErrorEventCounter = @ + 1]
  BY DEF event_cb, a
<1>5. StatCounters' \in Counters /\ StatCounters'.ErrorEventCounter = a.ErrorEventCounter + 1
  <2>1. \A c \in Counters : /\ [c EXCEPT !.ErrorEventCounter = @ + 1] \in Counters
                            /\ [c EXCEPT !.ErrorEventCounter = @ + 1].ErrorEventCounter
                                 = c.ErrorEventCounter + 1
    BY DEF Counters
  <2> QED BY ONLY <1>2, <1>4, <2>1
<1>6. /\ StatCounters'.BytesInQueue = a.BytesInQueue
      /\ StatCounters'.ProduceCalls = a.ProduceCalls
      /\ StatCounters'.ProduceError = a.ProduceError
      /\ StatCounters'.TotalMsgDeliveryEvent = a.TotalMsgDeliveryEvent
      /\ StatCounters'.MsgDeliverySuccess = a.MsgDeliverySuccess
      /\ StatCounters'.MsgError = a.MsgError /\ StatCounters'.MsgStatus = a.MsgStatus
      /\ StatCounters'.ProduceBytesOk = a.ProduceBytesOk
      /\ StatCounters'.BytesTransmittedToBrokers = a.BytesTransmittedToBrokers
      /\ StatCounters'.Err = a.Err
  BY <1>2, <1>4 DEF Counters
<1>7. UNCHANGED <<queue, reports, pc, length, error, HighWatermarkReached>>
      /\ errorEvents' \in [Errors -> Nat]
  <2>1. errorEvents \in [Errors -> Nat] /\ errorEvents[e] > 0 /\ errorEvents' = OneLess(errorEvents, e)
    BY <1>1 DEF event_cb, KafkaTyped
  <2>2. errorEvents' \in [Errors -> Nat]
    BY <2>1, ProducerAssumption, OneMoreOfAll
  <2> QED BY <2>2 DEF event_cb
<1>8. KafkaTyped'
  BY <1>1, <1>5, <1>7 DEF KafkaTyped
<1>9. uncounted' = uncounted /\ queuedBytes' = queuedBytes /\ reportedBytes' = reportedBytes
  BY <1>7 DEF uncounted, queuedBytes, reportedBytes
<1>10. /\ SumFunction(StatCounters.Err) \in Int
       /\ StatCounters.ProduceError \in Nat /\ StatCounters.MsgError \in Nat
       /\ StatCounters.ErrorEventCounter \in Nat
  BY <1>1, SumsTyped DEF Counters
<1>11. SumFunction(StatCounters'.Err) =
         StatCounters'.ProduceError + StatCounters'.MsgError + StatCounters'.ErrorEventCounter
  BY <1>1, <1>2, <1>3, <1>5, <1>6, <1>10 DEF AccountsNow, Accounts
<1>12. AccountsNow'
  BY <1>1, <1>3, <1>6, <1>7, <1>9, <1>11 DEF AccountsNow, Accounts
<1> QED BY <1>8, <1>12, AccountsAre DEF KafkaInv

LEMMA MessageDelivered ==
  ASSUME KafkaInv, NEW m \in Report, deliver(m)
  PROVE  KafkaInv'
<1>1. KafkaTyped /\ queue \in [Lengths -> Nat] /\ reports \in [Report -> Nat]
  BY DEF KafkaInv, KafkaTyped
<1>2. m.len \in Lengths /\ m.len \in Nat
  BY ProducerAssumption DEF Report
<1>3. /\ queue[m.len] > 0 /\ queue' = OneLess(queue, m.len)
      /\ reports' = OneMore(reports, m)
      /\ UNCHANGED <<errorEvents, pc, length, error, HighWatermarkReached, StatCounters>>
  BY DEF deliver
<1>4. /\ queue' \in [Lengths -> Nat] /\ SumFunction(queue') = SumFunction(queue) - 1
      /\ queuedBytes' = queuedBytes - m.len
  <2>1. queue' \in [Lengths -> Nat] /\ SumFunction(queue') = SumFunction(queue) - 1
    <3>1. IsFiniteSet(Lengths) /\ queue \in [Lengths -> Nat] /\ m.len \in Lengths
      BY <1>1, <1>2, ProducerAssumption
    <3> DEFINE n == m.len
    <3>2. /\ queue[n] > 0 => OneLess(queue, n) \in [Lengths -> Nat]
          /\ queue[n] > 0 => SumFunction(OneLess(queue, n)) = SumFunction(queue) - 1
      <4> HIDE DEF n
      <4>1. n \in Lengths
        BY <3>1 DEF n
      <4> QED BY <3>1, <4>1, OneMoreOfAll
    <3> QED BY <1>3, <3>2
  <2>2. queuedBytes' = queuedBytes - m.len
    BY <1>1, <1>2, <1>3, MessageMore DEF queuedBytes
  <2> QED BY <2>1, <2>2
<1>5. /\ reports' \in [Report -> Nat] /\ SumFunction(reports') = SumFunction(reports) + 1
      /\ reportedBytes' = reportedBytes + m.len
  <2>1. reports' \in [Report -> Nat] /\ SumFunction(reports') = SumFunction(reports) + 1
    BY <1>1, <1>3, ReportsFinite, OneMoreOfAll
  <2>2. reportedBytes' = reportedBytes + m.len
    BY <1>1, <1>3, ReportMore DEF reportedBytes
  <2> QED BY <2>1, <2>2
<1>6. KafkaTyped'
  BY <1>1, <1>3, <1>4, <1>5 DEF KafkaTyped
<1>7. SameCounters(StatCounters, StatCounters')
  BY <1>3 DEF SameCounters
<1>8. /\ queuedBytes \in Int /\ reportedBytes \in Int
      /\ SumFunction(queue) \in Int /\ SumFunction(reports) \in Int
  BY <1>1, SumsTyped
<1>9. /\ queuedBytes' + reportedBytes' = queuedBytes + reportedBytes
      /\ SumFunction(queue') + SumFunction(reports') = SumFunction(queue) + SumFunction(reports)
  BY <1>2, <1>4, <1>5, <1>8
<1> QED BY <1>3, <1>6, <1>7, <1>9, SameAccounts

LEMMA MessageTaken ==
  ASSUME KafkaInv, NEW n \in Lengths, produce(n)
  PROVE  KafkaInv'
<1>1. KafkaTyped /\ AccountsNow /\ queue \in [Lengths -> Nat] /\ StatCounters \in Counters
  BY AccountsAre DEF KafkaInv, KafkaTyped
<1>2. /\ length = 0 /\ length' = n /\ pc' = "recover"
      /\ UNCHANGED <<reports, errorEvents, HighWatermarkReached, StatCounters>>
  BY <1>1 DEF produce, KafkaTyped
<1>3. n \in Nat /\ n # 0
  BY ProducerAssumption
<1>4. uncounted = 0 /\ reportedBytes' = reportedBytes
  BY <1>2 DEF uncounted, reportedBytes
<1>5. /\ queuedBytes \in Int /\ reportedBytes \in Int
      /\ SumFunction(queue) \in Int /\ SumFunction(reports) \in Int
      /\ StatCounters.BytesInQueue \in Int /\ StatCounters.ProduceCalls \in Nat
      /\ StatCounters.ProduceError \in Nat /\ StatCounters.TotalMsgDeliveryEvent \in Nat
  BY <1>1, SumsTyped DEF Counters
<1>6. CASE error' = NoError /\ queue' = OneMore(queue, n)
  <2>1. queue' \in [Lengths -> Nat] /\ SumFunction(queue') = SumFunction(queue) + 1
    BY <1>1, <1>6, ProducerAssumption, OneMoreOfAll
  <2>2. queuedBytes' = queuedBytes + n
    BY <1>1, <1>6, MessageMore DEF queuedBytes
  <2>3. uncounted' = 1
    BY <1>2, <1>3, <1>6 DEF uncounted
  <2>4. KafkaTyped'
    BY <1>1, <1>2, <1>6, <2>1 DEF KafkaTyped
  <2>5. AccountsNow'
    BY <1>1, <1>2, <1>3, <1>4, <1>5, <2>1, <2>2, <2>3 DEF AccountsNow, Accounts
  <2> QED BY <2>4, <2>5, AccountsAre DEF KafkaInv
<1>7. CASE error' \in Errors /\ UNCHANGED queue
  <2>1. uncounted' = 0
    BY <1>7, ProducerAssumption DEF uncounted
  <2>2. queuedBytes' = queuedBytes
    BY <1>7 DEF queuedBytes
  <2>3. KafkaTyped'
    BY <1>1, <1>2, <1>7 DEF KafkaTyped
  <2>4. AccountsNow'
    BY <1>1, <1>2, <1>3, <1>4, <1>5, <1>7, <2>1, <2>2 DEF AccountsNow, Accounts
  <2> QED BY <2>3, <2>4, AccountsAre DEF KafkaInv
<1> QED BY <1>6, <1>7 DEF produce

LEMMA CallCounted ==
  ASSUME NEW c \in Counters, NEW l \in Nat
  PROVE  /\ [c EXCEPT !.BytesInQueue = @ + l, !.ProduceBytesOk = @ + l] \in Counters
         /\ [c EXCEPT !.BytesInQueue = @ + l, !.ProduceBytesOk = @ + l].BytesInQueue
              = c.BytesInQueue + l
         /\ [c EXCEPT !.BytesInQueue = @ + l, !.ProduceBytesOk = @ + l].ProduceBytesOk
              = c.ProduceBytesOk + l
         /\ [c EXCEPT !.ProduceError = @ + 1, !.ProduceBytesError = @ + l] \in Counters
         /\ [c EXCEPT !.ProduceError = @ + 1, !.ProduceBytesError = @ + l].ProduceError
              = c.ProduceError + 1
<1>1. /\ c.BytesInQueue + l \in Int /\ c.ProduceBytesOk + l \in Nat
      /\ c.ProduceError + 1 \in Nat /\ c.ProduceBytesError + l \in Nat
  BY DEF Counters
<1>2. /\ [c EXCEPT !.BytesInQueue = @ + l, !.ProduceBytesOk = @ + l] \in Counters
      /\ [c EXCEPT !.ProduceError = @ + 1, !.ProduceBytesError = @ + l] \in Counters
  BY <1>1 DEF Counters
<1>3. /\ [c EXCEPT !.BytesInQueue = @ + l, !.ProduceBytesOk = @ + l].BytesInQueue
           = c.BytesInQueue + l
      /\ [c EXCEPT !.BytesInQueue = @ + l, !.ProduceBytesOk = @ + l].ProduceBytesOk
           = c.ProduceBytesOk + l
      /\ [c EXCEPT !.ProduceError = @ + 1, !.ProduceBytesError = @ + l].ProduceError
           = c.ProduceError + 1
  BY DEF Counters
<1> QED BY <1>2, <1>3

\* A sum of natural numbers is one.
LEMMA SumOfNumbers ==
  ASSUME NEW D, IsFiniteSet(D), NEW f \in [D -> Nat]
  PROVE  SumFunction(f) \in Nat
<1>1. \A y \in D : f[y] \in Int
  OBVIOUS
<1> DEFINE G == {s \in SUBSET D : SumFunctionOnSet(f, s) \notin Nat}
<1>2. ASSUME G # {} PROVE FALSE
  <2>1. PICK T \in G : \A U \in G : U \subseteq T => U = T
    <3>1. G \in SUBSET SUBSET D
      OBVIOUS
    <3> HIDE DEF G
    <3> QED BY <1>2, <3>1, SmallestSubset
  <2>2. T \in SUBSET D /\ SumFunctionOnSet(f, T) \notin Nat
    BY <2>1
  <2>3. T # {}
    BY <2>2, SumEmpty
  <2> PICK x \in T : TRUE
    BY <2>3
  <2>4. IsFiniteSet(T) /\ \A y \in T : f[y] \in Int
    BY <1>1, <2>2, FS_Subset
  <2>5. SumFunctionOnSet(f, T \ {x}) \in Nat
    BY <2>1, <2>2
  <2>6. SumFunctionOnSet(f, T) = f[x] + SumFunctionOnSet(f, T \ {x})
    BY <2>4, SumStep
  <2>7. f[x] \in Nat
    BY <2>2
  <2> QED BY <2>2, <2>5, <2>6, <2>7
<1>3. SumFunctionOnSet(f, D) \in Nat
  BY <1>2
<1> QED BY <1>3 DEF SumFunction

LEMMA CallReturns ==
  ASSUME KafkaInv, produceReturns
  PROVE  KafkaInv'
<1> DEFINE c == StatCounters
           d == [c EXCEPT !.ProduceCalls = @ + 1]
<1>1. KafkaTyped /\ AccountsNow /\ c \in Counters
  BY AccountsAre DEF KafkaInv, KafkaTyped
<1>2. /\ pc = "count" /\ pc' = "idle" /\ length' = 0 /\ error' = NoError
      /\ UNCHANGED <<library, HighWatermarkReached>>
  BY DEF produceReturns
<1>3. length # 0 /\ length \in Nat /\ uncounted' = 0
  <2>1. length \in Nat
    BY <1>1, UncountedTyped
  <2> QED BY <1>1, <1>2, <2>1 DEF KafkaTyped, uncounted
<1>4. /\ queuedBytes' = queuedBytes /\ reportedBytes' = reportedBytes
      /\ queue' = queue /\ reports' = reports
  BY <1>2 DEF queuedBytes, reportedBytes, library
<1>5. /\ queuedBytes \in Int /\ reportedBytes \in Int
      /\ SumFunction(queue) \in Int /\ SumFunction(reports) \in Int
      /\ SumFunction(c.Err) \in Int
      /\ c.BytesInQueue \in Int /\ c.ProduceCalls \in Nat /\ c.ProduceError \in Nat
      /\ c.TotalMsgDeliveryEvent \in Nat /\ c.MsgError \in Nat /\ c.ErrorEventCounter \in Nat
      /\ c.ProduceBytesOk \in Nat /\ c.BytesTransmittedToBrokers \in Nat
  BY <1>1, SumsTyped DEF Counters
<1>6. d \in Counters /\ d.ProduceCalls = c.ProduceCalls + 1
  BY <1>1 DEF Counters
<1>7. /\ d.BytesInQueue = c.BytesInQueue /\ d.ProduceError = c.ProduceError
      /\ d.TotalMsgDeliveryEvent = c.TotalMsgDeliveryEvent
      /\ d.MsgDeliverySuccess = c.MsgDeliverySuccess /\ d.MsgError = c.MsgError
      /\ d.MsgStatus = c.MsgStatus /\ d.ProduceBytesOk = c.ProduceBytesOk
      /\ d.BytesTransmittedToBrokers = c.BytesTransmittedToBrokers
      /\ d.Err = c.Err /\ d.ErrorEventCounter = c.ErrorEventCounter
  BY <1>1 DEF Counters
<1>8. c' = IF error # NoError
           THEN [applyKafkaErrorCode(d, error) EXCEPT
                   !.ProduceError = @ + 1, !.ProduceBytesError = @ + length]
           ELSE [d EXCEPT !.BytesInQueue = @ + length, !.ProduceBytesOk = @ + length]
  BY DEF produceReturns
<1> HIDE DEF d
<1>9. CASE error # NoError
  <2> DEFINE a == applyKafkaErrorCode(d, error)
  <2>1. error \in Errors
    BY <1>1, <1>9 DEF KafkaTyped
  <2>2. /\ a = [d EXCEPT !.Err = OneMore(@, error)] /\ a \in Counters
        /\ SumFunction(a.Err) = SumFunction(d.Err) + 1
    BY <1>6, <2>1, ErrorCounted
  <2>3. /\ a.BytesInQueue = d.BytesInQueue /\ a.ProduceCalls = d.ProduceCalls
        /\ a.ProduceError = d.ProduceError
        /\ a.TotalMsgDeliveryEvent = d.TotalMsgDeliveryEvent
        /\ a.MsgDeliverySuccess = d.MsgDeliverySuccess /\ a.MsgError = d.MsgError
        /\ a.MsgStatus = d.MsgStatus /\ a.ProduceBytesOk = d.ProduceBytesOk
        /\ a.BytesTransmittedToBrokers = d.BytesTransmittedToBrokers
        /\ a.ErrorEventCounter = d.ErrorEventCounter
    BY <1>6, <2>2 DEF Counters
  <2> HIDE DEF a
  <2>4. c' = [a EXCEPT !.ProduceError = @ + 1, !.ProduceBytesError = @ + length]
    BY <1>8, <1>9 DEF a
  <2>5. c' \in Counters /\ c'.ProduceError = a.ProduceError + 1
    BY ONLY <1>3, <2>2, <2>4, CallCounted
  <2>6. /\ c'.BytesInQueue = a.BytesInQueue /\ c'.ProduceCalls = a.ProduceCalls
        /\ c'.TotalMsgDeliveryEvent = a.TotalMsgDeliveryEvent
        /\ c'.MsgDeliverySuccess = a.MsgDeliverySuccess /\ c'.MsgError = a.MsgError
        /\ c'.MsgStatus = a.MsgStatus /\ c'.ProduceBytesOk = a.ProduceBytesOk
        /\ c'.BytesTransmittedToBrokers = a.BytesTransmittedToBrokers
        /\ c'.ErrorEventCounter = a.ErrorEventCounter /\ c'.Err = a.Err
    BY <2>2, <2>4 DEF Counters
  <2>7. uncounted = 0
    BY <1>9 DEF uncounted
  <2>8. KafkaTyped'
    BY <1>1, <1>2, <2>5 DEF KafkaTyped, library
  <2>9. c'.ProduceCalls - c'.ProduceError + uncounted'
          = SumFunction(queue') + SumFunction(reports') + c'.TotalMsgDeliveryEvent
    BY <1>1, <1>3, <1>4, <1>5, <1>6, <1>7, <2>3, <2>5, <2>6, <2>7 DEF AccountsNow, Accounts
  <2>10. SumFunction(c'.Err) = c'.ProduceError + c'.MsgError + c'.ErrorEventCounter
    BY <1>1, <1>5, <1>6, <1>7, <2>2, <2>3, <2>5, <2>6 DEF AccountsNow, Accounts
  <2>11. c'.BytesInQueue + uncounted' * length' = queuedBytes' + reportedBytes'
    BY <1>1, <1>2, <1>3, <1>4, <1>5, <1>7, <2>3, <2>6, <2>7 DEF AccountsNow, Accounts
  <2>12. AccountsNow'
    BY <1>1, <1>7, <2>3, <2>6, <2>9, <2>10, <2>11 DEF AccountsNow, Accounts
  <2> QED BY <2>8, <2>12, AccountsAre DEF KafkaInv
<1>10. CASE error = NoError
  <2>1. c' = [d EXCEPT !.BytesInQueue = @ + length, !.ProduceBytesOk = @ + length]
    BY <1>8, <1>10
  <2>2. /\ c' \in Counters /\ c'.BytesInQueue = d.BytesInQueue + length
        /\ c'.ProduceBytesOk = d.ProduceBytesOk + length
    BY ONLY <1>3, <1>6, <2>1, CallCounted
  <2>3. /\ c'.ProduceCalls = d.ProduceCalls /\ c'.ProduceError = d.ProduceError
        /\ c'.TotalMsgDeliveryEvent = d.TotalMsgDeliveryEvent
        /\ c'.MsgDeliverySuccess = d.MsgDeliverySuccess /\ c'.MsgError = d.MsgError
        /\ c'.MsgStatus = d.MsgStatus
        /\ c'.BytesTransmittedToBrokers = d.BytesTransmittedToBrokers
        /\ c'.ErrorEventCounter = d.ErrorEventCounter /\ c'.Err = d.Err
    BY <1>6, <2>1 DEF Counters
  <2>4. uncounted = 1
    BY <1>3, <1>10 DEF uncounted
  <2>5. KafkaTyped'
    BY <1>1, <1>2, <2>2, ProducerAssumption DEF KafkaTyped, library
  <2>6. c'.BytesInQueue + uncounted' * length' = queuedBytes' + reportedBytes'
    BY <1>1, <1>2, <1>3, <1>4, <1>5, <1>7, <2>2, <2>4 DEF AccountsNow, Accounts
  <2>7. c'.ProduceCalls - c'.ProduceError + uncounted'
          = SumFunction(queue') + SumFunction(reports') + c'.TotalMsgDeliveryEvent
    <3>1. c.ProduceCalls - c.ProduceError + 1
            = SumFunction(queue) + SumFunction(reports) + c.TotalMsgDeliveryEvent
      BY <1>1, <2>4 DEF AccountsNow, Accounts
    <3>2. c'.ProduceCalls = c.ProduceCalls + 1 /\ c'.ProduceError = c.ProduceError
          /\ c'.TotalMsgDeliveryEvent = c.TotalMsgDeliveryEvent
      BY <1>6, <1>7, <2>3
    <3> QED BY <1>3, <1>4, <1>5, <3>1, <3>2
  <2>8. c'.MsgError = 0 =>
          c'.ProduceBytesOk = c'.BytesInQueue + c'.BytesTransmittedToBrokers
    BY <1>1, <1>3, <1>5, <1>7, <2>2, <2>3 DEF AccountsNow, Accounts
  <2>9. AccountsNow'
    BY <1>1, <1>7, <2>3, <2>6, <2>7, <2>8 DEF AccountsNow, Accounts
  <2> QED BY <2>5, <2>9, AccountsAre DEF KafkaInv
<1> QED BY <1>9, <1>10

LEMMA KafkaInvInit == ProducerInit => KafkaInv
<1> SUFFICES ASSUME ProducerInit PROVE KafkaInv
  OBVIOUS
<1>1. KafkaTyped
  <2>1. StatCounters \in Counters
    BY DEF ProducerInit, Counters
  <2> QED BY <2>1 DEF ProducerInit, KafkaTyped
<1>2. ASSUME NEW D, IsFiniteSet(D), NEW f, DOMAIN f = D, \A x \in D : f[x] = 0
      PROVE  SumFunction(f) = 0
  BY <1>2, SumZero DEF SumFunction
<1>3. IsFiniteSet(Lengths) /\ IsFiniteSet(Errors) /\ IsFiniteSet(Report) /\ IsFiniteSet(Statuses)
  BY ProducerAssumption, ReportsFinite
<1>4. /\ SumFunction([n \in Lengths |-> 0]) = 0 /\ SumFunction([m \in Report |-> 0]) = 0
      /\ SumFunction([e \in Errors |-> 0]) = 0 /\ SumFunction([s \in Statuses |-> 0]) = 0
  BY <1>2, <1>3
<1>5. queuedBytes = 0
  <2>1. \A n \in Lengths : n * queue[n] = 0
    BY ProducerAssumption DEF ProducerInit
  <2> QED BY <1>2, <1>3, <2>1 DEF queuedBytes
<1>6. reportedBytes = 0
  <2>1. \A m \in Report : m.len * reports[m] = 0
    <3>1. \A m \in Report : m.len \in Nat
      BY ProducerAssumption DEF Report
    <3>2. \A m \in Report : reports[m] = 0
      BY DEF ProducerInit
    <3>3. \A i \in Nat : i * 0 = 0
      OBVIOUS
    <3> QED BY <3>1, <3>2, <3>3
  <2> QED BY <1>2, <1>3, <2>1 DEF reportedBytes
<1>7. AccountsNow
  BY <1>4, <1>5, <1>6 DEF AccountsNow, Accounts, ProducerInit, uncounted
<1> QED BY <1>1, <1>7, AccountsAre DEF KafkaInv

LEMMA KafkaInvStep == KafkaInv /\ [ProducerNext]_kafkaVars => KafkaInv'
<1> SUFFICES ASSUME KafkaInv, [ProducerNext]_kafkaVars PROVE KafkaInv'
  OBVIOUS
<1>1. KafkaTyped /\ StatCounters \in Counters
  BY DEF KafkaInv, KafkaTyped
<1>2. CASE poll
  <2>1. /\ length = 0 /\ UNCHANGED <<library, HighWatermarkReached, StatCounters>>
        /\ length' = 0 /\ pc' = "recover" /\ error' = NoError
    BY <1>1, <1>2 DEF poll, KafkaTyped
  <2>2. KafkaTyped' /\ uncounted' = uncounted
    BY <1>1, <2>1 DEF KafkaTyped, library, uncounted
  <2>3. queuedBytes' = queuedBytes /\ reportedBytes' = reportedBytes
    BY <2>1 DEF queuedBytes, reportedBytes, library
  <2>4. AccountsNow
    BY AccountsAre DEF KafkaInv
  <2>5. AccountsNow'
    BY <2>1, <2>2, <2>3, <2>4 DEF AccountsNow, Accounts, library
  <2> QED BY <2>2, <2>5, AccountsAre DEF KafkaInv
<1>3. CASE tryMemoryRecovery
  <2> DEFINE r == outq_len >= QueueHighWatermark /\ outq_len < QueueRecoveryThreshold
  <2>1. /\ UNCHANGED <<library, length, error>> /\ pc' = "serve"
        /\ HighWatermarkReached' \in BOOLEAN
        /\ StatCounters' = [StatCounters EXCEPT !.MallocTrimCalls = IF r THEN @ + 1 ELSE @]
    BY <1>3 DEF tryMemoryRecovery
  <2> HIDE DEF r
  <2>2. StatCounters' \in Counters /\ SameCounters(StatCounters, StatCounters')
    BY <1>1, <2>1 DEF Counters, SameCounters
  <2>3. KafkaTyped'
    BY <1>1, <2>1, <2>2 DEF KafkaTyped, library
  <2> QED BY <2>1, <2>2, <2>3, SameAccounts DEF library, queuedBytes, reportedBytes
<1>4. CASE pollReturns
  <2>1. /\ UNCHANGED <<library, length, error, HighWatermarkReached>>
        /\ pc' = IF length = 0 THEN "idle" ELSE "count"
        /\ StatCounters' = [StatCounters EXCEPT !.NumberOfMsgInQueue = outq_len]
    BY <1>4 DEF pollReturns
  <2>2. outq_len \in Nat
    <3>1. /\ queue \in [Lengths -> Nat] /\ reports \in [Report -> Nat]
          /\ errorEvents \in [Errors -> Nat]
      BY <1>1 DEF KafkaTyped
    <3>2. /\ SumFunction(queue) \in Nat /\ SumFunction(reports) \in Nat
          /\ SumFunction(errorEvents) \in Nat
      BY <3>1, ProducerAssumption, ReportsFinite, SumOfNumbers
    <3> QED BY <3>2 DEF outq_len
  <2>3. StatCounters' \in Counters /\ SameCounters(StatCounters, StatCounters')
    BY <1>1, <2>1, <2>2 DEF Counters, SameCounters
  <2>4. KafkaTyped'
    BY <1>1, <2>1, <2>3 DEF KafkaTyped, library
  <2> QED BY <2>1, <2>3, <2>4, SameAccounts DEF library, queuedBytes, reportedBytes
<1>5. ASSUME NEW e \in Errors, raise(e) PROVE KafkaInv'
  <2>1. UNCHANGED <<queue, reports, pc, length, error, HighWatermarkReached, StatCounters>>
    BY <1>5 DEF raise
  <2>2. errorEvents' \in [Errors -> Nat]
    <3>1. errorEvents \in [Errors -> Nat] /\ errorEvents' = OneMore(errorEvents, e)
      BY <1>1, <1>5 DEF raise, KafkaTyped
    <3> QED BY <3>1, ProducerAssumption, OneMoreOfAll
  <2>3. KafkaTyped' /\ SameCounters(StatCounters, StatCounters')
    BY <1>1, <2>1, <2>2 DEF KafkaTyped, SameCounters
  <2> QED BY <2>1, <2>3, SameAccounts DEF queuedBytes, reportedBytes
<1>6. CASE UNCHANGED kafkaVars
  <2>1. KafkaTyped' /\ SameCounters(StatCounters, StatCounters')
    BY <1>1, <1>6 DEF KafkaTyped, kafkaVars, SameCounters
  <2> QED BY <1>6, <2>1, SameAccounts DEF kafkaVars, queuedBytes, reportedBytes
<1> QED
  BY <1>2, <1>3, <1>4, <1>5, <1>6, MessageTaken, ReportServed, MessageDelivered,
     ErrorServed, CallReturns DEF ProducerNext

\* Whatever the lengths of the messages, the size of librdkafka's queue, its errors
\* and the order in which reports and errors are served, bytes, messages and errors
\* are each counted once (Producer::produce, dr_cb, event_cb).
THEOREM DeliveriesAreAccounted == ProducerSpec => []DeliveriesAccounted
<1>1. KafkaInv => DeliveriesAccounted
  BY DEF KafkaInv
<1> QED BY <1>1, KafkaInvInit, KafkaInvStep, PTL DEF ProducerSpec

\* The types of the producer; between calls BytesInQueue, which a report served
\* early makes negative, is what the library holds, so never negative.
THEOREM ProducerTypeCorrect == ProducerSpec => []ProducerTypeOK
<1>1. ASSUME KafkaInv PROVE ProducerTypeOK
  <2>1. KafkaTyped /\ AccountsNow
    BY <1>1, AccountsAre DEF KafkaInv
  <2>2. queuedBytes \in Nat /\ reportedBytes \in Nat
    <3>1. \A a, b \in Nat : a * b \in Nat
      OBVIOUS
    <3>2. [n \in Lengths |-> n * queue[n]] \in [Lengths -> Nat]
      BY <2>1, <3>1, ProducerAssumption DEF KafkaTyped
    <3>3. [m \in Report |-> m.len * reports[m]] \in [Report -> Nat]
      <4>1. \A m \in Report : m.len \in Nat
        BY ProducerAssumption DEF Report
      <4> QED BY <2>1, <3>1, <4>1 DEF KafkaTyped
    <3> QED
      BY <3>2, <3>3, ProducerAssumption, ReportsFinite, SumOfNumbers
      DEF queuedBytes, reportedBytes
  <2>3. pc = "idle" => StatCounters.BytesInQueue >= 0
    <3>1. SUFFICES ASSUME pc = "idle" PROVE StatCounters.BytesInQueue >= 0
      OBVIOUS
    <3>2. length = 0 /\ uncounted = 0
      BY <2>1, <3>1 DEF KafkaTyped, uncounted
    <3>3. StatCounters.BytesInQueue \in Int
      BY <2>1 DEF KafkaTyped, Counters
    <3>4. StatCounters.BytesInQueue + 0 * 0 = queuedBytes + reportedBytes
      BY <2>1, <3>2 DEF AccountsNow, Accounts
    <3> QED BY <2>2, <3>3, <3>4
  <2> QED BY <2>1, <2>3 DEF KafkaTyped, ProducerTypeOK
<1> QED BY <1>1, KafkaInvInit, KafkaInvStep, PTL DEF ProducerSpec

-----------------------------------------------------------------------------
(***************************************************************************)
(* The configured instruments.                                             *)
(***************************************************************************)
\* The configuration in use: the modules the file has, each with the two
\* bytes that say where it is.
ConfigurationOK ==
  /\ configuration.instrument \in DreamInstruments
  /\ \A f \in DOMAIN configuration.modules :
       /\ configuration.modules[f].type \in DreamTypes
       /\ configuration.modules[f].Index \in 0 .. 255
       /\ configuration.modules[f].Index2 \in 0 .. 255

\* Where an event comes from.
MadeOfReadout(e) ==
  /\ e.readout \in DreamReadouts /\ configured(e.readout)
  /\ e.pixel # 0 /\ e.pixel = dreamPixel(moduleAt(e.readout), e.readout).pixel

EventsMade == \A e \in events : MadeOfReadout(e)

CountersOK(C) ==
  /\ counters \in [C -> Nat] /\ readouts \in Nat
  /\ IsFiniteSet(events)
-----------------------------------------------------------------------------
\* config::apply() gives each ring and FEN the module the file says.
LEMMA ConfigurationApplied == DreamInit => ConfigurationOK
<1>. SUFFICES ASSUME DreamInit PROVE ConfigurationOK
  OBVIOUS
<1>1. PICK c \in DreamConfigurations : applicable(c) /\ configuration = applied(c)
  BY DEF DreamInit
<1>2. configuration.instrument \in DreamInstruments BY <1>1 DEF applicable, applied
<1>3. ASSUME NEW f \in DOMAIN configuration.modules
      PROVE  /\ configuration.modules[f].type \in DreamTypes
             /\ configuration.modules[f].Index \in 0 .. 255
             /\ configuration.modules[f].Index2 \in 0 .. 255
  <2>. DEFINE at(g) == {i \in DOMAIN c.Config : <<c.Config[i].Ring, c.Config[i].FEN>> = g}
              i == CHOOSE i \in at(f) : TRUE
  <2>1. /\ DOMAIN configuration.modules = {g \in (0 .. MaxRing) \X (0 .. MaxFEN) : at(g) # {}}
        /\ configuration.modules[f] = [type |-> c.Config[i].Type, Index |-> c.Config[i].Index,
                                       Index2 |-> c.Config[i].Index2]
    BY <1>1, <1>3, Zenon DEF applied
  <2>2. at(f) # {} BY <2>1
  <2>3. i \in DOMAIN c.Config BY <2>2
  <2>4. c.Config[i].Type \in DreamTypes BY <1>1, <2>3 DEF applicable
  <2>5. c.Config[i].Index \in 0 .. 255 /\ c.Config[i].Index2 \in 0 .. 255
    BY <2>3, DreamAssumption
  <2>6. /\ configuration.modules[f].type = c.Config[i].Type
        /\ configuration.modules[f].Index = c.Config[i].Index
        /\ configuration.modules[f].Index2 = c.Config[i].Index2
    BY <2>1
  <2>. QED BY <2>4, <2>5, <2>6, Zenon
<1>. QED BY <1>2, <1>3 DEF ConfigurationOK
-----------------------------------------------------------------------------
\* ESSGeometry::pixel2D(): 0, or a pixel of the plane.
LEMMA PlanePixels ==
  ASSUME NEW nx \in Nat, NEW ny \in Nat, NEW x, NEW y
  PROVE  pixel2D(nx, ny, x, y) \in 0 .. nx * ny
<1>1. CASE x \in 0 .. nx - 1 /\ y \in 0 .. ny - 1
  <2>1. x \in Nat /\ y \in Nat /\ x + 1 <= nx /\ 0 <= ny - 1 - y BY <1>1
  <2>2. nx * (ny - 1 - y) \in Nat BY <2>1
  <2>3. nx * (ny - 1 - y) = nx * ny - nx - nx * y BY <2>1
  <2>4. nx * y \in Nat /\ nx * ny \in Nat BY <2>1
  <2>5. 1 + x + nx * y <= nx * ny BY <2>1, <2>2, <2>3, <2>4
  <2>. QED BY <1>1, <2>1, <2>4, <2>5 DEF pixel2D
<1>2. CASE ~(x \in 0 .. nx - 1 /\ y \in 0 .. ny - 1)
  <2>1. nx * ny \in Nat OBVIOUS
  <2>. QED BY <1>2, <2>1 DEF pixel2D
<1>. QED BY <1>1, <1>2

\* A calculation in an nx by ny plane: it fails, or comes to a pixel of the plane.
InPlane(result, nx, ny) ==
  \E C : result = Pixel(0, C) \/ \E x, y : result = Pixel(pixel2D(nx, ny, x, y), C)

\* Either way there is no pixel beyond the plane.
LEMMA CalculatedPixels ==
  ASSUME NEW nx \in Nat, NEW ny \in Nat, NEW result, InPlane(result, nx, ny)
  PROVE  result.pixel \in 0 .. nx * ny
<1>1. \A pixel, C : Pixel(pixel, C).pixel = pixel BY DEF Pixel
<1>2. nx * ny \in Nat OBVIOUS
<1>3. 0 \in 0 .. nx * ny BY <1>2
<1>4. \A x, y : pixel2D(nx, ny, x, y) \in 0 .. nx * ny BY PlanePixels, Zenon
<1>5. PICK C : result = Pixel(0, C) \/ \E x, y : result = Pixel(pixel2D(nx, ny, x, y), C)
  BY Zenon DEF InPlane
<1>6. CASE result = Pixel(0, C) BY <1>1, <1>3, <1>6, Zenon
<1>7. CASE \E x, y : result = Pixel(pixel2D(nx, ny, x, y), C)
  <2>1. PICK x, y : result = Pixel(pixel2D(nx, ny, x, y), C) BY <1>7
  <2>2. result.pixel = pixel2D(nx, ny, x, y) BY <1>1, <2>1, Zenon
  <2>. QED BY <1>4, <2>2, Zenon
<1>. QED BY <1>5, <1>6, <1>7

\* Each part of the detector is a plane, and a module's pixels are calculated in
\* the plane of its type.
LEMMA Planes ==
  ASSUME NEW p, p.type \in DreamTypes, NEW r
  PROVE  \E nx, ny \in Nat : partSize(p.type) = nx * ny /\ InPlane(localPixel(p, r), nx, ny)
<1>1. CASE p.type = "FwEndCap"
  <2>. DEFINE nx == 280  ny == 256
  <2>1. \/ localPixel(p, r) = Pixel(0, sumoErrors(p.Index, r))
       \/ localPixel(p, r) = Pixel(pixel2D(nx, ny, sumoX(p.Index, r), sumoY(r)), {})
    BY <1>1, SMT DEF localPixel, endCapPixel
  <2>2. partSize(p.type) = nx * ny BY <1>1 DEF partSize
  <2>3. nx \in Nat /\ ny \in Nat OBVIOUS
  <2>. HIDE DEF nx, ny
  <2>. QED BY <2>1, <2>2, <2>3, Zenon DEF InPlane
<1>2. CASE p.type = "BwEndCap"
  <2>. DEFINE nx == 616  ny == 256
  <2>1. \/ localPixel(p, r) = Pixel(0, sumoErrors(p.Index, r))
       \/ localPixel(p, r) = Pixel(pixel2D(nx, ny, sumoX(p.Index, r), sumoY(r)), {})
    BY <1>2, SMT DEF localPixel, endCapPixel
  <2>2. partSize(p.type) = nx * ny BY <1>2 DEF partSize
  <2>3. nx \in Nat /\ ny \in Nat OBVIOUS
  <2>. HIDE DEF nx, ny
  <2>. QED BY <2>1, <2>2, <2>3, Zenon DEF InPlane
<1>3. CASE p.type = "DreamMantle"
  <2>. DEFINE nx == 256  ny == 1920
  <2>1. localPixel(p, r) = Pixel(pixel2D(nx, ny, r.cathode % 256, mantleY(p, r)), {})
    BY <1>3, SMT DEF localPixel, mantlePixel
  <2>2. partSize(p.type) = nx * ny BY <1>3 DEF partSize
  <2>3. nx \in Nat /\ ny \in Nat OBVIOUS
  <2>. HIDE DEF nx, ny
  <2>. QED BY <2>1, <2>2, <2>3, Zenon DEF InPlane
<1>4. CASE p.type = "FR"
  <2>. DEFINE nx == 128  ny == 1920
  <2>1. localPixel(p, r) = Pixel(pixel2D(nx, ny, r.cathode % 128, mantleY(p, r)), {})
    BY <1>4, SMT DEF localPixel, mantlePixel
  <2>2. partSize(p.type) = nx * ny BY <1>4 DEF partSize
  <2>3. nx \in Nat /\ ny \in Nat OBVIOUS
  <2>. HIDE DEF nx, ny
  <2>. QED BY <2>1, <2>2, <2>3, Zenon DEF InPlane
<1>5. CASE p.type = "HR"
  <2>. DEFINE nx == 112  ny == 112 * 32
  <2>1. InPlane(cuboidPixel(OffsetsHR, RotateHR, p, r), nx, ny) BY Zenon DEF InPlane, cuboidPixel
  <2>2. localPixel(p, r) = cuboidPixel(OffsetsHR, RotateHR, p, r) BY <1>5, SMT DEF localPixel
  <2>3. partSize(p.type) = nx * ny BY <1>5 DEF partSize
  <2>4. nx \in Nat /\ ny \in Nat OBVIOUS
  <2>. HIDE DEF nx, ny
  <2>. QED BY <2>1, <2>2, <2>3, <2>4, Zenon
<1>6. CASE p.type = "SANS"
  <2>. DEFINE nx == 112  ny == 112 * 32
  <2>1. InPlane(cuboidPixel(OffsetsSANS, RotateSANS, p, r), nx, ny) BY Zenon DEF InPlane, cuboidPixel
  <2>2. localPixel(p, r) = cuboidPixel(OffsetsSANS, RotateSANS, p, r) BY <1>6, SMT DEF localPixel
  <2>3. partSize(p.type) = nx * ny BY <1>6 DEF partSize
  <2>4. nx \in Nat /\ ny \in Nat OBVIOUS
  <2>. HIDE DEF nx, ny
  <2>. QED BY <2>1, <2>2, <2>3, <2>4, Zenon
<1>7. CASE p.type = "PA"
  <2>. DEFINE nx == 256  ny == 512
              x == 32 * p.Index + 2 * paCassette(r) + counterOf(r, 16)
              y == 16 * (r.cathode % 32) + wireOf(r, 16)
  <2>1. \/ localPixel(p, r) = Pixel(0, paErrors(p.Index, r))
       \/ localPixel(p, r) = Pixel(pixel2D(nx, ny, x, y), {})
    BY <1>7, SMT DEF localPixel, paPixel
  <2>2. partSize(p.type) = nx * ny BY <1>7 DEF partSize
  <2>3. nx \in Nat /\ ny \in Nat OBVIOUS
  <2>. HIDE DEF nx, ny
  <2>. QED BY <2>1, <2>2, <2>3, Zenon DEF InPlane
<1>8. CASE p.type = "HeimdalMantle"
  <2>. DEFINE nx == 144  ny == 2048
              y == (r.cathode % 64) + 64 * wireOf(r, 32)
  <2>1. localPixel(p, r) = Pixel(pixel2D(nx, ny, heimdalX(p, r), y), {})
    BY <1>8, SMT DEF localPixel, heimdalPixel
  <2>2. partSize(p.type) = nx * ny BY <1>8 DEF partSize
  <2>3. nx \in Nat /\ ny \in Nat OBVIOUS
  <2>. HIDE DEF nx, ny
  <2>. QED BY <2>1, <2>2, <2>3, Zenon DEF InPlane
<1>. QED BY <1>1, <1>2, <1>3, <1>4, <1>5, <1>6, <1>7, <1>8 DEF DreamTypes

\* What the calculation of a module's pixel comes to: none, or one of its part.
LEMMA LocalPixels ==
  ASSUME NEW p, p.type \in DreamTypes, NEW r
  PROVE  localPixel(p, r).pixel \in 0 .. partSize(p.type)
BY Planes, CalculatedPixels, Zenon

\* The calculation of PA, unless it fails, comes to a pixel.
LEMMA PAPixels ==
  ASSUME NEW p, p.type = "PA", p.Index \in Nat, NEW r, r.anode \in Nat, r.cathode \in Nat,
         paErrors(p.Index, r) = {}
  PROVE  localPixel(p, r).pixel # 0
<1>. DEFINE nx == 256  ny == 512
            x == 32 * p.Index + 2 * paCassette(r) + counterOf(r, 16)
            y == 16 * (r.cathode % 32) + wireOf(r, 16)
<1>1. localPixel(p, r) = Pixel(pixel2D(nx, ny, x, y), {})
  BY SMT DEF localPixel, paPixel
<1>2. p.Index <= 7 /\ paCassette(r) < 16
  <2>1. ~(p.Index > 7) BY DEF paErrors
  <2>2. ~(paCassette(r) >= 16) BY <2>1 DEF paErrors
  <2>3. paCassette(r) \in Int BY DEF paCassette
  <2>. QED BY <2>1, <2>2, <2>3
<1>3. paCassette(r) \in Nat
  <2>1. r.anode \div 32 \in Nat /\ r.cathode \div 64 \in Nat OBVIOUS
  <2>. QED BY <2>1 DEF paCassette
<1>4. counterOf(r, 16) \in {0, 1} BY DEF counterOf
<1>5. wireOf(r, 16) \in Nat /\ wireOf(r, 16) < 16 BY DEF wireOf
<1>6. r.cathode % 32 \in Nat /\ r.cathode % 32 < 32 OBVIOUS
<1>7. x \in Nat /\ x < nx BY <1>2, <1>3, <1>4
<1>8. y \in Nat /\ y < ny BY <1>5, <1>6
<1>9. nx \in Nat /\ ny \in Nat OBVIOUS
<1>. HIDE DEF nx, ny, x, y
<1>10. pixel2D(nx, ny, x, y) # 0
  <2>1. x \in 0 .. nx - 1 /\ y \in 0 .. ny - 1 BY <1>7, <1>8, <1>9
  <2>2. nx * y \in Nat BY <1>8, <1>9
  <2>3. pixel2D(nx, ny, x, y) = 1 + x + nx * y BY <2>1 DEF pixel2D
  <2>. QED BY <2>2, <2>3, <1>7
<1>. QED BY <1>1, <1>10 DEF Pixel

\* An event made of a readout has a pixel of its module's part.
LEMMA EventInPart ==
  ASSUME ConfigurationOK, NEW e, MadeOfReadout(e), ~failedOfMagic(e.readout)
  PROVE  e.pixel - getPixelOffset(moduleAt(e.readout).type)
           \in 1 .. partSize(moduleAt(e.readout).type)
<1>. DEFINE r == e.readout
            p == moduleAt(r)
            local == localPixel(p, r)
            offset == getPixelOffset(p.type)
<1>1. p.type \in DreamTypes /\ p.Index \in 0 .. 255
  BY Zenon DEF ConfigurationOK, MadeOfReadout, configured, moduleAt
<1>2. local.pixel \in 0 .. partSize(p.type) BY <1>1, LocalPixels, Zenon
<1>3. PICK a, C : local = Pixel(a, C)
  <2>1. \E nx, ny \in Nat : InPlane(local, nx, ny) BY <1>1, Planes, Zenon
  <2>. QED BY <2>1, Zenon DEF InPlane
<1>4. partSize(p.type) \in Nat /\ offset \in Nat
  <2>1. PICK nx \in Nat, ny \in Nat : partSize(p.type) = nx * ny BY <1>1, Planes, Zenon
  <2>2. nx * ny \in Nat OBVIOUS
  <2>3. offset \in Nat BY <1>1 DEF getPixelOffset, DreamTypes
  <2>. QED BY <2>1, <2>2, <2>3, Zenon
<1>5. /\ e.pixel # 0 /\ e.pixel = dreamPixel(p, r).pixel
      /\ r \in DreamReadouts /\ configured(r)
  BY Zenon DEF MadeOfReadout
<1>6. p.type \in typesOf(configuration.instrument)
  BY <1>5, SMT DEF dreamPixel, Pixel
<1>7. [local EXCEPT !.pixel = @ + offset].pixel = local.pixel + offset
  BY <1>3, SMT DEF Pixel
<1>8. e.pixel = local.pixel + offset /\ (configuration.instrument = "DREAM" => local.pixel # 0)
  <2>1. CASE configuration.instrument = "DREAM" /\ local.pixel = 0
    BY <1>5, <1>6, <2>1, Zenon DEF dreamPixel
  <2>2. CASE ~(configuration.instrument = "DREAM" /\ local.pixel = 0)
    BY <1>5, <1>6, <1>7, <2>2, Zenon DEF dreamPixel
  <2>. QED BY <2>1, <2>2
<1>9. local.pixel # 0
  <2>1. configuration.instrument \in {"DREAM", "MAGIC", "HEIMDAL"}
    BY Zenon DEF ConfigurationOK, DreamInstruments
  <2>2. CASE p.type \in {"FR", "HeimdalMantle"}
    <3>1. offset = 0 BY <2>2, SMT DEF getPixelOffset
    <3>. QED BY <1>2, <1>4, <1>5, <1>8, <3>1
  <2>3. CASE p.type = "PA"
    <3>1. paErrors(p.Index, r) = {} BY <2>3, Zenon DEF failedOfMagic
    <3>2. r.anode \in 0 .. 255 /\ r.cathode \in 0 .. 255 BY <1>5, DreamAssumption
    <3>3. p.Index \in Nat /\ r.anode \in Nat /\ r.cathode \in Nat BY <1>1, <3>2
    <3>. QED BY <2>3, <3>1, <3>3, PAPixels, Zenon
  <2>4. CASE p.type \notin {"FR", "HeimdalMantle", "PA"}
    <3>1. configuration.instrument = "DREAM" BY <1>6, <2>1, <2>4, SMT DEF typesOf
    <3>. QED BY <1>8, <3>1
  <2>. QED BY <2>2, <2>3, <2>4
<1>10. local.pixel \in Nat BY <1>2, <1>4
<1>11. e.pixel - offset = local.pixel BY <1>4, <1>8, <1>10
<1>12. local.pixel \in 1 .. partSize(p.type) BY <1>2, <1>4, <1>9, <1>10
<1>. QED BY <1>11, <1>12, Zenon
-----------------------------------------------------------------------------
\* What the parser drops and what the checks reject is no event; what is timed
\* is one only if it has a pixel.
LEMMA EventsMadeStep ==
  ASSUME ConfigurationOK, EventsMade, [DreamNext]_vars
  PROVE  ConfigurationOK' /\ EventsMade'
<1>1. CASE DreamNext
  <2>1. PICK r \in DreamReadouts : DreamReadout(r) BY <1>1 DEF DreamNext
  <2>2. configuration' = configuration
    BY <2>1, Zenon DEF DreamReadout, Dropped, ProcessReadout
  <2>. DEFINE result == IF configured(r) THEN dreamPixel(moduleAt(r), r) ELSE Pixel(0, {})
  <2>3. \/ events' = events
        \/ /\ validateAll(dreamChecks(r)) /\ result.pixel # 0
           /\ events' = events \cup {[readout |-> r, pixel |-> result.pixel, serializer |-> 0]}
    BY <2>1, Zenon DEF DreamReadout, Dropped, ProcessReadout, Rejected, Timed, NoTof, Calculated
  <2>4. ASSUME validateAll(dreamChecks(r)) PROVE configured(r)
    <3>1. dreamChecks(r)[3].ok BY <2>4 DEF validateAll, dreamChecks
    <3>. QED BY <3>1 DEF dreamChecks, validateConfigMapping, check
  <2>5. EventsMade'
    <3>1. SUFFICES ASSUME NEW e \in events' PROVE MadeOfReadout(e)'
      BY DEF EventsMade
    <3>2. MadeOfReadout(e)' <=> MadeOfReadout(e)
      BY <2>2 DEF MadeOfReadout, configured, moduleAt, dreamPixel
    <3>3. CASE e \in events BY <3>2, <3>3 DEF EventsMade
    <3>4. CASE e \notin events
      <4>1. /\ validateAll(dreamChecks(r)) /\ result.pixel # 0
            /\ e = [readout |-> r, pixel |-> result.pixel, serializer |-> 0]
        BY <2>3, <3>4
      <4>2. configured(r) /\ result = dreamPixel(moduleAt(r), r) BY <2>4, <4>1
      <4>3. e.readout = r /\ e.pixel = result.pixel BY <4>1
      <4>. QED BY <3>2, <4>1, <4>2, <4>3, Zenon DEF MadeOfReadout
    <3>. QED BY <3>3, <3>4
  <2>. QED BY <2>2, <2>5 DEF ConfigurationOK
<1>2. CASE UNCHANGED vars
  BY <1>2 DEF vars, ConfigurationOK, EventsMade, MadeOfReadout, configured, moduleAt, dreamPixel
<1>. QED BY <1>1, <1>2
-----------------------------------------------------------------------------
\* The outcomes a readout that reached the instrument may have.
Verdicts == {"ValidationErrors", "TofErrors", "PixelErrors", "SerializerErrors", "Events"}

\* A step that counts the readout once, and once what became of it.
CountsOne(S) ==
  \/ "ParseErrors" \in S /\ "Readouts" \notin S /\ S \cap Verdicts = {}
  \/ "ParseErrors" \notin S /\ "Readouts" \in S /\ \E v \in Verdicts : S \cap Verdicts = {v}

\* increment() adds one to the counters of the set, and leaves the others alone.
LEMMA Incremented ==
  ASSUME NEW C, CountersOK(C), NEW S
  PROVE  /\ increment(S) \in [C -> Nat]
         /\ \A c \in C :
              increment(S)[c] = counters[c] + (IF c \in S THEN 1 ELSE 0)
BY DEF CountersOK, increment

\* A step that counts one verdict, and makes an event only with "Events", keeps
\* the account.
LEMMA AccountedStep ==
  ASSUME NEW C, BaseCounters \subseteq C, CountersOK(C), Accounted, NEW S, CountsOne(S),
         counters' = increment(S), readouts' = readouts + 1,
         \/ events' = events
         \/ "Events" \in S /\ \E e : events' = events \cup {e}
  PROVE  CountersOK(C)' /\ Accounted'
<1>1. Verdicts \cup {"Readouts", "ParseErrors"} \subseteq C
  BY DEF Verdicts, BaseCounters
<1>2. counters' \in [C -> Nat]
  BY Incremented
<1>3. \A c \in Verdicts \cup {"Readouts", "ParseErrors"} :
        /\ counters'[c] = counters[c] + (IF c \in S THEN 1 ELSE 0)
        /\ counters[c] \in Nat
  BY <1>1, Incremented DEF CountersOK
<1>4. /\ IsFiniteSet(events') /\ Cardinality(events) \in Nat /\ Cardinality(events') \in Nat
      /\ Cardinality(events') <= Cardinality(events) + (IF "Events" \in S THEN 1 ELSE 0)
  <2>1. IsFiniteSet(events) /\ Cardinality(events) \in Nat
    BY FS_CardinalityType DEF CountersOK
  <2>2. CASE events' = events BY <2>1, <2>2
  <2>3. CASE "Events" \in S /\ \E e : events' = events \cup {e}
    <3>1. PICK e : events' = events \cup {e} BY <2>3
    <3>2. /\ IsFiniteSet(events')
          /\ Cardinality(events') = IF e \in events THEN Cardinality(events)
                                     ELSE Cardinality(events) + 1
      BY <2>1, <3>1, FS_AddElement
    <3>. QED BY <2>1, <2>3, <3>2
  <2>. QED BY <2>2, <2>3
<1>5. CountersOK(C)' BY <1>2, <1>4 DEF CountersOK
<1>6. ASSUME "ParseErrors" \in S /\ "Readouts" \notin S /\ S \cap Verdicts = {} PROVE Accounted'
  <2>1. /\ counters'["ParseErrors"] = counters["ParseErrors"] + 1
        /\ counters'["Readouts"] = counters["Readouts"]
        /\ \A c \in Verdicts : counters'[c] = counters[c]
    BY <1>3, <1>6
  <2>2. /\ {counters["ParseErrors"], counters["Readouts"], readouts} \subseteq Nat
        /\ Cardinality(events') <= Cardinality(events)
    BY <1>3, <1>4, <1>6 DEF Verdicts, CountersOK
  <2>3. /\ counters'["ValidationErrors"] = counters["ValidationErrors"]
        /\ counters'["TofErrors"] = counters["TofErrors"]
        /\ counters'["PixelErrors"] = counters["PixelErrors"]
        /\ counters'["SerializerErrors"] = counters["SerializerErrors"]
        /\ counters'["Events"] = counters["Events"]
    BY <2>1 DEF Verdicts
  <2>4. Cardinality(events') <= counters'["Events"]
    <3>1. Cardinality(events) <= counters["Events"] BY DEF Accounted
    <3>2. counters["Events"] \in Nat BY <1>3 DEF Verdicts
    <3>. QED BY <1>4, <2>2, <2>3, <3>1, <3>2
  <2>5. counters'["Readouts"] + counters'["ParseErrors"] = readouts'
    BY <2>1, <2>2 DEF Accounted
  <2>6. counters'["Readouts"] = counters'["ValidationErrors"] + counters'["TofErrors"]
                                + counters'["PixelErrors"] + counters'["SerializerErrors"]
                                + counters'["Events"]
    BY <2>1, <2>3 DEF Accounted
  <2>. QED BY <2>4, <2>5, <2>6 DEF Accounted
<1>7. ASSUME "ParseErrors" \notin S /\ "Readouts" \in S,
             \E v \in Verdicts : S \cap Verdicts = {v}
      PROVE  Accounted'
  <2>1. PICK v \in Verdicts : S \cap Verdicts = {v} BY <1>7
  <2>2. /\ counters'["ParseErrors"] = counters["ParseErrors"]
        /\ counters'["Readouts"] = counters["Readouts"] + 1
    BY <1>3, <1>7, <2>1
  <2>. DEFINE more(w) == IF w = v THEN 1 ELSE 0
  <2>3. \A w \in Verdicts :
          counters'[w] = counters[w] + more(w) /\ counters[w] \in Nat /\ more(w) \in Nat
    BY <1>3, <1>7, <2>1
  <2>4. more("ValidationErrors") + more("TofErrors") + more("PixelErrors")
          + more("SerializerErrors") + more("Events") = 1
    BY <2>1 DEF Verdicts
  <2>5. Cardinality(events') <= Cardinality(events) + more("Events")
    BY <1>4, <2>1 DEF Verdicts
  <2>. HIDE DEF more
  <2>6. Verdicts = {"ValidationErrors", "TofErrors", "PixelErrors", "SerializerErrors", "Events"}
    BY DEF Verdicts
  <2>7. readouts \in Nat /\ counters["ParseErrors"] \in Nat /\ counters["Readouts"] \in Nat
    BY <1>3 DEF CountersOK
  <2>8. Cardinality(events') <= counters'["Events"]
    BY <1>4, <2>3, <2>5, <2>6 DEF Accounted
  <2>9. counters'["Readouts"] + counters'["ParseErrors"] = readouts'
    BY <2>2, <2>7 DEF Accounted
  <2>10. counters'["Readouts"] = counters'["ValidationErrors"] + counters'["TofErrors"]
                                 + counters'["PixelErrors"] + counters'["SerializerErrors"]
                                 + counters'["Events"]
    BY <2>2, <2>3, <2>4, <2>6, <2>7 DEF Accounted
  <2>. QED BY <2>8, <2>9, <2>10 DEF Accounted
<1>. QED BY <1>5, <1>6, <1>7 DEF CountsOne
-----------------------------------------------------------------------------
\* Of checks that do not all pass, the first that fails is one.
LEMMA FirstFailure ==
  ASSUME NEW n \in Nat, NEW checks, DOMAIN checks = 1 .. n, ~validateAll(checks)
  PROVE  \E i \in 1 .. n : failure(checks) = checks[i].counter
<1>. DEFINE failed == {i \in DOMAIN checks : ~checks[i].ok}
            first == CHOOSE i \in failed : \A j \in failed : i <= j
<1>1. failed \in SUBSET Nat /\ failed # {} BY DEF validateAll
<1>2. \E i \in failed : \A j \in failed : i <= j
  <2>. HIDE DEF failed
  <2>. QED BY <1>1, Smallest
<1>3. first \in failed
  <2>. HIDE DEF failed
  <2>. QED BY <1>2
<1>4. failure(checks) = checks[first].counter BY DEF failure
<1>5. first \in 1 .. n
  <2>. HIDE DEF first
  <2>. QED BY <1>3
<1>. HIDE DEF first
<1>. QED BY <1>4, <1>5

\* The counters that say what became of a readout; no check and no calculation
\* of a pixel has one of them.
Reserved == Verdicts \cup {"Readouts", "ParseErrors"}

ChecksOwn(checks) ==
  \E n \in Nat : DOMAIN checks = 1 .. n /\ \A i \in 1 .. n : checks[i].counter \notin Reserved

LEMMA OwnFailure ==
  ASSUME NEW checks, ChecksOwn(checks), ~validateAll(checks)
  PROVE  failure(checks) \notin Reserved
BY FirstFailure, Zenon DEF ChecksOwn

\* The parser that drops a readout counts it once.
LEMMA DroppedCounted ==
  ASSUME NEW C, BaseCounters \subseteq C, CountersOK(C), Accounted,
         NEW checks, ChecksOwn(checks), Dropped(checks)
  PROVE  CountersOK(C)' /\ Accounted'
<1>. DEFINE f == failure(checks)
<1>1. f \notin Reserved BY OwnFailure DEF Dropped
<1>2. CountsOne({"ParseErrors", f}) BY <1>1 DEF CountsOne, Verdicts, Reserved
<1>3. counters' = increment({"ParseErrors", f}) /\ readouts' = readouts + 1 /\ events' = events
  BY Zenon DEF Dropped
<1>. HIDE DEF f
<1>. QED BY <1>2, <1>3, AccountedStep

\* A round of processReadouts() counts a readout once, on every way out, if no
\* check and no calculation has a counter of another's, and the serializer of a
\* readout that passes the checks is a number.
LEMMA ProcessedCounted ==
  ASSUME NEW C, BaseCounters \subseteq C, CountersOK(C), Accounted,
         NEW r, NEW checks, NEW result, NEW serializer, NEW numOf,
         ChecksOwn(checks), result.counters \cap Reserved = {},
         validateAll(checks) => serializer \in Int /\ numOf \in Int,
         ProcessReadout(r, checks, result, serializer, numOf)
  PROVE  CountersOK(C)' /\ Accounted'
<1>1. readouts' = readouts + 1 BY DEF ProcessReadout
<1>2. CASE Rejected(checks)
  <2>. DEFINE f == failure(checks)
  <2>1. f \notin Reserved BY <1>2, OwnFailure DEF Rejected
  <2>2. CountsOne({"Readouts", "ValidationErrors", f})
    BY <2>1 DEF CountsOne, Verdicts, Reserved
  <2>3. counters' = increment({"Readouts", "ValidationErrors", f}) /\ events' = events
    BY <1>2, Zenon DEF Rejected
  <2>. HIDE DEF f
  <2>. QED BY <1>1, <2>2, <2>3, AccountedStep
<1>3. CASE NoTof
  <2>1. CountsOne({"Readouts", "TofErrors"}) BY DEF CountsOne, Verdicts
  <2>2. counters' = increment({"Readouts", "TofErrors"}) /\ events' = events BY <1>3 DEF NoTof
  <2>. QED BY <1>1, <2>1, <2>2, AccountedStep
<1>4. CASE validateAll(checks) /\ Calculated(r, result, serializer, numOf)
  <2>. DEFINE v == CASE result.pixel = 0 -> "PixelErrors"
                     [] result.pixel # 0 /\ serializer >= numOf -> "SerializerErrors"
                     [] result.pixel # 0 /\ serializer < numOf -> "Events"
              S == {"Readouts", v} \cup result.counters
              e == [readout |-> r, pixel |-> result.pixel, serializer |-> serializer]
  <2>1. v \in {"PixelErrors", "SerializerErrors", "Events"}
    <3>1. serializer >= numOf \/ serializer < numOf BY <1>4
    <3>. QED BY <3>1
  <2>2. /\ counters' = increment(S)
        /\ events' = IF v = "Events" THEN events \cup {e} ELSE events
    BY <1>4 DEF Calculated
  <2>. HIDE DEF v, e
  <2>3. CountsOne(S) BY <2>1 DEF CountsOne, Verdicts, Reserved
  <2>4. v = "Events" => "Events" \in S OBVIOUS
  <2>. HIDE DEF S
  <2>5. events' = events \/ ("Events" \in S /\ \E a : events' = events \cup {a})
    <3>1. CASE v = "Events"
      <4>1. events' = events \cup {e} BY <2>2, <3>1
      <4>. QED BY <2>4, <3>1, <4>1, Zenon
    <3>2. CASE v # "Events"
      <4>1. events' = events BY <2>2, <3>2
      <4>. QED BY <4>1, Zenon
    <3>. QED BY <3>1, <3>2
  <2>. QED BY <1>1, <2>2, <2>3, <2>5, AccountedStep
<1>. QED BY <1>2, <1>3, <1>4, Zenon DEF ProcessReadout, Timed
-----------------------------------------------------------------------------
\* What a calculation that fails counts besides is not one of the verdicts.
LEMMA PixelCounted ==
  ASSUME NEW p, p.type \in DreamTypes, NEW r
  PROVE  dreamPixel(p, r).counters \subseteq PixelCounters
<1>1. \A a, C : Pixel(a, C).counters = C BY DEF Pixel
<1>2. /\ endCapPixel(280, p.Index, r).counters \subseteq PixelCounters
      /\ endCapPixel(616, p.Index, r).counters \subseteq PixelCounters
  BY SMT DEF endCapPixel, sumoErrors, Pixel, PixelCounters
<1>3. /\ mantlePixel(256, p, r).counters \subseteq PixelCounters
      /\ mantlePixel(128, p, r).counters \subseteq PixelCounters
  BY SMT DEF mantlePixel, Pixel
<1>4. /\ cuboidPixel(OffsetsHR, RotateHR, p, r).counters \subseteq PixelCounters
      /\ cuboidPixel(OffsetsSANS, RotateSANS, p, r).counters \subseteq PixelCounters
  <2>1. {"IndexErrors"} \subseteq PixelCounters /\ {} \subseteq PixelCounters BY DEF PixelCounters
  <2>2. ASSUME NEW table, NEW rotations
        PROVE  cuboidPixel(table, rotations, p, r).counters \subseteq PixelCounters
    <3>1. \/ cuboidPixel(table, rotations, p, r) = Pixel(0, {"IndexErrors"})
          \/ \E a : cuboidPixel(table, rotations, p, r) = Pixel(a, {})
      BY Zenon DEF cuboidPixel
    <3>. QED BY <1>1, <2>1, <3>1
  <2>. QED BY <2>2, Zenon
<1>5. paPixel(p.Index, r).counters \subseteq PixelCounters
  BY SMT DEF paPixel, paErrors, Pixel, PixelCounters
<1>6. heimdalPixel(p, r).counters \subseteq PixelCounters BY SMT DEF heimdalPixel, Pixel
<1>7. localPixel(p, r).counters \subseteq PixelCounters
  BY <1>2, <1>3, <1>4, <1>5, <1>6, SMT DEF localPixel, DreamTypes
<1>8. \A offset : [localPixel(p, r) EXCEPT !.pixel = @ + offset].counters = localPixel(p, r).counters
  <2>1. PICK a, C : localPixel(p, r) = Pixel(a, C) BY Planes, Zenon DEF InPlane
  <2>. QED BY <2>1, SMT DEF Pixel
<1>9. Pixel(0, {}).counters \subseteq PixelCounters BY <1>1
<1>. QED BY <1>7, <1>8, <1>9, Zenon DEF dreamPixel

\* CDT readouts: what the parser drops, and what processReadouts() makes of the others.
LEMMA DreamReadoutCounted ==
  ASSUME ConfigurationOK, CountersOK(DreamCounters), Accounted,
         NEW r \in DreamReadouts, DreamReadout(r)
  PROVE  CountersOK(DreamCounters)' /\ Accounted'
<1>1. BaseCounters \subseteq DreamCounters BY DEF DreamCounters
<1>2. ChecksOwn(parserChecks(r))
  <2>1. 4 \in Nat /\ DOMAIN parserChecks(r) = 1 .. 4 BY DEF parserChecks
  <2>2. \A i \in 1 .. 4 : parserChecks(r)[i].counter \notin Reserved
    BY DEF parserChecks, check, Reserved, Verdicts
  <2>. QED BY <2>1, <2>2, Zenon DEF ChecksOwn
<1>3. ChecksOwn(dreamChecks(r))
  <2>1. 3 \in Nat /\ DOMAIN dreamChecks(r) = 1 .. 3 BY DEF dreamChecks
  <2>2. \A i \in 1 .. 3 : dreamChecks(r)[i].counter \notin Reserved
    BY DEF dreamChecks, validateRing, validateFEN, validateConfigMapping, check, Reserved,
           Verdicts
  <2>. QED BY <2>1, <2>2, Zenon DEF ChecksOwn
<1>. DEFINE checks == dreamChecks(r)
            result == IF configured(r) THEN dreamPixel(moduleAt(r), r) ELSE Pixel(0, {})
<1>4. result.counters \cap Reserved = {}
  <2>1. result.counters \subseteq PixelCounters
    <3>1. CASE configured(r)
      <4>1. moduleAt(r).type \in DreamTypes
        BY <3>1, Zenon DEF ConfigurationOK, configured, moduleAt
      <4>. QED BY <3>1, <4>1, PixelCounted, Zenon
    <3>2. CASE ~configured(r) BY <3>2 DEF Pixel
    <3>. QED BY <3>1, <3>2
  <2>2. PixelCounters \cap Reserved = {} BY DEF PixelCounters, Reserved, Verdicts
  <2>. QED BY <2>1, <2>2
<1>5. Dropped(parserChecks(r)) \/ ProcessReadout(r, checks, result, 0, 1)
  BY Zenon DEF DreamReadout
<1>6. 0 \in Int /\ 1 \in Int OBVIOUS
<1>7. CASE Dropped(parserChecks(r)) BY <1>1, <1>2, <1>7, DroppedCounted
<1>8. CASE ProcessReadout(r, checks, result, 0, 1)
  <2>1. ChecksOwn(checks) BY <1>3
  <2>. HIDE DEF checks, result
  <2>. QED BY <1>1, <1>4, <1>6, <1>8, <2>1, ProcessedCounted
<1>. QED BY <1>5, <1>7, <1>8
-----------------------------------------------------------------------------
CaenConfigurationOK ==
  configuration \in CaenConfigurations /\ configuration.instrument \in CaenInstruments

CheckCounters == {"RingErrors", "FENErrors", "RingMappingErrors", "TopologyError", "GroupErrors",
                  "AmplitudeZero", "AmplitudeHigh", "AmplitudeLow"}

CalculationCounters == {"AmplitudeZero", "GlobalPosInvalid", "UnitIdInvalid",
                        "CalibrationGroupErrors", "OutsideInterval", "ClampLow", "ClampHigh"}

\* Each instrument has checks, and counters of its own for them.
LEMMA CaenChecksOwn ==
  ASSUME CaenConfigurationOK, NEW r
  PROVE  ChecksOwn(caenChecks(r))
<1>1. \A c \in CheckCounters : c \notin Reserved BY DEF CheckCounters, Reserved, Verdicts
<1>2. CASE configuration.instrument = "loki"
  <2>. DEFINE checks == lokiChecks(r)
  <2>1. 3 \in Nat /\ DOMAIN checks = 1 .. 3 BY DEF lokiChecks
  <2>2. \A i \in 1 .. 3 : checks[i].counter \in CheckCounters
    BY DEF lokiChecks, check, CheckCounters
  <2>3. caenChecks(r) = checks BY <1>2 DEF caenChecks
  <2>. HIDE DEF checks
  <2>. QED BY <1>1, <2>1, <2>2, <2>3, Zenon DEF ChecksOwn
<1>3. CASE configuration.instrument = "bifrost"
  <2>. DEFINE checks == bifrostChecks(r)
  <2>1. 5 \in Nat /\ DOMAIN checks = 1 .. 5 BY DEF bifrostChecks
  <2>2. \A i \in 1 .. 5 : checks[i].counter \in CheckCounters
    BY DEF bifrostChecks, validateRing, validateFEN, validateGroup, validateAmplitudeZero,
           validateAmplitudeHigh, check, CheckCounters
  <2>3. caenChecks(r) = checks BY <1>3 DEF caenChecks
  <2>. HIDE DEF checks
  <2>. QED BY <1>1, <2>1, <2>2, <2>3, Zenon DEF ChecksOwn
<1>4. CASE configuration.instrument = "miracles"
  <2>. DEFINE checks == miraclesChecks(r)
  <2>1. 3 \in Nat /\ DOMAIN checks = 1 .. 3 BY DEF miraclesChecks
  <2>2. \A i \in 1 .. 3 : checks[i].counter \in CheckCounters
    BY DEF miraclesChecks, validateRing, validateAmplitudeZero, validateAmplitudeHigh, check,
           CheckCounters
  <2>3. caenChecks(r) = checks BY <1>4 DEF caenChecks
  <2>. HIDE DEF checks
  <2>. QED BY <1>1, <2>1, <2>2, <2>3, Zenon DEF ChecksOwn
<1>5. CASE configuration.instrument = "cspec"
  <2>. DEFINE checks == cspecChecks(r)
  <2>1. 3 \in Nat /\ DOMAIN checks = 1 .. 3 BY DEF cspecChecks
  <2>2. \A i \in 1 .. 3 : checks[i].counter \in CheckCounters
    BY DEF cspecChecks, validateRing, validateFEN, validateGroup, check, CheckCounters
  <2>3. caenChecks(r) = checks BY <1>5 DEF caenChecks
  <2>. HIDE DEF checks
  <2>. QED BY <1>1, <2>1, <2>2, <2>3, Zenon DEF ChecksOwn
<1>6. CASE configuration.instrument = "tbl3he"
  <2>. DEFINE checks == tbl3heChecks(r)
  <2>1. 5 \in Nat /\ DOMAIN checks = 1 .. 5 BY DEF tbl3heChecks
  <2>2. \A i \in 1 .. 5 : checks[i].counter \in CheckCounters
    BY DEF tbl3heChecks, validateRing, validateGroup, validateAmplitudeZero,
           validateAmplitudeLow, check, CheckCounters
  <2>3. caenChecks(r) = checks BY <1>6 DEF caenChecks
  <2>. HIDE DEF checks
  <2>. QED BY <1>1, <2>1, <2>2, <2>3, Zenon DEF ChecksOwn
<1>. QED BY <1>2, <1>3, <1>4, <1>5, <1>6 DEF CaenConfigurationOK, CaenInstruments

\* What a calculation that fails counts is not one of the verdicts: of the unit a
\* share is of, of the position along it, and of its correction.
LEMMA UnitsCounted ==
  ASSUME NEW g, NEW p
  PROVE  getUnitId(g, p).counters \subseteq CalculationCounters
BY SMT DEF getUnitId, CalculationCounters

LEMMA PositionsCounted ==
  ASSUME NEW g, NEW r
  PROVE  calcUnitAndPos(g, r).counters \subseteq CalculationCounters
<1>. DEFINE found == getUnitId(g, share(r.A, r.A + r.B))
<1>1. found.counters \subseteq CalculationCounters BY UnitsCounted, Zenon
<1>2. \E u, C : found = [unit |-> u, counters |-> C] BY Zenon DEF getUnitId
<1>3. [found EXCEPT !.counters = @ \cup {"UnitIdInvalid"}].counters
        = found.counters \cup {"UnitIdInvalid"}
  <2>. HIDE DEF found
  <2>. QED BY <1>2
<1>4. {"UnitIdInvalid"} \subseteq CalculationCounters BY DEF CalculationCounters
<1>5. [found EXCEPT !.counters = @ \cup {"UnitIdInvalid"}].counters \subseteq CalculationCounters
  <2>. HIDE DEF found
  <2>. QED BY <1>1, <1>3, <1>4
<1>6. [unit |-> -1, counters |-> {"GlobalPosInvalid"}].counters \subseteq CalculationCounters
  BY DEF CalculationCounters
<1>7. \A u, pos : [unit |-> u, pos |-> pos, counters |-> {}].counters \subseteq CalculationCounters
  OBVIOUS
<1>. QED BY <1>5, <1>6, <1>7, Zenon DEF calcUnitAndPos

LEMMA CorrectionsCounted ==
  ASSUME NEW g, NEW unit, NEW p
  PROVE  posCorrection(g, unit, p).counters \subseteq CalculationCounters
BY SMT DEF posCorrection, CalculationCounters

LEMMA CaenPixelCounted ==
  ASSUME CaenConfigurationOK, NEW r
  PROVE  caenPixel(r).counters \subseteq CalculationCounters
<1>1. \A a, C : Pixel(a, C).counters = C BY DEF Pixel
<1>2. {} \subseteq CalculationCounters /\ {"AmplitudeZero"} \subseteq CalculationCounters
  BY DEF CalculationCounters
<1>3. CASE configuration.instrument = "loki"
  <2>1. \A g, u, p : /\ getUnitId(g, p).counters \subseteq CalculationCounters
                     /\ posCorrection(g, u, p).counters \subseteq CalculationCounters
    BY UnitsCounted, CorrectionsCounted, Zenon
  <2>2. lokiPixel(r).counters \subseteq CalculationCounters
    <3>. DEFINE all == r.A + r.B + r.C + r.D
                p == share(r.A + r.B, all)
                straw == getUnitId(getGlobalGroup(r), share(r.B + r.D, all))
                pos == posCorrection(getGlobalGroup(r), straw.unit, p)
                x == nearest(pos.n * (configuration.Resolution - 1), pos.d)
                found == pixel2D(configuration.Resolution, TotalGroups(configuration) * 7,
                                 x, getY(r, straw.unit))
    <3>1. lokiPixel(r) = IF all = 0 THEN Pixel(0, {"AmplitudeZero"})
                         ELSE IF ~isShare(p) THEN Pixel(0, {})
                         ELSE IF straw.unit = -1 THEN Pixel(0, straw.counters)
                         ELSE Pixel(found, pos.counters)
      BY Zenon DEF lokiPixel
    <3>2. straw.counters \subseteq CalculationCounters /\ pos.counters \subseteq CalculationCounters
      BY <2>1, Zenon
    <3>. HIDE DEF all, p, straw, pos, found
    <3>. QED BY <1>1, <1>2, <3>1, <3>2
  <2>. QED BY <1>3, <2>2 DEF caenPixel
<1>4. CASE configuration.instrument = "bifrost"
  <2>1. bifrostPixel(r).counters \subseteq CalculationCounters
    <3>. DEFINE at == calcUnitAndPos(bifrostGroup(r), r)
                found == pixel2D(900, 15, bifrostX(r, at.pos), bifrostY(r, at.unit))
    <3>1. bifrostPixel(r) = IF at.unit = -1 THEN Pixel(0, at.counters) ELSE Pixel(found, {})
      BY Zenon DEF bifrostPixel
    <3>2. at.counters \subseteq CalculationCounters BY PositionsCounted, Zenon
    <3>. HIDE DEF at, found
    <3>. QED BY <1>1, <1>2, <3>1, <3>2
  <2>. QED BY <1>4, <2>1 DEF caenPixel
<1>5. CASE configuration.instrument = "miracles"
  <2>1. miraclesPixel(r).counters \subseteq CalculationCounters
    BY <1>2, SMT DEF miraclesPixel, Pixel
  <2>. QED BY <1>5, <2>1 DEF caenPixel
<1>6. CASE configuration.instrument = "cspec"
  <2>1. cspecPixel(r).counters \subseteq CalculationCounters
    BY <1>2, SMT DEF cspecPixel, Pixel
  <2>. QED BY <1>6, <2>1 DEF caenPixel
<1>7. CASE configuration.instrument = "tbl3he"
  <2>1. tbl3hePixel(r).counters \subseteq CalculationCounters
    <3>1. \E a, C : tbl3hePixel(r) = Pixel(a, C) /\ C \subseteq CalculationCounters
      BY <1>2, PositionsCounted, CorrectionsCounted, Zenon DEF tbl3hePixel
    <3>. QED BY <1>1, <3>1, Zenon
  <2>. QED BY <1>7, <2>1 DEF caenPixel
<1>. QED BY <1>3, <1>4, <1>5, <1>6, <1>7 DEF CaenConfigurationOK, CaenInstruments

\* Of a readout that has passed the checks, the serializer is a number: of a
\* tbl3he readout because the topology has its ring and FEN.
LEMMA CaenSerializers ==
  ASSUME CaenConfigurationOK, NEW r \in CaenReadouts, validateAll(caenChecks(r))
  PROVE  calcSerializer(r) \in Int /\ numSerializers \in Int
<1>1. numSerializers \in Int BY DEF numSerializers, CaenMaxRing
<1>2. CASE configuration.instrument = "bifrost"
  <2>1. r.fiber \in 0 .. 255 /\ r.group \in 0 .. 255
    <3>1. r \in [fiber : 0 .. 255, fen : 0 .. 255, group : 0 .. 255,
                 A : Int, B : Int, C : Int, D : Int]
      BY Zenon, CaenAssumption
    <3>. QED BY <3>1
  <2>2. bifrostGroup(r) \in Int
    <3>1. calcRing(r) \in Int BY <2>1 DEF calcRing
    <3>. QED BY <2>1, <3>1 DEF bifrostGroup
  <2>. QED BY <1>1, <1>2, <2>2 DEF calcSerializer
<1>3. CASE configuration.instrument = "tbl3he"
  <2>1. topologyEntries(r) # {}
    <3>1. caenChecks(r) = tbl3heChecks(r) BY <1>3 DEF caenChecks
    <3>2. tbl3heChecks(r)[3].ok
      <4>1. 3 \in DOMAIN tbl3heChecks(r) BY DEF tbl3heChecks
      <4>. QED BY <3>1, <4>1, Zenon DEF validateAll
    <3>. QED BY <3>2 DEF tbl3heChecks, check
  <2>. DEFINE e == CHOOSE x \in topologyEntries(r) : TRUE
              t == configuration.topology
              Entries == [Ring : Int, FEN : Int, Bank : Nat]
  <2>2. e \in ToSet(t)
    <3>1. topologyEntries(r) \subseteq ToSet(t) BY DEF topologyEntries
    <3>. HIDE DEF t
    <3>. QED BY <2>1, <3>1, Zenon
  <2>3. t \in Seq(Entries)
    BY <1>3, CaenAssumption DEF CaenConfigurationOK
  <2>4. e.Bank \in Nat
    <3>. HIDE DEF e, t
    <3>1. PICK i \in DOMAIN t : e = t[i] BY <2>2 DEF ToSet
    <3>2. t[i] \in Entries
      <4>. HIDE DEF Entries
      <4>. QED BY <2>3, <3>1
    <3>. QED BY <3>1, <3>2
  <2>5. calcSerializer(r) = e.Bank BY <1>3 DEF calcSerializer, tbl3heBank
  <2>. HIDE DEF e
  <2>. QED BY <1>1, <2>4, <2>5
<1>4. CASE configuration.instrument \notin {"bifrost", "tbl3he"}
  BY <1>1, <1>4 DEF calcSerializer
<1>. QED BY <1>2, <1>3, <1>4

LEMMA CaenReadoutCounted ==
  ASSUME CaenConfigurationOK, CountersOK(CaenCounters), Accounted,
         NEW r \in CaenReadouts, CaenReadout(r)
  PROVE  CountersOK(CaenCounters)' /\ Accounted'
<1>. DEFINE checks == caenChecks(r)  result == caenPixel(r)
            serializer == calcSerializer(r)  numOf == numSerializers
<1>1. BaseCounters \subseteq CaenCounters BY DEF CaenCounters
<1>2. ChecksOwn(checks) BY CaenChecksOwn
<1>3. result.counters \cap Reserved = {}
  <2>1. CalculationCounters \cap Reserved = {} BY DEF CalculationCounters, Reserved, Verdicts
  <2>. QED BY <2>1, CaenPixelCounted
<1>4. validateAll(checks) => serializer \in Int /\ numOf \in Int BY CaenSerializers
<1>5. ProcessReadout(r, checks, result, serializer, numOf) BY DEF CaenReadout
<1>. HIDE DEF checks, result, serializer, numOf
<1>. QED BY <1>1, <1>2, <1>3, <1>4, <1>5, ProcessedCounted
-----------------------------------------------------------------------------
VmmConfigurationOK ==
  configuration \in VmmConfigurations /\ configuration.instrument \in VmmInstruments

\* What counts a readout that was checked and is not one with a channel: TREX and
\* LET have no counter for all checks together.
RejectedAs == IF instrument \in Multigrids THEN "HybridMappingErrors" ELSE "ValidationErrors"

Losses == {"ADCBelowThreshold", "CoordOverflow", "MinADC", "MappingErrors", RejectedAs}

\* A readout comes to one hit, or is counted as lost for one reason.
OneOutcome(o) ==
  /\ "Readouts" \in o.counters
  /\ \/ o.counters \cap Losses = {} /\ \E h : o.hits = <<h>>
     \/ o.hits = <<>> /\ \E c \in Losses : o.counters \cap Losses = {c}

\* The two ways a readout can come out, by what they count besides.
LEMMA LostOutcome ==
  ASSUME NEW c \in Losses, NEW C, C \cap Losses = {c}
  PROVE  OneOutcome(NoHit(C))
<1>1. "Readouts" \notin Losses BY DEF Losses, RejectedAs
<1>2. NoHit(C).counters = {"Readouts"} \cup C /\ NoHit(C).hits = <<>> BY DEF NoHit
<1>3. ({"Readouts"} \cup C) \cap Losses = {c} BY <1>1
<1>. QED BY <1>2, <1>3 DEF OneOutcome

LEMMA HitOutcome ==
  ASSUME NEW r, NEW plane, NEW coord, NEW adc, NEW builder, NEW C, C \cap Losses = {}
  PROVE  OneOutcome(Hit(r, plane, coord, adc, builder, C))
<1>. DEFINE h == [readout |-> r, plane |-> plane, coord |-> coord, adc |-> adc,
                  builder |-> builder]
            o == Hit(r, plane, coord, adc, builder, C)
<1>1. "Readouts" \notin Losses BY DEF Losses, RejectedAs
<1>2. o.counters = {"Readouts"} \cup C /\ o.hits = <<h>> BY DEF Hit
<1>3. ({"Readouts"} \cup C) \cap Losses = {} BY <1>1
<1>. HIDE DEF o, h
<1>4. OneOutcome(o) BY <1>2, <1>3 DEF OneOutcome
<1>. QED BY <1>4 DEF o

LEMMA MultibladeOutcomes ==
  ASSUME instrument \in Multiblades, NEW r
  PROVE  OneOutcome(multiblade(r))
<1>. DEFINE checks == multibladeChecks(r)
            f == failure(checks)
            coord == calculateCoordinate(r)
            limit == IF ADCCorr(r) >= MaxADC THEN {"MaxADC"} ELSE {}
            also == IF f = validateChannel(r).counter THEN {coordCounter(r)} ELSE {}
<1>1. Losses = {"ADCBelowThreshold", "CoordOverflow", "MinADC", "MappingErrors",
                "ValidationErrors"}
  BY DEF Losses, RejectedAs, Multiblades, Multigrids
<1>2. coordCounter(r) \in {"InvalidXCoord", "InvalidYCoord"} BY DEF coordCounter
<1>3. ~validateAll(checks) => f \notin Losses
  <2>1. 4 \in Nat /\ DOMAIN checks = 1 .. 4 BY DEF multibladeChecks
  <2>2. \A i \in 1 .. 4 : checks[i].counter \notin Losses
    BY <1>1 DEF multibladeChecks, validateRing, validateFEN, validateHybrid, validateChannel, check
  <2>. HIDE DEF checks
  <2>. QED BY <2>1, <2>2, FirstFailure
<1>4. limit \subseteq {"MaxADC"} /\ also \subseteq {"InvalidXCoord", "InvalidYCoord"} BY <1>2
<1>5. multiblade(r) =
        IF ~validateAll(checks) THEN NoHit({"ValidationErrors", f} \cup also)
        ELSE IF belowThreshold(r) THEN NoHit({"ADCBelowThreshold"})
        ELSE IF coord >= InvalidCoord THEN NoHit(limit \cup {"CoordOverflow", coordCounter(r)})
        ELSE Hit(r, IF isXCoord(r) THEN 0 ELSE 1, coord, ADCCorr(r), HybridNumber(r), limit)
  BY Zenon DEF multiblade
<1>. HIDE DEF checks, f, coord, limit, also
<1>6. CASE ~validateAll(checks)
  <2>. DEFINE C == {"ValidationErrors", f} \cup also
  <2>1. "ValidationErrors" \in Losses /\ C \cap Losses = {"ValidationErrors"}
    BY <1>1, <1>3, <1>4, <1>6
  <2>2. multiblade(r) = NoHit(C) BY <1>5, <1>6
  <2>. HIDE DEF C
  <2>. QED BY <2>1, <2>2, LostOutcome, Zenon
<1>7. CASE validateAll(checks) /\ belowThreshold(r)
  <2>. DEFINE C == {"ADCBelowThreshold"}
  <2>1. "ADCBelowThreshold" \in Losses /\ C \cap Losses = {"ADCBelowThreshold"} BY <1>1
  <2>2. multiblade(r) = NoHit(C) BY <1>5, <1>7
  <2>. HIDE DEF C
  <2>. QED BY <2>1, <2>2, LostOutcome, Zenon
<1>8. CASE validateAll(checks) /\ ~belowThreshold(r) /\ coord >= InvalidCoord
  <2>. DEFINE C == limit \cup {"CoordOverflow", coordCounter(r)}
  <2>1. "CoordOverflow" \in Losses /\ C \cap Losses = {"CoordOverflow"} BY <1>1, <1>2, <1>4
  <2>2. multiblade(r) = NoHit(C) BY <1>5, <1>8
  <2>. HIDE DEF C
  <2>. QED BY <2>1, <2>2, LostOutcome, Zenon
<1>9. CASE validateAll(checks) /\ ~belowThreshold(r) /\ ~(coord >= InvalidCoord)
  <2>1. limit \cap Losses = {} BY <1>1, <1>4
  <2>. DEFINE plane == IF isXCoord(r) THEN 0 ELSE 1
  <2>2. multiblade(r) = Hit(r, plane, coord, ADCCorr(r), HybridNumber(r), limit)
    BY <1>5, <1>9
  <2>. HIDE DEF plane
  <2>. QED BY <2>1, <2>2, HitOutcome, Zenon
<1>. QED BY <1>6, <1>7, <1>8, <1>9

LEMMA MultigridOutcomes ==
  ASSUME instrument \in Multigrids, NEW r
  PROVE  OneOutcome(multigrid(r))
<1>1. Losses = {"ADCBelowThreshold", "CoordOverflow", "MinADC", "MappingErrors",
                "HybridMappingErrors"}
  BY DEF Losses, RejectedAs
<1>2. \A c \in Losses : {c} \cap Losses = {c} OBVIOUS
<1>3. \A c \in Losses : OneOutcome(NoHit({c})) BY <1>2, LostOutcome, Zenon
<1>4. {} \cap Losses = {} OBVIOUS
<1>. DEFINE plane == IF isWire(r) THEN 0 ELSE 1
            builder == calcRing(r) * VmmMaxFEN + r.fen
            hit == Hit(r, plane, multigridCoord(r), r.adc, builder, {})
<1>5. OneOutcome(hit)
  <2>. HIDE DEF plane, builder
  <2>. QED BY <1>4, HitOutcome, Zenon
<1>6. multigrid(r) \in {NoHit({"HybridMappingErrors"}), NoHit({"MinADC"}),
                        NoHit({"MappingErrors"}), hit}
  BY Zenon DEF multigrid
<1>. HIDE DEF hit
<1>7. {"HybridMappingErrors", "MinADC", "MappingErrors"} \subseteq Losses BY <1>1
<1>. QED BY <1>3, <1>5, <1>6, <1>7

LEMMA NmxOutcomes ==
  ASSUME instrument = "NMX", NEW r
  PROVE  OneOutcome(nmx(r))
<1>. DEFINE checks == nmxChecks(r)
            f == failure(checks)
            plane == Hybrid(r).Plane
            panel == Hybrid(r).Panel
            hit == Hit(r, plane, nmxCoord(r), r.adc, panel, {})
<1>1. Losses = {"ADCBelowThreshold", "CoordOverflow", "MinADC", "MappingErrors",
                "ValidationErrors"}
  BY DEF Losses, RejectedAs, Multigrids
<1>2. ~validateAll(checks) => f \notin Losses
  <2>1. 5 \in Nat /\ DOMAIN checks = 1 .. 5 BY DEF nmxChecks
  <2>2. \A i \in 1 .. 5 : checks[i].counter \notin Losses
    BY <1>1 DEF nmxChecks, validateRing, validateFEN, validateHybrid, check
  <2>. HIDE DEF checks
  <2>. QED BY <2>1, <2>2, FirstFailure
<1>3. nmx(r) = IF ~validateAll(checks) THEN NoHit({"ValidationErrors", f})
               ELSE IF nmxCoord(r) = InvalidCoord THEN NoHit({"MappingErrors"}) ELSE hit
  BY Zenon DEF nmx
<1>4. OneOutcome(hit)
  <2>1. {} \cap Losses = {} OBVIOUS
  <2>. HIDE DEF plane, panel
  <2>. QED BY <2>1, HitOutcome, Zenon
<1>5. OneOutcome(NoHit({"MappingErrors"}))
  <2>1. "MappingErrors" \in Losses /\ {"MappingErrors"} \cap Losses = {"MappingErrors"} BY <1>1
  <2>. QED BY <2>1, LostOutcome, Zenon
<1>. HIDE DEF checks, f, hit
<1>6. ~validateAll(checks) => OneOutcome(NoHit({"ValidationErrors", f}))
  <2>. SUFFICES ASSUME ~validateAll(checks) PROVE OneOutcome(NoHit({"ValidationErrors", f}))
    OBVIOUS
  <2>. DEFINE C == {"ValidationErrors", f}
  <2>1. "ValidationErrors" \in Losses /\ C \cap Losses = {"ValidationErrors"} BY <1>1, <1>2
  <2>2. OneOutcome(NoHit(C))
    <3>. HIDE DEF C
    <3>. QED BY <2>1, LostOutcome, Zenon
  <2>. QED BY <2>2
<1>. QED BY <1>3, <1>4, <1>5, <1>6, Zenon

LEMMA Outcomes ==
  ASSUME VmmConfigurationOK, NEW r
  PROVE  OneOutcome(outcome(r))
<1>1. CASE instrument \in Multiblades
  <2>1. outcome(r) = multiblade(r) BY <1>1 DEF outcome, Multiblades, Multigrids
  <2>. QED BY <1>1, <2>1, MultibladeOutcomes, Zenon
<1>2. CASE instrument \in Multigrids
  <2>1. outcome(r) = multigrid(r) BY <1>2 DEF outcome, Multiblades, Multigrids
  <2>. QED BY <1>2, <2>1, MultigridOutcomes, Zenon
<1>3. CASE instrument = "NMX"
  <2>1. outcome(r) = nmx(r) BY <1>3 DEF outcome, Multiblades, Multigrids
  <2>. QED BY <1>3, <2>1, NmxOutcomes, Zenon
<1>. QED BY <1>1, <1>2, <1>3
         DEF VmmConfigurationOK, VmmInstruments, instrument, Multiblades, Multigrids
-----------------------------------------------------------------------------
\* Of the first n outcomes, those that have incremented a counter, and the hits.
having(o, c, n) == {i \in 1 .. n : c \in o[i].counters}

inserted(o, n) == FlattenSeq([i \in 1 .. n |-> o[i].hits])

\* What a packet adds up to.
AddsUp(o, n) ==
  /\ \E T : inserted(o, n) \in Seq(T)
  /\ Cardinality(having(o, "Readouts", n)) = n
  /\ \A c \in Losses : Cardinality(having(o, c, n)) \in Nat
  /\ n = Len(inserted(o, n)) + Cardinality(having(o, "ADCBelowThreshold", n))
         + Cardinality(having(o, "CoordOverflow", n)) + Cardinality(having(o, "MinADC", n))
         + Cardinality(having(o, "MappingErrors", n)) + Cardinality(having(o, RejectedAs, n))

LEMMA PacketAddsUp ==
  ASSUME NEW n \in Nat, NEW o, \A i \in 1 .. n : OneOutcome(o[i])
  PROVE  AddsUp(o, n)
<1>. DEFINE hit == "Events"
            tag == [i \in 1 .. n |-> IF o[i].hits = <<>>
                                     THEN CHOOSE c \in Losses : o[i].counters \cap Losses = {c}
                                     ELSE hit]
            count(c, k) == Cardinality(tagged(tag, {c}, k))
            seqs == [i \in 1 .. n |-> o[i].hits]
            T == {o[i].hits[1] : i \in 1 .. n}
<1>1. hit \notin Losses BY DEF Losses, RejectedAs
<1>2. ASSUME NEW i \in 1 .. n
      PROVE  /\ seqs[i] = o[i].hits /\ seqs[i] \in Seq(T)
             /\ \A c \in Losses : c \in o[i].counters <=> tag[i] = c
             /\ \/ tag[i] = hit /\ Len(seqs[i]) = 1
                \/ tag[i] \in Losses /\ Len(seqs[i]) = 0
  <2>1. OneOutcome(o[i]) /\ seqs[i] = o[i].hits OBVIOUS
  <2>2. CASE o[i].counters \cap Losses = {} /\ \E h : o[i].hits = <<h>>
    <3>1. PICK h : o[i].hits = <<h>> BY <2>2
    <3>2. o[i].hits # <<>> /\ Len(o[i].hits) = 1 /\ o[i].hits[1] = h BY <3>1
    <3>3. h \in T BY <3>2
    <3>4. o[i].hits \in Seq(T)
      <4>. HIDE DEF T
      <4>. QED BY <3>1, <3>3
    <3>5. tag[i] = hit BY <3>2
    <3>. HIDE DEF tag, seqs, T, hit
    <3>. QED BY <1>1, <2>1, <2>2, <3>2, <3>4, <3>5
  <2>3. CASE o[i].hits = <<>> /\ \E c \in Losses : o[i].counters \cap Losses = {c}
    <3>1. o[i].hits \in Seq(T) /\ Len(o[i].hits) = 0 BY <2>3
    <3>2. tag[i] \in Losses /\ o[i].counters \cap Losses = {tag[i]}
      <4>1. tag[i] = CHOOSE c \in Losses : o[i].counters \cap Losses = {c} BY <2>3
      <4>. HIDE DEF tag
      <4>. QED BY <2>3, <4>1, Zenon
    <3>. HIDE DEF tag, seqs, T
    <3>. QED BY <2>1, <3>1, <3>2
  <2>. QED BY <2>1, <2>2, <2>3, Zenon DEF OneOutcome
<1>3. /\ seqs \in Seq(Seq(T)) /\ Len(seqs) = n
  <2>. DEFINE S == Seq(T)
  <2>1. \A i \in 1 .. n : seqs[i] \in S BY <1>2
  <2>2. seqs = [i \in 1 .. n |-> seqs[i]] OBVIOUS
  <2>. HIDE DEF seqs, S
  <2>3. seqs \in Seq(S) /\ Len(seqs) = n BY <2>1, <2>2
  <2>. QED BY <2>3 DEF S
<1>. HIDE DEF tag, seqs, T, hit
<1>4. PICK upTo : Flattening(upTo, seqs, T) /\ FlattenSeq(seqs) = upTo[n]
  BY <1>3, FlattensUp, Zenon
<1>5. /\ upTo[0] = <<>>
      /\ \A k \in 0 .. n : upTo[k] \in Seq(T)
      /\ \A k \in 0 .. n : k < n => upTo[k + 1] = upTo[k] \o seqs[k + 1]
  BY <1>3, <1>4 DEF Flattening
<1>6. \A c \in Losses : having(o, c, n) = tagged(tag, {c}, n)
  <2>1. ASSUME NEW c \in Losses PROVE having(o, c, n) = tagged(tag, {c}, n)
    <3>1. \A i \in 1 .. n : c \in o[i].counters <=> tag[i] \in {c} BY <1>2
    <3>. QED BY <3>1 DEF having, tagged
  <2>. QED BY <2>1
<1>7. /\ \A c, k : k \in Nat => /\ count(c, k) \in Nat
                                /\ count(c, k + 1) = count(c, k) + (IF tag[k + 1] = c THEN 1 ELSE 0)
  <2>1. ASSUME NEW c, NEW k \in Nat
        PROVE  /\ count(c, k) \in Nat
               /\ count(c, k + 1) = count(c, k) + (IF tag[k + 1] = c THEN 1 ELSE 0)
    <3>. DEFINE S == {c}
    <3>1. tag[k + 1] \in S <=> tag[k + 1] = c OBVIOUS
    <3>. HIDE DEF S
    <3>2. /\ Cardinality(tagged(tag, S, k)) \in Nat
          /\ Cardinality(tagged(tag, S, k + 1)) =
               Cardinality(tagged(tag, S, k)) + (IF tag[k + 1] \in S THEN 1 ELSE 0)
      BY CountOneMore
    <3>. QED BY <3>1, <3>2 DEF S
  <2>. QED BY <2>1
<1>8. \A c : count(c, 0) = 0
  <2>1. \A S : tagged(tag, S, 0) = {} BY DEF tagged
  <2>. QED BY <2>1, FS_EmptySet
<1>. HIDE DEF count
<1>. DEFINE lost(k) == count("ADCBelowThreshold", k) + count("CoordOverflow", k)
                       + count("MinADC", k) + count("MappingErrors", k) + count(RejectedAs, k)
<1>9. ASSUME NEW k \in Nat
      PROVE  /\ lost(k) \in Nat
             /\ lost(k + 1) = lost(k) + (IF tag[k + 1] \in Losses THEN 1 ELSE 0)
  <2>. DEFINE more(c) == IF tag[k + 1] = c THEN 1 ELSE 0
  <2>1. /\ count("ADCBelowThreshold", k) \in Nat /\ count("CoordOverflow", k) \in Nat
        /\ count("MinADC", k) \in Nat /\ count("MappingErrors", k) \in Nat
        /\ count(RejectedAs, k) \in Nat
    BY <1>7
  <2>2. \A c : count(c, k + 1) = count(c, k) + more(c) BY <1>7
  <2>3. more("ADCBelowThreshold") + more("CoordOverflow") + more("MinADC")
          + more("MappingErrors") + more(RejectedAs) = IF tag[k + 1] \in Losses THEN 1 ELSE 0
    BY DEF Losses, RejectedAs
  <2>4. \A c : more(c) \in Nat OBVIOUS
  <2>. HIDE DEF more
  <2>. QED BY <2>1, <2>2, <2>3, <2>4
<1>10. lost(0) = 0 BY <1>8
<1>. HIDE DEF lost
<1>. DEFINE F == {k \in 0 .. n : Len(upTo[k]) + lost(k) = k}
<1>11. F = 0 .. n
  <2>1. F \in SUBSET (0 .. n) /\ 0 \in F BY <1>5, <1>10
  <2>2. ASSUME NEW k \in F, k < n PROVE k + 1 \in F
    <3>1. /\ k \in 0 .. n /\ k \in Nat /\ k + 1 \in 0 .. n /\ k + 1 \in 1 .. n
          /\ Len(upTo[k]) + lost(k) = k
      BY <2>2
    <3>2. upTo[k] \in Seq(T) /\ seqs[k + 1] \in Seq(T) /\ upTo[k + 1] = upTo[k] \o seqs[k + 1]
      BY <1>2, <1>5, <2>2, <3>1
    <3>3. /\ Len(upTo[k + 1]) = Len(upTo[k]) + Len(seqs[k + 1])
          /\ Len(upTo[k]) \in Nat /\ Len(seqs[k + 1]) \in Nat
      <4>. DEFINE s == upTo[k]  t == seqs[k + 1]
      <4>1. s \in Seq(T) /\ t \in Seq(T) /\ upTo[k + 1] = s \o t BY <3>2
      <4>. HIDE DEF s, t
      <4>2. Len(s \o t) = Len(s) + Len(t) /\ Len(s) \in Nat /\ Len(t) \in Nat BY <4>1
      <4>. QED BY <4>1, <4>2 DEF s, t
    <3>4. \/ tag[k + 1] \in Losses /\ Len(seqs[k + 1]) = 0
          \/ tag[k + 1] \notin Losses /\ Len(seqs[k + 1]) = 1
      BY <1>1, <1>2, <3>1
    <3>5. lost(k) \in Nat /\ lost(k + 1) = lost(k) + (IF tag[k + 1] \in Losses THEN 1 ELSE 0)
      BY <1>9, <3>1
    <3>6. Len(upTo[k + 1]) + lost(k + 1) = k + 1
      <4>. DEFINE a == Len(upTo[k])  b == Len(seqs[k + 1])  c == Len(upTo[k + 1])
                  d == lost(k)  e == lost(k + 1)
      <4>1. /\ c = a + b /\ a \in Nat /\ b \in Nat /\ d \in Nat /\ a + d = k
            /\ (b = 0 /\ e = d + 1) \/ (b = 1 /\ e = d)
        BY <3>1, <3>3, <3>4, <3>5
      <4>. HIDE DEF a, b, c, d, e
      <4>2. c + e = k + 1 BY <3>1, <4>1
      <4>. QED BY <4>2 DEF c, e
    <3>. QED BY <3>1, <3>6
  <2>. HIDE DEF F
  <2>. QED BY <2>1, <2>2, NumbersUpTo
<1>12. Len(inserted(o, n)) + lost(n) = n /\ inserted(o, n) \in Seq(T)
  <2>1. n \in 0 .. n OBVIOUS
  <2>2. inserted(o, n) = upTo[n] BY <1>4 DEF inserted, seqs
  <2>3. Len(upTo[n]) + lost(n) = n BY <1>11, <2>1
  <2>. QED BY <1>5, <2>1, <2>2, <2>3
<1>13. Cardinality(having(o, "Readouts", n)) = n
  <2>1. having(o, "Readouts", n) = 1 .. n BY DEF having, OneOutcome
  <2>2. Cardinality(1 .. n) = n
    <3>1. 1 \in Int /\ n \in Int OBVIOUS
    <3>. QED BY <3>1, FS_Interval
  <2>. QED BY <2>1, <2>2
<1>14. \A c \in Losses : count(c, n) \in Nat /\ Cardinality(having(o, c, n)) = count(c, n)
  BY <1>6, <1>7 DEF count
<1>15. {"ADCBelowThreshold", "CoordOverflow", "MinADC", "MappingErrors", RejectedAs} \subseteq Losses
  BY DEF Losses
<1>. DEFINE total == Len(inserted(o, n)) + Cardinality(having(o, "ADCBelowThreshold", n))
         + Cardinality(having(o, "CoordOverflow", n)) + Cardinality(having(o, "MinADC", n))
         + Cardinality(having(o, "MappingErrors", n)) + Cardinality(having(o, RejectedAs, n))
<1>16. n = total
  <2>1. Len(inserted(o, n)) \in Nat BY <1>12
  <2>2. total = Len(inserted(o, n)) + lost(n) BY <1>14, <1>15, <2>1 DEF lost
  <2>. HIDE DEF total
  <2>. QED BY <1>12, <2>2
<1>. QED BY <1>12, <1>13, <1>14, <1>16, Zenon DEF AddsUp

VmmCountersOK ==
  /\ DOMAIN counters = VmmCounters /\ readouts \in Nat /\ \E S : hits \in Seq(S)
  /\ counters["Readouts"] \in Nat /\ \A c \in Losses : counters[c] \in Nat

\* Sequences of two kinds of elements, one after the other.
LEMMA Appended ==
  ASSUME NEW S, NEW T, NEW s \in Seq(S), NEW t \in Seq(T)
  PROVE  (\E U : s \o t \in Seq(U)) /\ Len(s \o t) = Len(s) + Len(t)
<1>. DEFINE U == S \cup T
<1>1. s \in Seq(U)
  <2>1. \A i \in 1 .. Len(s) : s[i] \in U OBVIOUS
  <2>2. s = [i \in 1 .. Len(s) |-> s[i]] /\ Len(s) \in Nat OBVIOUS
  <2>. HIDE DEF U
  <2>. QED BY <2>1, <2>2
<1>2. t \in Seq(U)
  <2>1. \A i \in 1 .. Len(t) : t[i] \in U OBVIOUS
  <2>2. t = [i \in 1 .. Len(t) |-> t[i]] /\ Len(t) \in Nat OBVIOUS
  <2>. HIDE DEF U
  <2>. QED BY <2>1, <2>2
<1>. HIDE DEF U
<1>. QED BY <1>1, <1>2

\* The readouts of a packet are hits, or counted as lost for one reason each.
LEMMA VmmPacketCounted ==
  ASSUME VmmConfigurationOK, VmmCountersOK, VmmAccounted,
         NEW p \in VmmPackets[instrument], VmmPacket(p)
  PROVE  VmmConfigurationOK' /\ VmmCountersOK' /\ VmmAccounted'
<1>. DEFINE n == Len(p)
            o == [i \in DOMAIN p |-> outcome(p[i])]
            new == FlattenSeq([i \in DOMAIN p |-> o[i].hits])
            pairs == neutrons(ToSet(new))
            good == {m \in pairs : vmmPixel(m[1], m[2]) # 0}
            number(c) == Cardinality({i \in DOMAIN p : c \in o[i].counters})
                         + CASE c = "Events" -> Cardinality(good)
                             [] c = "PixelErrors" -> Cardinality(pairs \ good)
                             [] OTHER -> 0
<1>1. n \in Nat /\ DOMAIN p = 1 .. n
  <2>1. instrument \in VmmInstruments BY DEF VmmConfigurationOK, instrument
  <2>. DEFINE R == [fiber : 0 .. 23, fen : 0 .. 23, vmm : 0 .. 15, channel : 0 .. 63,
                    over : BOOLEAN, adc : 0 .. MaxADC]
  <2>2. \A i \in VmmInstruments : \A q \in VmmPackets[i] : q \in Seq(R)
    BY VmmAssumption
  <2>. HIDE DEF R
  <2>3. p \in Seq(R) BY <2>1, <2>2
  <2>. QED BY <2>3
<1>2. /\ readouts' = readouts + n /\ hits' = hits \o new /\ configuration' = configuration
      /\ counters' = [c \in DOMAIN counters |-> counters[c] + number(c)]
  BY Zenon DEF VmmPacket
<1>3. /\ instrument' = instrument /\ RejectedAs' = RejectedAs /\ Losses' = Losses
      /\ VmmConfigurationOK'
  BY <1>2 DEF instrument, RejectedAs, Losses, VmmConfigurationOK
<1>4. AddsUp(o, n)
  <2>1. \A i \in 1 .. n : o[i] = outcome(p[i]) BY <1>1
  <2>2. \A i \in 1 .. n : OneOutcome(o[i])
    <3>. HIDE DEF o, n
    <3>. QED BY <2>1, Outcomes
  <2>. HIDE DEF o, n
  <2>. QED BY <1>1, <2>2, PacketAddsUp
<1>5. /\ new = inserted(o, n)
      /\ \A c : {i \in DOMAIN p : c \in o[i].counters} = having(o, c, n)
  <2>. HIDE DEF o, n
  <2>. QED BY <1>1 DEF inserted, having
<1>6. Losses \cup {"Readouts"} \subseteq VmmCounters \ {"Events", "PixelErrors"}
  BY DEF Losses, RejectedAs, VmmCounters, BaseCounters
<1>7. DOMAIN counters' = VmmCounters BY <1>2 DEF VmmCountersOK
<1>8. \A c \in Losses \cup {"Readouts"} :
        counters'[c] = counters[c] + Cardinality(having(o, c, n))
  <2>1. ASSUME NEW c \in Losses \cup {"Readouts"}
        PROVE  counters'[c] = counters[c] + Cardinality(having(o, c, n))
    <3>1. c \in DOMAIN counters /\ c # "Events" /\ c # "PixelErrors"
      BY <1>6 DEF VmmCountersOK
    <3>2. counters'[c] = counters[c] + number(c)
      <4>. HIDE DEF number
      <4>. QED BY <1>2, <3>1
    <3>. DEFINE Of == {i \in DOMAIN p : c \in o[i].counters}
    <3>3. number(c) = Cardinality(Of) + 0
      <4>. HIDE DEF pairs, good, Of
      <4>1. (CASE c = "Events" -> Cardinality(good)
               [] c = "PixelErrors" -> Cardinality(pairs \ good)
               [] OTHER -> 0) = 0
        BY <3>1
      <4>. QED BY <4>1 DEF Of
    <3>4. Of = having(o, c, n) BY <1>5, Zenon
    <3>5. Cardinality(having(o, c, n)) \in Nat
      BY <1>1, <1>4 DEF AddsUp
    <3>. HIDE DEF number, Of, o, n
    <3>. QED BY <3>2, <3>3, <3>4, <3>5
  <2>. QED BY <2>1, Zenon
<1>. HIDE DEF n, o, new, pairs, good, number
<1>9. (\E S : hits' \in Seq(S)) /\ Len(hits') = Len(hits) + Len(new)
  <2>1. PICK S : hits \in Seq(S) BY DEF VmmCountersOK
  <2>2. PICK T : new \in Seq(T) BY <1>4, <1>5 DEF AddsUp
  <2>3. (\E U : hits \o new \in Seq(U)) /\ Len(hits \o new) = Len(hits) + Len(new)
    BY <2>1, <2>2, Appended
  <2>. QED BY <1>2, <2>3
<1>10. Len(hits) \in Nat /\ Len(new) \in Nat
  BY <1>4, <1>5 DEF AddsUp, VmmCountersOK
<1>11. VmmCountersOK'
  <2>1. counters'["Readouts"] \in Nat /\ readouts' \in Nat
    <3>1. counters'["Readouts"] = counters["Readouts"] + n BY <1>4, <1>8 DEF AddsUp
    <3>. QED BY <1>1, <1>2, <3>1 DEF VmmCountersOK
  <2>2. \A c \in Losses : counters'[c] \in Nat BY <1>4, <1>8 DEF AddsUp, VmmCountersOK
  <2>. QED BY <1>3, <1>7, <1>9, <2>1, <2>2 DEF VmmCountersOK
<1>12. VmmAccounted'
  <2>. DEFINE more(c) == Cardinality(having(o, c, n))
  <2>1. /\ counters'["Readouts"] = counters["Readouts"] + n
        /\ counters["Readouts"] = readouts /\ readouts \in Nat
    BY <1>4, <1>8 DEF AddsUp, VmmCountersOK, VmmAccounted
  <2>2. \A c \in Losses : /\ counters'[c] = counters[c] + more(c)
                          /\ counters[c] \in Nat /\ more(c) \in Nat
    BY <1>4, <1>8 DEF AddsUp, VmmCountersOK
  <2>3. n = Len(new) + more("ADCBelowThreshold") + more("CoordOverflow") + more("MinADC")
            + more("MappingErrors") + more(RejectedAs)
    BY <1>4, <1>5 DEF AddsUp
  <2>4. readouts = Len(hits) + counters["ADCBelowThreshold"] + counters["CoordOverflow"]
                   + counters["MinADC"] + counters["MappingErrors"] + counters[RejectedAs]
    BY DEF VmmAccounted, RejectedAs
  <2>5. {"ADCBelowThreshold", "CoordOverflow", "MinADC", "MappingErrors", RejectedAs} \subseteq Losses
    BY DEF Losses
  <2>. HIDE DEF more
  <2>6. readouts' = Len(hits') + counters'["ADCBelowThreshold"] + counters'["CoordOverflow"]
                    + counters'["MinADC"] + counters'["MappingErrors"] + counters'[RejectedAs]
    <3>. DEFINE h == Len(hits)  d == Len(new)
                at == counters["ADCBelowThreshold"]  ma == more("ADCBelowThreshold")
                ct == counters["CoordOverflow"]  mc == more("CoordOverflow")
                it == counters["MinADC"]  mi == more("MinADC")
                pt == counters["MappingErrors"]  mp == more("MappingErrors")
                rt == counters[RejectedAs]  mr == more(RejectedAs)
    <3>1. /\ at \in Nat /\ ct \in Nat /\ it \in Nat /\ pt \in Nat /\ rt \in Nat
          /\ ma \in Nat /\ mc \in Nat /\ mi \in Nat /\ mp \in Nat /\ mr \in Nat
          /\ counters'["ADCBelowThreshold"] = at + ma /\ counters'["CoordOverflow"] = ct + mc
          /\ counters'["MinADC"] = it + mi /\ counters'["MappingErrors"] = pt + mp
          /\ counters'[RejectedAs] = rt + mr
      BY <2>2, <2>5
    <3>2. h \in Nat /\ d \in Nat /\ Len(hits') = h + d /\ readouts' = readouts + n
      BY <1>2, <1>9, <1>10
    <3>3. n = d + ma + mc + mi + mp + mr /\ readouts = h + at + ct + it + pt + rt
      BY <2>3, <2>4
    <3>. HIDE DEF h, d, at, ma, ct, mc, it, mi, pt, mp, rt, mr
    <3>4. readouts + n = (h + d) + (at + ma) + (ct + mc) + (it + mi) + (pt + mp) + (rt + mr)
      BY <3>1, <3>2, <3>3
    <3>. QED BY <3>1, <3>2, <3>4
  <2>. QED BY <1>2, <1>3, <2>1, <2>6 DEF VmmAccounted, RejectedAs
<1>. QED BY <1>3, <1>11, <1>12
-----------------------------------------------------------------------------
DreamInv == ConfigurationOK /\ EventsMade /\ CountersOK(DreamCounters) /\ Accounted
CaenInv == CaenConfigurationOK /\ CountersOK(CaenCounters) /\ Accounted
VmmInv == VmmConfigurationOK /\ VmmCountersOK /\ VmmAccounted

\* The program is one instrument's, and stays that.
Inv == DreamInv \/ CaenInv \/ VmmInv

\* Nothing is counted before the first readout.
LEMMA StartsAccounted ==
  ASSUME NEW C, BaseCounters \subseteq C, counters = [c \in C |-> 0], readouts = 0, events = {}
  PROVE  CountersOK(C) /\ Accounted
<1>1. IsFiniteSet(events) /\ Cardinality(events) = 0 BY FS_EmptySet
<1>2. \A c \in Reserved : counters[c] = 0 BY DEF Reserved, Verdicts, BaseCounters
<1>. QED BY <1>1, <1>2 DEF CountersOK, Accounted, Reserved, Verdicts

LEMMA InvInit == Init => Inv
<1>1. ASSUME DreamInit PROVE DreamInv
  <2>1. BaseCounters \subseteq DreamCounters BY DEF DreamCounters
  <2>2. CountersOK(DreamCounters) /\ Accounted BY <1>1, <2>1, StartsAccounted DEF DreamInit
  <2>. QED BY <1>1, <2>2, ConfigurationApplied DEF DreamInit, EventsMade, DreamInv
<1>2. ASSUME CaenInit PROVE CaenInv
  <2>1. BaseCounters \subseteq CaenCounters BY DEF CaenCounters
  <2>2. CountersOK(CaenCounters) /\ Accounted BY <1>2, <2>1, StartsAccounted DEF CaenInit
  <2>3. CaenConfigurationOK BY <1>2 DEF CaenInit, accepted, CaenConfigurationOK
  <2>. QED BY <2>2, <2>3 DEF CaenInv
<1>3. ASSUME VmmInit PROVE VmmInv
  <2>1. VmmConfigurationOK
    <3>1. configuration \in VmmConfigurations BY <1>3 DEF VmmInit
    <3>2. \A c \in VmmConfigurations : c.instrument \in VmmInstruments BY VmmAssumption
    <3>. QED BY <3>1, <3>2 DEF VmmConfigurationOK
  <2>2. Losses \cup {"Readouts"} \subseteq VmmCounters
    BY DEF Losses, RejectedAs, VmmCounters, BaseCounters
  <2>3. /\ counters = [c \in VmmCounters |-> 0] /\ readouts = 0 /\ hits = <<>>
    BY <1>3 DEF VmmInit
  <2>4. (\A c \in Losses \cup {"Readouts"} : counters[c] = 0) /\ Len(hits) = 0 /\ hits \in Seq({})
    BY <2>2, <2>3
  <2>5. VmmCountersOK BY <2>3, <2>4, Zenon, 0 \in Nat DEF VmmCountersOK
  <2>6. VmmAccounted
    <3>1. {"ADCBelowThreshold", "CoordOverflow", "MinADC", "MappingErrors"} \subseteq Losses
      BY DEF Losses
    <3>2. counters[RejectedAs] = 0 BY <2>4 DEF Losses
    <3>. QED BY <2>3, <2>4, <3>1, <3>2 DEF VmmAccounted, RejectedAs
  <2>. QED BY <2>1, <2>5, <2>6 DEF VmmInv
<1>. QED BY <1>1, <1>2, <1>3 DEF Init, Inv

LEMMA InvNext == Inv /\ [Next]_<<vars, hits>> => Inv'
<1>. SUFFICES ASSUME Inv, [Next]_<<vars, hits>> PROVE Inv'
  OBVIOUS
<1>. DEFINE name == configuration.instrument
<1>1. /\ DreamInv => name \in DreamInstruments
      /\ CaenInv => name \in CaenInstruments
      /\ VmmInv => name \in VmmInstruments
  BY DEF DreamInv, CaenInv, VmmInv, ConfigurationOK, CaenConfigurationOK, VmmConfigurationOK
<1>2. ASSUME DreamNext, DreamInv PROVE DreamInv'
  <2>1. ConfigurationOK' /\ EventsMade' BY <1>2, EventsMadeStep DEF DreamInv
  <2>2. CountersOK(DreamCounters)' /\ Accounted'
    BY <1>2, DreamReadoutCounted DEF DreamNext, DreamInv
  <2>. QED BY <2>1, <2>2 DEF DreamInv
<1>3. ASSUME CaenNext, CaenInv PROVE CaenInv'
  <2>1. PICK r \in CaenReadouts : CaenReadout(r) BY <1>3 DEF CaenNext
  <2>2. CaenConfigurationOK'
    BY <1>3, <2>1, Zenon DEF CaenReadout, ProcessReadout, CaenConfigurationOK, CaenInv
  <2>3. CountersOK(CaenCounters)' /\ Accounted' BY <1>3, <2>1, CaenReadoutCounted DEF CaenInv
  <2>. QED BY <2>2, <2>3 DEF CaenInv
<1>4. ASSUME VmmNext, VmmInv PROVE VmmInv'
  <2>1. PICK p \in VmmPackets[instrument] : VmmPacket(p) BY <1>4 DEF VmmNext
  <2>. QED BY <1>4, <2>1, VmmPacketCounted DEF VmmInv
<1>5. /\ DreamNext => name \in DreamInstruments
      /\ CaenNext => name \in CaenInstruments
      /\ VmmNext => name \in VmmInstruments
  BY DEF DreamNext, CaenNext, VmmNext
<1>6. /\ DreamInstruments \cap CaenInstruments = {}
      /\ DreamInstruments \cap VmmInstruments = {}
      /\ CaenInstruments \cap VmmInstruments = {}
  BY DEF DreamInstruments, CaenInstruments, VmmInstruments
<1>7. CASE Next BY <1>1, <1>2, <1>3, <1>4, <1>5, <1>6, <1>7, Zenon DEF Next, Inv
<1>8. CASE UNCHANGED <<vars, hits>>
  <2>1. /\ configuration' = configuration /\ counters' = counters /\ readouts' = readouts
        /\ events' = events /\ hits' = hits
    BY <1>8 DEF vars
  <2>2. DreamInv => DreamInv'
    BY <2>1 DEF DreamInv, ConfigurationOK, EventsMade, MadeOfReadout, configured, moduleAt,
               dreamPixel, CountersOK, Accounted
  <2>3. CaenInv => CaenInv' BY <2>1 DEF CaenInv, CaenConfigurationOK, CountersOK, Accounted
  <2>4. VmmInv => VmmInv'
    BY <2>1 DEF VmmInv, VmmConfigurationOK, VmmCountersOK, VmmAccounted, Losses, RejectedAs,
               instrument
  <2>. QED BY <2>2, <2>3, <2>4 DEF Inv
<1>. QED BY <1>7, <1>8

\* Every readout is one event or one hit, or is counted as one error, whatever fails
\* and in whatever order the checks are made (DetectorGeometry.h:155,
\* DreamInstrument.h:123, CaenInstrument.cpp:80, FreiaInstrument.cpp:84,
\* TREXInstrument.cpp:105, NMXInstrument.cpp:91): the property of the run, for every
\* configuration and all readouts.
THEOREM NothingLost == Spec => []ReadoutsAccounted
<1>1. Inv => ReadoutsAccounted
  <2>1. DreamInstruments \cap VmmInstruments = {} /\ CaenInstruments \cap VmmInstruments = {}
    BY DEF DreamInstruments, CaenInstruments, VmmInstruments
  <2>. QED BY <2>1 DEF Inv, DreamInv, CaenInv, VmmInv, ConfigurationOK, CaenConfigurationOK,
                       VmmConfigurationOK, ReadoutsAccounted
<1>. QED BY <1>1, InvInit, InvNext, PTL DEF Spec

\* An event is of a configured module and its pixel is of that module's part of
\* the detector, whatever file the instrument is configured with and whatever the
\* electronics send (*Geometry.cpp of modules/dream): the safety property of the
\* run, for every configuration.
THEOREM PartsKeptApart == Spec => []PixelsInPart
<1>1. ASSUME DreamInv PROVE PixelsInPart
  BY <1>1, EventInPart, Zenon DEF EventsMade, PixelsInPart, DreamEvents, ConfigurationOK, DreamInv
<1>2. ASSUME CaenInv \/ VmmInv PROVE PixelsInPart
  <2>1. configuration.instrument \in CaenInstruments \cup VmmInstruments
    BY <1>2 DEF CaenInv, VmmInv, CaenConfigurationOK, VmmConfigurationOK
  <2>2. DreamEvents = {}
    BY <2>1 DEF DreamEvents, DreamInstruments, CaenInstruments, VmmInstruments
  <2>. QED BY <2>2 DEF PixelsInPart
<1>3. Inv => PixelsInPart BY <1>1, <1>2 DEF Inv
<1>. QED BY <1>3, InvInit, InvNext, PTL DEF Spec
=============================================================================

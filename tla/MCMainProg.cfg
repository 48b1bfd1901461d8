\* A table of two places for three clients: one may be turned away, another
\* left. Connections and requests are counted together; three of them are
\* enough for a client to ask for the number of stats and for one of them, or
\* to send two requests that are received at once. Two losses of the metrics
\* server: the second is the one that waits for the reconnect delay.
CONSTANTS
  Clients = {1, 2, 3}
  None = None
  MaxClients = 2
  Requests <- MCRequests
  MaxPending = 2
  MaxRequests = 3
  MaxLosses = 2
  FirstStats = 1
  MainStats = 1
  Threads = {input}
SPECIFICATION MCSpec
INVARIANTS TableExact CountedStatsNamed
PROPERTIES StopsWhenAsked ClientsServed MetricsResume
\* The program ends.
CHECK_DEADLOCK FALSE

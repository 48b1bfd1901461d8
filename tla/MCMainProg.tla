------------------------------ MODULE MCMainProg ----------------------------
(***************************************************************************)
(* MainProg with one thread, a table of two places, and requests that      *)
(* matter to each other: the number of stats, a stat by its index, EXIT.   *)
(* Two requests received at once are one with too many tokens.             *)
(***************************************************************************)
EXTENDS MainProg, TLC

Request1(cmd) == [cmd |-> cmd, tokens |-> 1, arg |-> 0]
Request2(cmd, i) == [cmd |-> cmd, tokens |-> 2, arg |-> i]

MCRequests ==
  {Request1("STAT_GET_COUNT"), Request2("STAT_GET", 2), Request1("EXIT")}

\* What the clients do and what becomes of the metrics meet in the main loop
\* only: each is checked with the other at rest.
MCInit ==
  /\ MainInit
  /\ \/ requests = 0 /\ losses = MaxLosses /\ serverUp
     \/ requests = MaxRequests /\ losses = 0
MCSpec == MCInit /\ [][MainNext]_mainVars /\ Fairness
=============================================================================

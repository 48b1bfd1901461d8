------------------------------- MODULE ESSTime ------------------------------
(***************************************************************************)
(* Times of the ESS clock and times of flight: src/common/time/ESSTime.h   *)
(* and ESSTime.cpp.  A time is a number of seconds and of clock ticks; it  *)
(* is compared as nanoseconds.  The arithmetic is exact where the code's   *)
(* is in double precision.                                                 *)
(***************************************************************************)
EXTENDS Integers

CONSTANTS SecInNs,         \* nanoseconds in a second
          ESSClockFreqHz,  \* ticks in a second
          InvalidTof

ASSUME ESSTimeAssumption ==
  /\ SecInNs \in Nat \ {0} /\ ESSClockFreqHz \in Nat \ {0}
  /\ InvalidTof \notin Nat

ESSTimes == [high : Nat, low : Nat]

\* The ticks are truncated to whole nanoseconds.
toNS(t) == t.high * SecInNs + (t.low * SecInNs) \div ESSClockFreqHz

\* The counter of a time n, in nanoseconds, that lies so to a pulse: the first,
\* second or third of the names.
outcome(n, pulse, MaxTOF, names) ==
  IF n < pulse THEN names[1] ELSE IF n - pulse > MaxTOF THEN names[2] ELSE names[3]

TofNames == <<"TofNegative", "TofHigh", "TofCount">>
PrevTofNames == <<"PrevTofNegative", "PrevTofHigh", "PrevTofCount">>
TofCounters == {TofNames[i] : i \in 1 .. 3} \cup {PrevTofNames[i] : i \in 1 .. 3}

\* The time of flight from the previous pulse, and the counters incremented.
getPrevTOF(n, reference, MaxTOF) ==
  LET o == outcome(n, reference.prev, MaxTOF, PrevTofNames)
  IN  [tof |-> IF o = "PrevTofCount" THEN n - reference.prev ELSE InvalidTof,
       counters |-> {o}]

\* An event from before the pulse is one of the previous pulse.
getTOF(n, reference, MaxTOF) ==
  LET o == outcome(n, reference.time, MaxTOF, TofNames)
      earlier == getPrevTOF(n, reference, MaxTOF)
  IN  IF o = "TofNegative"
      THEN [earlier EXCEPT !.counters = @ \cup {o}]
      ELSE [tof |-> IF o = "TofCount" THEN n - reference.time ELSE InvalidTof,
            counters |-> {o}]
=============================================================================

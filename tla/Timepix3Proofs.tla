--------------------------- MODULE Timepix3Proofs ---------------------------
(***************************************************************************)
(* Pairing by arrival pairs the readouts of one pulse, for every period,   *)
(* threshold and delay with Delay + Threshold < Period, and every wrap of  *)
(* the two clocks; and the trigger counter tells new readouts from old     *)
(* ones as long as at most one readout in a row is lost.                   *)
(***************************************************************************)
EXTENDS Timepix3, CommonLemmas

\* The quarters of the TDC's clock are wraps of the pixels' clock.
LEMMA Quarters ==
  ASSUME NEW n \in Nat \ {0}, NEW t \in Nat
  PROVE  (t % (4 * n)) - n * ((t % (4 * n)) \div n) = t % n
<1> DEFINE m == 4 * n  s == t % m  q == t \div m
           p == s \div n  r == s % n  u == t \div n  v == t % n
<1>1. m \in Nat \ {0}
  OBVIOUS
<1>2. t = m * q + s /\ q \in Int /\ s \in 0 .. (m - 1)
  <2> HIDE DEF m
  <2> QED BY <1>1 DEF q, s
<1>3. s = n * p + r /\ p \in Int /\ r \in 0 .. (n - 1)
  <2>1. s \in Nat
    BY <1>1, <1>2
  <2> HIDE DEF s
  <2> QED BY <2>1 DEF p, r
<1>4. t = n * u + v /\ u \in Int /\ v \in 0 .. (n - 1)
  OBVIOUS
<1> DEFINE d == 4 * q + p - u
<1>5. d \in Int
  BY <1>2, <1>3, <1>4
<1>6. n * d = v - r
  <2> HIDE DEF s, q, p, r, u, v
  <2>1. m * q = n * (4 * q)
    BY <1>2
  <2> HIDE DEF m
  <2>2. n * d = n * (4 * q) + n * p - n * u
    BY <1>2, <1>3, <1>4
  <2> QED
    BY <1>2, <1>3, <1>4, <2>1, <2>2
<1> HIDE DEF m, s, q, p, r, u, v, d
<1>7. CASE d <= -1
  <2>1. n * d <= -n
    BY <1>5, <1>7
  <2> QED
    BY <1>3, <1>4, <1>6, <2>1
<1>8. CASE d >= 1
  <2>1. n * d >= n
    BY <1>5, <1>8
  <2> QED
    BY <1>3, <1>4, <1>6, <2>1
<1>9. CASE d = 0
  <2>1. v = r
    BY <1>3, <1>4, <1>6, <1>9
  <2> QED
    BY <1>3, <2>1 DEF v, p, s, m
<1> QED
  BY <1>5, <1>7, <1>8, <1>9

\* The time of a TDC readout in the pixels' clock is what that clock shows.
LEMMA TDCClockConverted ==
  ASSUME NEW t \in Nat
  PROVE  tdcTimeInPixelClock(TDCClock(t)) = Clock(t)
<1>1. PixelMax \in Nat \ {0} /\ ClockAtStart + t \in Nat
  BY Timepix3Assumption
<1> QED
  BY <1>1, Quarters DEF tdcTimeInPixelClock, TDCClock, Clock

\* Pulses are at least a period apart.
LEMMA PulsesApart ==
  ASSUME NEW j \in Nat, NEW k \in Nat, j < k
  PROVE  PulseTime(j) + Period <= PulseTime(k)
<1>1. Period \in Nat
  BY Timepix3Assumption
<1>2. (k - j) * Period >= Period
  BY <1>1
<1>3. k * Period = j * Period + (k - j) * Period
  BY <1>1
<1>4. j * Period \in Int /\ (k - j) * Period \in Int
  BY <1>1
<1> QED
  BY <1>1, <1>2, <1>3, <1>4 DEF PulseTime
-----------------------------------------------------------------------------
\* What is kept of a readout: its pulse, and an arrival at most Delay later.
Kept(r) ==
  r # None => /\ r.pulse \in Nat /\ r.arrival \in Nat
              /\ PulseTime(r.pulse) <= r.arrival
              /\ r.arrival <= PulseTime(r.pulse) + Delay

\* The strengthening of PulsesPaired.
Inv ==
  /\ now \in Nat
  /\ Kept(lastTDCData) /\ Kept(lastEVRData)
  /\ PulsesPaired

\* Two readouts that arrive within Threshold are of one pulse.
LEMMA SamePulse ==
  ASSUME NEW tdc, NEW evr, Kept(tdc), Kept(evr),
         isLastTimingDiffLowerThenThreshold(tdc, evr)
  PROVE  tdc.pulse = evr.pulse
<1>1. /\ Period \in Nat /\ Threshold \in Nat /\ Delay \in Nat
      /\ Delay + Threshold < Period
  BY Timepix3Assumption
<1> DEFINE a == tdc.arrival  b == evr.arrival  j == tdc.pulse  k == evr.pulse
           jt == PulseTime(j)  kt == PulseTime(k)
<1>2. /\ j \in Nat /\ k \in Nat /\ a \in Nat /\ b \in Nat
      /\ jt <= a /\ a <= jt + Delay /\ kt <= b /\ b <= kt + Delay
      /\ a - b \in -Threshold .. Threshold
  BY DEF Kept, isLastTimingDiffLowerThenThreshold
<1>3. j < k => jt + Period <= kt
  BY <1>2, PulsesApart
<1>4. k < j => kt + Period <= jt
  BY <1>2, PulsesApart
<1>5. jt \in Nat /\ kt \in Nat
  BY <1>1, <1>2 DEF PulseTime
<1> HIDE DEF a, b, j, k, jt, kt
<1>6. j = k
  BY <1>1, <1>2, <1>3, <1>4, <1>5
<1> QED
  BY <1>6 DEF j, k

\* What publishData() makes the global time is sound.
LEMMA PublishSound ==
  ASSUME NEW tdc, NEW evr, Kept(tdc), Kept(evr), PulsesPaired,
         publishData(tdc, evr)
  PROVE  PulsesPaired'
<1>1. CASE isLastTimingDiffLowerThenThreshold(tdc, evr)
  <2>1. evr.pulse \in Nat /\ tdc.pulse = evr.pulse
    BY <1>1, SamePulse DEF Kept, isLastTimingDiffLowerThenThreshold
  <2>2. PulseTime(evr.pulse) \in Nat
    BY <2>1, Timepix3Assumption DEF PulseTime
  <2>3. lastEpochESSPulseTime' = [pulseTime |-> PulseTime(evr.pulse),
                                  tdcClock |-> Clock(PulseTime(evr.pulse))]
    BY <1>1, <2>1, <2>2, TDCClockConverted DEF publishData
  <2> QED
    BY <2>3 DEF PulsesPaired, Clock
<1>2. CASE ~isLastTimingDiffLowerThenThreshold(tdc, evr)
  BY <1>2 DEF publishData, PulsesPaired, Clock
<1> QED
  BY <1>1, <1>2

\* A readout that arrives now may be kept.
LEMMA ArrivesKept ==
  ASSUME NEW k \in Pulses, arrives(k), now \in Nat
  PROVE  Kept([pulse |-> k, arrival |-> now])
BY DEF Pulses, arrives, Kept

LEMMA InvInductive ==
  ASSUME Inv, [Next]_vars
  PROVE  Inv'
<1> USE DEF Inv
<1>1. ASSUME NEW k \in Pulses, TDCReadout(k)
      PROVE  Inv'
  <2> DEFINE tdc == [pulse |-> k, arrival |-> now]
  <2>1. Kept(tdc) /\ now' = now /\ lastEVRData' = lastEVRData
    BY <1>1, ArrivesKept DEF TDCReadout
  <2>2. \/ lastTDCData' = tdc /\ publishData(tdc, lastEVRData)
        \/ UNCHANGED <<lastTDCData, lastEpochESSPulseTime>>
    BY <1>1 DEF TDCReadout
  <2> HIDE DEF tdc
  <2>3. CASE lastTDCData' = tdc /\ publishData(tdc, lastEVRData)
    <3>1. PulsesPaired'
      BY <2>1, <2>3, PublishSound
    <3> QED
      BY <2>1, <2>3, <3>1 DEF Kept
  <2>4. CASE UNCHANGED <<lastTDCData, lastEpochESSPulseTime>>
    BY <2>1, <2>4 DEF Kept, PulsesPaired, Clock
  <2> QED
    BY <2>2, <2>3, <2>4
<1>2. ASSUME NEW k \in Pulses, EVRReadout(k)
      PROVE  Inv'
  <2> DEFINE evr == [pulse |-> k, arrival |-> now]
  <2>1. Kept(evr) /\ now' = now /\ lastTDCData' = lastTDCData
    BY <1>2, ArrivesKept DEF EVRReadout
  <2>2. \/ lastEVRData' = evr /\ publishData(lastTDCData, evr)
        \/ UNCHANGED <<lastEVRData, lastEpochESSPulseTime>>
    BY <1>2 DEF EVRReadout
  <2> HIDE DEF evr
  <2>3. CASE lastEVRData' = evr /\ publishData(lastTDCData, evr)
    <3>1. PulsesPaired'
      BY <2>1, <2>3, PublishSound
    <3> QED
      BY <2>1, <2>3, <3>1 DEF Kept
  <2>4. CASE UNCHANGED <<lastEVRData, lastEpochESSPulseTime>>
    BY <2>1, <2>4 DEF Kept, PulsesPaired, Clock
  <2> QED
    BY <2>2, <2>3, <2>4
<1>3. CASE UNCHANGED timing /\ now' \in {now, now + 1}
  BY <1>3 DEF timing, Kept, PulsesPaired, Clock
<1>4. ASSUME NEW t \in 0 .. MaxTime, NEW place \in Places, NEW weight \in Weights,
             PixelReadout(t, place, weight)
      PROVE  UNCHANGED timing /\ now' \in {now, now + 1}
  BY <1>4 DEF PixelReadout
<1>5. ASSUME clusters # <<>>, publishEvent(Head(clusters))
      PROVE  UNCHANGED timing /\ now' \in {now, now + 1}
  BY <1>5 DEF publishEvent
<1>6. CASE OtherReadout \/ processReadouts \/ Timeout \/ Tick \/ UNCHANGED vars
  BY <1>3, <1>6 DEF OtherReadout, processReadouts, Timeout, Tick, vars
<1> QED
  BY <1>1, <1>2, <1>3, <1>4, <1>5, <1>6 DEF Next

\* The camera's and the absolute time of every global time are of one pulse
\* (TimingEventHandler, isLastTimingDiffLowerThenThreshold).
THEOREM Paired == Spec => []PulsesPaired
<1>1. Init => Inv
  BY DEF Init, Inv, Kept, PulsesPaired
<1>2. Inv /\ [Next]_vars => Inv'
  BY InvInductive
<1>3. Inv => PulsesPaired
  BY DEF Inv
<1> QED
  BY <1>1, <1>2, <1>3, PTL DEF Spec
-----------------------------------------------------------------------------
\* The largest losses TimingCurrent survives: after more of them a counter that
\* started over is neither 0 nor 1, and is dropped as one that fell behind.
FewLost == MaxLost \in {0, 1} /\ MaxLost + 1 < TDCCounters

\* A readout at most MaxLost + 1 pulses after another is dropped only if it is
\* of the same pulse.
LEMMA LaterIsKept ==
  ASSUME FewLost, NEW j \in Nat, NEW k \in Nat, j <= k, k <= j + MaxLost + 1,
         dropped(TDCCounter(j), TDCCounter(k))
  PROVE  k = j
<1> DEFINE n == TDCCounters  a == CounterAtStart + j  d == k - j
<1>1. n \in Nat \ {0} /\ a \in Nat /\ d \in 0 .. (n - 1) /\ d <= 2 /\ a + d = CounterAtStart + k
  BY Timepix3Assumption DEF FewLost
<1>2. a % n \in 0 .. (n - 1)
  <2> HIDE DEF n, a
  <2> QED BY <1>1
<1>3. (a + d) % n = IF (a % n) + d < n THEN (a % n) + d ELSE (a % n) + d - n
  <2> HIDE DEF n, a, d
  <2> QED BY <1>1, ModOfSum, Zenon
<1>4. TDCCounter(j) = a % n /\ TDCCounter(k) = (a + d) % n
  BY <1>1 DEF TDCCounter
<1> DEFINE r == a % n
<1>5. dropped(r, IF r + d < n THEN r + d ELSE r + d - n)
  BY <1>3, <1>4
<1> HIDE DEF n, a, d, r
<1>6. r \in 0 .. (n - 1)
  BY <1>2 DEF r
<1>7. d = 0
  <2>1. CASE r + d < n
    BY <1>1, <1>5, <1>6, <2>1 DEF dropped
  <2>2. CASE ~(r + d < n)
    BY <1>1, <1>5, <1>6, <2>2 DEF dropped
  <2> QED
    BY <2>1, <2>2
<1> QED
  BY <1>7 DEF d

\* The strengthening of TimingCurrent: where the latest readout is in time.
TimingInv ==
  /\ now \in Nat
  /\ latestTDC # None =>
       /\ latestTDC \in Nat
       /\ PulseTime(latestTDC) <= now
       /\ now <= PulseTime(latestTDC + MaxLost + 1) + Delay
  /\ lastTDCData # None <=> latestTDC # None
  /\ TimingCurrent

\* The pulse of a readout that arrives is the latest one's or one of the next.
LEMMA ArrivesNext ==
  ASSUME FewLost, TimingInv, latestTDC # None, NEW k \in Pulses, arrives(k)
  PROVE  latestTDC <= k /\ k <= latestTDC + MaxLost + 1
<1> DEFINE j == latestTDC  m == latestTDC + MaxLost + 1
<1>1. /\ j \in Nat /\ k \in Nat /\ m \in Nat /\ m + 1 \in Nat /\ now \in Nat
      /\ Period \in Nat /\ Delay \in Nat /\ Delay < Period
  BY Timepix3Assumption DEF TimingInv, FewLost, Pulses
<1>2. /\ PulseTime(j) <= now /\ now <= PulseTime(m) + Delay
      /\ PulseTime(k) <= now /\ now <= PulseTime(k) + Delay
  BY DEF TimingInv, arrives
<1>3. PulseTime(j) \in Nat /\ PulseTime(k) \in Nat /\ PulseTime(m) \in Nat
  BY <1>1 DEF PulseTime
<1>4. k < j => PulseTime(k) + Period <= PulseTime(j)
  BY <1>1, PulsesApart
<1> HIDE DEF m
<1>5. m < k => PulseTime(m) + Period <= PulseTime(k)
  BY <1>1, PulsesApart
<1>6. ~(k < j) /\ ~(m < k)
  BY <1>1, <1>2, <1>3, <1>4, <1>5
<1> QED
  BY <1>1, <1>6 DEF m

LEMMA TimingInductive ==
  ASSUME FewLost, TimingInv, [Next]_vars
  PROVE  TimingInv'
<1>0. /\ Period \in Nat /\ Delay \in Nat /\ None \notin Nat /\ now \in Nat
  BY Timepix3Assumption DEF TimingInv
<1>1. ASSUME NEW k \in Pulses, TDCReadout(k)
      PROVE  TimingInv'
  <2>1. k \in Nat /\ now' = now /\ latestTDC' = k /\ arrives(k)
    BY <1>1 DEF TDCReadout, Pulses
  <2>2. PulseTime(k) <= now /\ now <= PulseTime(k + MaxLost + 1) + Delay
    <3>1. k + MaxLost + 1 \in Nat /\ k < k + MaxLost + 1
      BY <2>1 DEF FewLost
    <3>2. PulseTime(k) + Period <= PulseTime(k + MaxLost + 1)
      BY <2>1, <3>1, PulsesApart
    <3>3. PulseTime(k) \in Nat /\ PulseTime(k + MaxLost + 1) \in Nat
      BY <1>0, <2>1, <3>1 DEF PulseTime
    <3> HIDE DEF PulseTime
    <3> QED
      BY <1>0, <2>1, <3>2, <3>3 DEF arrives
  <2>3. lastTDCData' # None /\ lastTDCData'.pulse = k
    <3>1. CASE lastTDCData # None /\ dropped(TDCCounter(lastTDCData.pulse), TDCCounter(k))
      <4>1. lastTDCData' = lastTDCData /\ lastTDCData.pulse = latestTDC
            /\ latestTDC # None /\ latestTDC \in Nat
        BY <1>1, <3>1 DEF TDCReadout, TimingInv, TimingCurrent
      <4>2. latestTDC <= k /\ k <= latestTDC + MaxLost + 1
        BY <2>1, <4>1, ArrivesNext
      <4>3. k = latestTDC
        BY <2>1, <3>1, <4>1, <4>2, LaterIsKept
      <4> QED
        BY <3>1, <4>1, <4>3
    <3>2. CASE ~(lastTDCData # None /\ dropped(TDCCounter(lastTDCData.pulse), TDCCounter(k)))
      <4>1. lastTDCData' = [pulse |-> k, arrival |-> now]
        BY <1>1, <3>2 DEF TDCReadout
      <4>2. lastTDCData' # None
        BY <1>0, <2>1, <4>1, Timepix3Assumption
      <4> QED
        BY <4>1, <4>2
    <3> QED
      BY <3>1, <3>2
  <2> QED
    BY <1>0, <2>1, <2>2, <2>3 DEF TimingInv, TimingCurrent
<1>2. CASE UNCHANGED <<now, lastTDCData, latestTDC>>
  BY <1>2 DEF TimingInv, TimingCurrent
<1>3. ASSUME NEW k \in Pulses, EVRReadout(k)
      PROVE  UNCHANGED <<now, lastTDCData, latestTDC>>
  BY <1>3 DEF EVRReadout
<1>4. ASSUME Tick
      PROVE  TimingInv'
  <2>1. now' = now + 1 /\ UNCHANGED <<lastTDCData, latestTDC>>
        /\ (latestTDC # None => now < PulseTime(latestTDC + MaxLost + 1) + Delay)
    BY <1>4 DEF Tick, timing
  <2>2. latestTDC # None =>
          PulseTime(latestTDC) \in Nat /\ PulseTime(latestTDC + MaxLost + 1) \in Nat
    BY <1>0 DEF PulseTime, TimingInv, FewLost
  <2> QED
    BY <1>0, <2>1, <2>2 DEF TimingInv, TimingCurrent
<1>5. ASSUME NEW t \in 0 .. MaxTime, NEW place \in Places, NEW weight \in Weights,
             PixelReadout(t, place, weight)
      PROVE  UNCHANGED <<now, lastTDCData, latestTDC>>
  BY <1>5 DEF PixelReadout, timing
<1>6. ASSUME clusters # <<>>, publishEvent(Head(clusters))
      PROVE  UNCHANGED <<now, lastTDCData, latestTDC>>
  BY <1>6 DEF publishEvent, timing
<1>7. CASE OtherReadout \/ processReadouts \/ Timeout \/ UNCHANGED vars
  BY <1>2, <1>7 DEF OtherReadout, processReadouts, Timeout, vars, timing
<1> QED
  BY <1>1, <1>2, <1>3, <1>4, <1>5, <1>6, <1>7 DEF Next

\* With at most one readout lost in a row the last TDC readout accepted is of
\* the latest pulse that was reported, over duplicates, delays and every wrap of
\* the trigger counter (TimingEventHandler::applyData).
THEOREM Current == FewLost => (Spec => []TimingCurrent)
<1> SUFFICES ASSUME FewLost PROVE Spec => []TimingCurrent
  OBVIOUS
<1>1. Init => TimingInv
  BY Timepix3Assumption DEF Init, TimingInv, TimingCurrent
<1>2. TimingInv /\ [Next]_vars => TimingInv'
  BY TimingInductive
<1>3. TimingInv => TimingCurrent
  BY DEF TimingInv
<1> QED
  BY <1>1, <1>2, <1>3, PTL DEF Spec
-----------------------------------------------------------------------------
\* The elements of a sequence are related to those after them.
ordered(s, R) == \A i, j \in DOMAIN s : i < j => <<s[i], s[j]>> \in R
\* Those of one sequence are related to all of another.
before(s, t, R) == \A i \in DOMAIN s, j \in DOMAIN t : <<s[i], t[j]>> \in R
\* Every element of s is one of t's.
within(s, t) == \A i \in DOMAIN s : \E j \in DOMAIN t : s[i] = t[j]

LEMMA ConcatOrdered ==
  ASSUME NEW T, NEW R, NEW s \in Seq(T), NEW t \in Seq(T),
         ordered(s, R), ordered(t, R), before(s, t, R)
  PROVE  /\ s \o t \in Seq(T) /\ ordered(s \o t, R)
         /\ \A i \in DOMAIN (s \o t) :
              \/ i \in DOMAIN s /\ (s \o t)[i] = s[i]
              \/ i - Len(s) \in DOMAIN t /\ (s \o t)[i] = t[i - Len(s)]
<1> DEFINE u == s \o t
<1>1. /\ u \in Seq(T) /\ DOMAIN s = 1 .. Len(s) /\ DOMAIN t = 1 .. Len(t)
      /\ DOMAIN u = 1 .. Len(s) + Len(t) /\ Len(s) \in Nat /\ Len(t) \in Nat
  OBVIOUS
<1>2. ASSUME NEW i \in DOMAIN u
      PROVE  IF i <= Len(s) THEN i \in DOMAIN s /\ u[i] = s[i]
                            ELSE i - Len(s) \in DOMAIN t /\ u[i] = t[i - Len(s)]
  BY <1>1
<1> HIDE DEF u
<1>3. ASSUME NEW i \in DOMAIN u, NEW j \in DOMAIN u, i < j
      PROVE  <<u[i], u[j]>> \in R
  <2>1. CASE j <= Len(s)
    BY <1>1, <1>2, <1>3, <2>1 DEF ordered
  <2>2. CASE i <= Len(s) /\ ~(j <= Len(s))
    BY <1>1, <1>2, <1>3, <2>2 DEF before
  <2>3. CASE ~(i <= Len(s))
    BY <1>1, <1>2, <1>3, <2>3 DEF ordered
  <2> QED
    BY <1>1, <1>3, <2>1, <2>2, <2>3
<1> QED
  BY <1>1, <1>2, <1>3 DEF u, ordered

\* Sequences of related elements, the elements of each related to those of the
\* later ones, flatten to one sequence of related elements.
LEMMA FlattenOrdered ==
  ASSUME NEW T, NEW R, NEW seqs \in Seq(Seq(T)),
         \A n \in DOMAIN seqs : ordered(seqs[n], R),
         \A m, n \in DOMAIN seqs : m < n => before(seqs[m], seqs[n], R)
  PROVE  /\ FlattenSeq(seqs) \in Seq(T) /\ ordered(FlattenSeq(seqs), R)
         /\ \A i \in DOMAIN FlattenSeq(seqs) : \E n \in DOMAIN seqs :
              \E j \in DOMAIN seqs[n] : FlattenSeq(seqs)[i] = seqs[n][j]
<1> DEFINE n == Len(seqs)  S == Seq(T)
<1>1. n \in Nat /\ DOMAIN seqs = 1 .. n /\ \A i \in 1 .. n : seqs[i] \in S
  OBVIOUS
<1>2. PICK upTo : Flattening(upTo, seqs, T) /\ FlattenSeq(seqs) = upTo[n]
  BY FlattensUp, Zenon
<1>3. /\ upTo[0] = <<>>
      /\ \A k \in 0 .. n : upTo[k] \in S
      /\ \A k \in 0 .. n : k < n => upTo[k + 1] = upTo[k] \o seqs[k + 1]
  BY <1>2 DEF Flattening
<1> DEFINE good(k) == /\ ordered(upTo[k], R)
                      /\ \A i \in DOMAIN upTo[k] : \E m \in 1 .. k :
                           \E j \in DOMAIN seqs[m] : upTo[k][i] = seqs[m][j]
           F == {k \in 0 .. n : good(k)}
<1>4. good(0)
  <2>1. DOMAIN <<>> = {}
    OBVIOUS
  <2>2. DOMAIN upTo[0] = {}
    BY <1>3, <2>1
  <2> QED BY <2>2 DEF ordered
<1>5. ASSUME NEW k \in F, k < n PROVE k + 1 \in F
  <2> DEFINE s == upTo[k]  t == seqs[k + 1]  u == upTo[k + 1]
  <2>1. k \in 0 .. n /\ k \in Nat /\ k + 1 \in 1 .. n /\ k + 1 \in 0 .. n /\ good(k)
    BY <1>1, <1>5
  <2> HIDE DEF F
  <2>2. before(s, t, R)
    <3>1. ASSUME NEW i \in DOMAIN s, NEW j \in DOMAIN t
          PROVE  <<s[i], t[j]>> \in R
      <4>1. PICK m \in 1 .. k : \E l \in DOMAIN seqs[m] : s[i] = seqs[m][l]
        BY <2>1
      <4>2. m \in DOMAIN seqs /\ k + 1 \in DOMAIN seqs /\ m < k + 1
        <5> HIDE DEF n
        <5> QED BY <1>1, <2>1
      <4>3. before(seqs[m], t, R)
        BY <4>2
      <4> HIDE DEF s, t
      <4> QED BY <4>1, <4>3 DEF before
    <3> HIDE DEF s, t
    <3> QED BY <3>1 DEF before
  <2>3. s \in Seq(T) /\ t \in Seq(T) /\ ordered(s, R) /\ ordered(t, R) /\ u = s \o t
    BY <1>1, <1>3, <1>5, <2>1
  <2>4. /\ ordered(u, R)
        /\ \A i \in DOMAIN u :
             \/ i \in DOMAIN s /\ u[i] = s[i]
             \/ \E j \in DOMAIN t : u[i] = t[j]
    <3> HIDE DEF s, t, u, good
    <3>1. /\ ordered(s \o t, R)
          /\ \A i \in DOMAIN (s \o t) :
               \/ i \in DOMAIN s /\ (s \o t)[i] = s[i]
               \/ i - Len(s) \in DOMAIN t /\ (s \o t)[i] = t[i - Len(s)]
      BY <2>2, <2>3, ConcatOrdered
    <3> QED BY <2>3, <3>1
  <2>5. ASSUME NEW i \in DOMAIN u
        PROVE  \E m \in 1 .. k + 1 : \E j \in DOMAIN seqs[m] : u[i] = seqs[m][j]
    <3>1. CASE i \in DOMAIN s /\ u[i] = s[i]
      <4>1. PICK m \in 1 .. k : \E j \in DOMAIN seqs[m] : s[i] = seqs[m][j]
        BY <2>1, <3>1
      <4>2. m \in 1 .. k + 1
        BY <2>1
      <4> HIDE DEF u, s
      <4> QED BY <3>1, <4>1, <4>2
    <3>2. CASE \E j \in DOMAIN t : u[i] = t[j]
      <4>1. k + 1 \in 1 .. k + 1
        BY <2>1
      <4> HIDE DEF u
      <4> QED BY <3>2, <4>1
    <3> QED
      BY <2>4, <3>1, <3>2
  <2>6. good(k + 1)
    BY <2>4, <2>5
  <2> HIDE DEF good
  <2> QED BY <2>1, <2>6 DEF F
<1>6. good(n)
  <2> HIDE DEF good
  <2>1. F \in SUBSET (0 .. n) /\ 0 \in F
    BY <1>1, <1>4
  <2>2. n \in F
    <3> HIDE DEF F, n
    <3>1. F = 0 .. n
      BY <1>1, <1>5, <2>1, NumbersUpTo
    <3> QED BY <1>1, <3>1
  <2> HIDE DEF n
  <2> QED BY <2>2
<1>7. upTo[n] \in Seq(T) /\ DOMAIN seqs = 1 .. n
  BY <1>1, <1>3
<1> HIDE DEF n, S
<1>8. /\ upTo[n] \in Seq(T) /\ ordered(upTo[n], R)
      /\ \A i \in DOMAIN upTo[n] : \E m \in DOMAIN seqs :
           \E j \in DOMAIN seqs[m] : upTo[n][i] = seqs[m][j]
  BY <1>6, <1>7
<1> QED
  BY <1>2, <1>8
-----------------------------------------------------------------------------
Hits == [time : Int, x : Nat, y : Nat, weight : Weights, at : Nat, id : Nat \X Nat]

samePlace(g, h) == g.x = h.x /\ g.y = h.y

\* Two hits that clusters may not share.
apart(g, h) ==
  /\ g.id # h.id
  /\ samePlace(g, h) => g.time - h.time \notin -MaxTimeGap .. MaxTimeGap

Distinct == {p \in Hits \X Hits : p[1].id # p[2].id}
Later == {p \in Distinct : p[2].time - p[1].time > MaxTimeGap}

\* Sorting keeps the hits and what tells them apart.
LEMMA Sorted ==
  ASSUME NEW hits \in Seq(Hits), ordered(hits, Distinct),
         NEW s \in sort_chronologically(hits)
  PROVE  /\ s \in Seq(Hits) /\ ordered(s, Distinct)
         /\ chronological(s) /\ within(s, hits)
<1> DEFINE D == DOMAIN hits
<1>1. PICK p \in Bijection(D, D) : s = [i \in D |-> hits[p[i]]]
  BY DEF sort_chronologically
<1>2. chronological(s)
  BY DEF sort_chronologically
<1>3. p \in [D -> D] /\ \A i, j \in D : p[i] = p[j] => i = j
  BY <1>1 DEF Bijection, Injection, IsInjective
<1>4. D = 1 .. Len(hits) /\ Len(hits) \in Nat /\ \A i \in D : hits[i] \in Hits
  OBVIOUS
<1>5. s \in [1 .. Len(hits) -> Hits] /\ DOMAIN s = D
  <2> HIDE DEF D
  <2> QED BY <1>1, <1>3, <1>4
<1>6. s \in Seq(Hits)
  BY <1>4, <1>5
<1>7. ASSUME NEW i \in D, NEW j \in D, i < j
      PROVE  <<s[i], s[j]>> \in Distinct
  <2>1. /\ s[i] = hits[p[i]] /\ s[j] = hits[p[j]] /\ p[i] \in D /\ p[j] \in D
        /\ p[i] # p[j] /\ p[i] \in Int /\ p[j] \in Int
    <3> HIDE DEF D
    <3>1. i # j
      BY <1>4, <1>7
    <3> QED BY <1>1, <1>3, <1>4, <3>1
  <2>2. <<hits[p[i]], hits[p[j]]>> \in Distinct \/ <<hits[p[j]], hits[p[i]]>> \in Distinct
    BY <2>1 DEF ordered
  <2>3. hits[p[i]] \in Hits /\ hits[p[j]] \in Hits
    BY <1>4, <2>1
  <2> HIDE DEF D
  <2> QED BY <2>1, <2>2, <2>3 DEF Distinct
<1> HIDE DEF D
<1> QED
  BY <1>1, <1>2, <1>3, <1>5, <1>6, <1>7 DEF ordered, within, D

\* What insert() has made of the first k hits: sequences each of hits in order,
\* far in time from those before them, the last of which ends with hit k.
SplitInTime(hits, k, ts) ==
  /\ ts \in Seq(Seq(Hits))
  /\ \A m \in DOMAIN ts :
       /\ ordered(ts[m], Distinct)
       /\ \A i \in DOMAIN ts[m] : \E a \in 1 .. k : ts[m][i] = hits[a]
  /\ \A m, n \in DOMAIN ts : m < n => before(ts[m], ts[n], Later)
  /\ k = 0 => ts = <<>>
  /\ k > 0 => ts # <<>> /\ ts[Len(ts)] # <<>> /\ Last(Last(ts)) = hits[k]

inserted(ts, h) ==
  IF ts = <<>> \/ farInTime(h, Last(Last(ts)))
  THEN Append(ts, <<h>>)
  ELSE [ts EXCEPT ![Len(ts)] = Append(@, h)]

LEMMA InsertSplits ==
  ASSUME NEW hits \in Seq(Hits), ordered(hits, Distinct), chronological(hits),
         NEW k \in Nat, k < Len(hits), NEW ts, SplitInTime(hits, k, ts)
  PROVE  SplitInTime(hits, k + 1, inserted(ts, hits[k + 1]))
<1> DEFINE h == hits[k + 1]  n == Len(ts)
<1>1. /\ k + 1 \in DOMAIN hits /\ h \in Hits /\ h.time \in Int /\ k + 1 \in Nat
      /\ MaxTimeGap \in Nat
  <2>1. k + 1 \in DOMAIN hits /\ k + 1 \in Nat
    OBVIOUS
  <2>2. h \in Hits
    BY <2>1
  <2>3. h.time \in Int
    <3> HIDE DEF h
    <3> QED BY <2>2 DEF Hits
  <2> QED
    BY <2>1, <2>2, <2>3, ClustererAssumption
<1>2. /\ ts \in Seq(Seq(Hits)) /\ n \in Nat /\ DOMAIN ts = 1 .. n
      /\ \A m \in DOMAIN ts : ts[m] \in Seq(Hits)
  BY DEF SplitInTime
<1>3. ASSUME NEW a \in 1 .. k
      PROVE  /\ hits[a] \in Hits /\ hits[a].time \in Int
             /\ <<hits[a], h>> \in Distinct /\ hits[a].time <= h.time
  <2>1. a \in DOMAIN hits /\ a < k + 1 /\ hits[a] \in Hits
    OBVIOUS
  <2> QED BY <1>1, <2>1 DEF ordered, chronological, Hits
<1>4. ASSUME NEW m \in DOMAIN ts, NEW i \in DOMAIN ts[m]
      PROVE  \E a \in 1 .. k : ts[m][i] = hits[a]
  BY DEF SplitInTime
<1>5. \A a \in 1 .. k : a \in 1 .. k + 1
  OBVIOUS
<1>6. k + 1 \in 1 .. k + 1
  OBVIOUS
<1>7. CASE ts = <<>> \/ farInTime(h, Last(Last(ts)))
  <2> DEFINE us == Append(ts, <<h>>)
  <2>1. /\ us \in Seq(Seq(Hits)) /\ Len(us) = n + 1 /\ DOMAIN us = 1 .. (n + 1)
        /\ us[n + 1] = <<h>> /\ \A m \in 1 .. n : us[m] = ts[m]
    BY <1>1, <1>2
  <2>2. inserted(ts, h) = us
    BY <1>7 DEF inserted
  <2>3. \A a \in 1 .. k : ts # <<>> => h.time - hits[a].time > MaxTimeGap
    <3> SUFFICES ASSUME NEW a \in 1 .. k, ts # <<>> PROVE h.time - hits[a].time > MaxTimeGap
      OBVIOUS
    <3>1. k > 0 /\ k \in 1 .. k
      OBVIOUS
    <3>2. Last(Last(ts)) = hits[k] /\ farInTime(h, hits[k])
      BY <1>7, <3>1 DEF SplitInTime
    <3>3. hits[a].time <= hits[k].time /\ hits[a].time \in Int /\ hits[k].time \in Int
          /\ hits[k].time <= h.time
      <4>1. hits[a].time \in Int /\ hits[k].time \in Int /\ hits[k].time <= h.time
        BY <1>3, <3>1
      <4>2. CASE a = k
        BY <4>1, <4>2
      <4>3. CASE a # k
        <5>1. a \in DOMAIN hits /\ k \in DOMAIN hits /\ a < k
          BY <3>1, <4>3
        <5> QED BY <4>1, <5>1 DEF chronological
      <4> QED BY <4>2, <4>3
    <3> HIDE DEF h
    <3> QED
      BY <1>1, <3>2, <3>3 DEF farInTime
  <2>4. ASSUME NEW m \in 1 .. n PROVE before(ts[m], <<h>>, Later)
    <3>1. ASSUME NEW i \in DOMAIN ts[m] PROVE <<ts[m][i], h>> \in Later
      <4>1. PICK a \in 1 .. k : ts[m][i] = hits[a]
        BY <1>2, <1>4
      <4>2. ts # <<>>
        BY <1>2
      <4> HIDE DEF h, n
      <4> QED BY <1>3, <2>3, <4>1, <4>2 DEF Later
    <3>2. DOMAIN <<h>> = {1} /\ <<h>>[1] = h
      OBVIOUS
    <3> HIDE DEF h, n
    <3> QED BY <3>1, <3>2 DEF before
  <2>5. ordered(<<h>>, Distinct)
    BY DEF ordered
  <2>6. ASSUME NEW m \in DOMAIN us
        PROVE  /\ ordered(us[m], Distinct)
               /\ \A i \in DOMAIN us[m] : \E a \in 1 .. k + 1 : us[m][i] = hits[a]
    <3>1. CASE m = n + 1
      <4>1. us[m] = <<h>> /\ DOMAIN <<h>> = {1} /\ <<h>>[1] = h
        BY <2>1, <3>1
      <4> QED BY <1>6, <2>5, <4>1
    <3>2. CASE m \in 1 .. n
      <4>1. us[m] = ts[m] /\ m \in DOMAIN ts
        BY <1>2, <2>1, <3>2
      <4>2. ordered(ts[m], Distinct)
        BY <4>1 DEF SplitInTime
      <4> HIDE DEF us, n
      <4> QED BY <1>4, <1>5, <4>1, <4>2
    <3>3. m = n + 1 \/ m \in 1 .. n
      <4> HIDE DEF us, n
      <4> QED BY <1>2, <2>1
    <3> QED BY <3>1, <3>2, <3>3
  <2>7. ASSUME NEW l \in DOMAIN us, NEW m \in DOMAIN us, l < m
        PROVE  before(us[l], us[m], Later)
    <3>1. l \in 1 .. n /\ us[l] = ts[l] /\ (m = n + 1 \/ m \in 1 .. n)
      BY <1>2, <2>1, <2>7
    <3>2. CASE m = n + 1
      BY <2>1, <2>4, <3>1, <3>2
    <3>3. CASE m \in 1 .. n
      <4>1. before(ts[l], ts[m], Later)
        BY <1>2, <2>7, <3>1, <3>3 DEF SplitInTime
      <4> QED BY <2>1, <3>1, <3>3, <4>1
    <3> QED BY <3>1, <3>2, <3>3
  <2>8. us # <<>> /\ us[Len(us)] # <<>> /\ Last(Last(us)) = h
    <3>1. Len(us) = n + 1 /\ us[n + 1] = <<h>>
      BY <2>1
    <3>2. us # <<>>
      <4> HIDE DEF us, n
      <4> QED BY <1>2, <3>1
    <3> HIDE DEF us
    <3> QED BY <3>1, <3>2 DEF Last
  <2>9. SplitInTime(hits, k + 1, us)
    <3> HIDE DEF us, n
    <3> QED BY <1>1, <2>1, <2>6, <2>7, <2>8 DEF SplitInTime
  <2> HIDE DEF us
  <2> QED
    BY <2>2, <2>9
<1>8. CASE ~(ts = <<>> \/ farInTime(h, Last(Last(ts))))
  <2> DEFINE t == ts[n]  u == Append(t, h)  us == [ts EXCEPT ![n] = u]
  <2>1. n \in 1 .. n /\ n \in DOMAIN ts /\ t \in Seq(Hits)
    <3>1. n # 0
      BY <1>2, <1>8
    <3> QED BY <1>2, <3>1
  <2>2. u \in Seq(Hits) /\ Len(u) = Len(t) + 1 /\ DOMAIN u = 1 .. (Len(t) + 1)
        /\ u[Len(t) + 1] = h /\ DOMAIN t = 1 .. Len(t) /\ Len(t) \in Nat
        /\ \A i \in 1 .. Len(t) : u[i] = t[i]
    <3> HIDE DEF t, h
    <3> QED BY <1>1, <2>1
  <2>3. /\ us \in Seq(Seq(Hits)) /\ Len(us) = n /\ DOMAIN us = 1 .. n
        /\ us[n] = u /\ \A m \in 1 .. n : m # n => us[m] = ts[m]
    <3> HIDE DEF u
    <3> QED BY <1>2, <2>1, <2>2
  <2>4. inserted(ts, h) = us
    BY <1>8 DEF inserted
  <2>5. k > 0
    BY <1>8 DEF SplitInTime
  <2>6. t # <<>> /\ t[Len(t)] = hits[k] /\ k \in 1 .. k
    BY <2>5 DEF SplitInTime, Last
  <2>7. ordered(t, Distinct)
    BY <2>1 DEF SplitInTime
  <2>8. \A i \in DOMAIN t : \E a \in 1 .. k : t[i] = hits[a]
    BY <1>4, <2>1
  <2>9. ordered(u, Distinct)
    <3> SUFFICES ASSUME NEW i \in DOMAIN u, NEW j \in DOMAIN u, i < j
                 PROVE  <<u[i], u[j]>> \in Distinct
      BY DEF ordered
    <3>1. i \in DOMAIN t /\ u[i] = t[i] /\ (j = Len(t) + 1 \/ j \in DOMAIN t)
      <4> HIDE DEF t, u
      <4> QED BY <2>2
    <3>2. CASE j = Len(t) + 1
      <4>1. PICK a \in 1 .. k : t[i] = hits[a]
        BY <2>8, <3>1
      <4>2. u[j] = h
        BY <2>2, <3>2
      <4> HIDE DEF t, u, h
      <4> QED BY <1>3, <3>1, <4>1, <4>2
    <3>3. CASE j \in DOMAIN t
      <4> HIDE DEF t, u
      <4> QED BY <2>2, <2>7, <3>1, <3>3 DEF ordered
    <3> QED BY <3>1, <3>2, <3>3
  <2>10. \A i \in DOMAIN u : \E a \in 1 .. k + 1 : u[i] = hits[a]
    <3> SUFFICES ASSUME NEW i \in DOMAIN u PROVE \E a \in 1 .. k + 1 : u[i] = hits[a]
      OBVIOUS
    <3>1. CASE i = Len(t) + 1
      BY <1>6, <2>2, <3>1
    <3>2. CASE i \in DOMAIN t
      <4> HIDE DEF u, t
      <4> QED BY <1>5, <2>2, <2>8, <3>2
    <3> HIDE DEF u, t
    <3> QED BY <2>2, <3>1, <3>2
  <2>11. ASSUME NEW m \in 1 .. n, m < n PROVE before(ts[m], u, Later)
    <3>1. before(ts[m], t, Later)
      BY <1>2, <2>1, <2>11 DEF SplitInTime
    <3>2. ASSUME NEW i \in DOMAIN ts[m], NEW j \in DOMAIN u
          PROVE  <<ts[m][i], u[j]>> \in Later
      <4>1. CASE j = Len(t) + 1
        <5>1. PICK a \in 1 .. k : ts[m][i] = hits[a]
          BY <1>2, <1>4
        <5>2. Len(t) \in DOMAIN t
          <6> HIDE DEF t
          <6> QED BY <2>1, <2>2, <2>6
        <5>3. <<hits[a], hits[k]>> \in Later
          BY <2>6, <3>1, <5>1, <5>2 DEF before
        <5>4. hits[k].time - hits[a].time > MaxTimeGap
          BY <5>3 DEF Later
        <5>5. h.time - hits[a].time > MaxTimeGap
          <6>1. /\ hits[a].time \in Int /\ hits[k].time \in Int
                /\ hits[k].time <= h.time /\ h.time \in Int
            BY <1>1, <1>3, <2>6
          <6>2. MaxTimeGap \in Int
            BY <1>1
          <6> HIDE DEF h
          <6> QED BY ONLY <5>4, <6>1, <6>2
        <5>6. u[j] = h
          BY <2>2, <4>1
        <5> HIDE DEF h, u
        <5> QED BY <1>3, <5>1, <5>5, <5>6 DEF Later
      <4>2. CASE j \in DOMAIN t
        <5>1. u[j] = t[j]
          BY <2>2, <4>2
        <5> HIDE DEF t, u
        <5> QED BY <3>1, <4>2, <5>1 DEF before
      <4> HIDE DEF t, u
      <4> QED BY <2>2, <4>1, <4>2
    <3> HIDE DEF u
    <3> QED BY <3>2 DEF before
  <2>12. ASSUME NEW m \in DOMAIN us
         PROVE  /\ ordered(us[m], Distinct)
                /\ \A i \in DOMAIN us[m] : \E a \in 1 .. k + 1 : us[m][i] = hits[a]
    <3>1. CASE m = n
      <4> HIDE DEF u, us
      <4> QED BY <2>3, <2>9, <2>10, <3>1
    <3>2. CASE m # n
      <4>1. us[m] = ts[m] /\ m \in DOMAIN ts
        BY <1>2, <2>3, <3>2
      <4>2. ordered(ts[m], Distinct)
        BY <4>1 DEF SplitInTime
      <4> HIDE DEF us, n
      <4> QED BY <1>4, <1>5, <4>1, <4>2
    <3> QED BY <3>1, <3>2
  <2>13. ASSUME NEW l \in DOMAIN us, NEW m \in DOMAIN us, l < m
         PROVE  before(us[l], us[m], Later)
    <3>1. l \in 1 .. n /\ m \in 1 .. n /\ l < n /\ us[l] = ts[l]
      <4> HIDE DEF u, us, n
      <4> QED BY <1>2, <2>3, <2>13
    <3>2. CASE m = n
      <4> HIDE DEF u, us
      <4> QED BY <2>3, <2>11, <3>1, <3>2
    <3>3. CASE m # n
      <4>1. before(ts[l], ts[m], Later)
        BY <1>2, <2>13, <3>1 DEF SplitInTime
      <4> HIDE DEF u, us
      <4> QED BY <2>3, <3>1, <3>3, <4>1
    <3> QED BY <3>2, <3>3
  <2>14. us # <<>> /\ us[Len(us)] # <<>> /\ Last(Last(us)) = h
    <3>1. us[Len(us)] = u /\ us # <<>> /\ u # <<>> /\ u[Len(u)] = h
      <4> HIDE DEF u
      <4> QED BY <1>2, <2>1, <2>2, <2>3
    <3> HIDE DEF us, u, h
    <3> QED BY <3>1 DEF Last
  <2>15. SplitInTime(hits, k + 1, us)
    <3> HIDE DEF us, u, n
    <3> QED BY <1>1, <2>3, <2>12, <2>13, <2>14 DEF SplitInTime
  <2> HIDE DEF us
  <2> QED
    BY <2>4, <2>15
<1> QED
  BY <1>7, <1>8

\* The hits in order are split at every gap in time.
LEMMA TimeClustersSplit ==
  ASSUME NEW hits \in Seq(Hits), ordered(hits, Distinct), chronological(hits)
  PROVE  SplitInTime(hits, Len(hits), timeClusters(hits))
<1> DEFINE n == Len(hits)  D == 1 .. n  S == Seq(Seq(Hits))
           step == [q \in D \X S |-> inserted(q[2], hits[q[1]])]
           P(g) == g = [s \in SUBSET D |->
                          IF s = {} THEN <<>> ELSE inserted(g[s \ {Max(s)}], hits[Max(s)])]
           iter == CHOOSE g : P(g)
<1>1. n \in Nat /\ DOMAIN hits = D /\ \A i \in D : hits[i] \in Hits
  OBVIOUS
<1>2. <<>> \in S
  OBVIOUS
<1>3. ASSUME NEW ts \in S, NEW h \in Hits
      PROVE  inserted(ts, h) \in S
  <2>1. <<h>> \in Seq(Hits)
    OBVIOUS
  <2>2. CASE ts = <<>> \/ farInTime(h, Last(Last(ts)))
    <3>1. inserted(ts, h) = Append(ts, <<h>>)
      BY <2>2 DEF inserted
    <3> QED BY <2>1, <3>1
  <2>3. CASE ~(ts = <<>> \/ farInTime(h, Last(Last(ts))))
    <3>1. inserted(ts, h) = [ts EXCEPT ![Len(ts)] = Append(ts[Len(ts)], h)]
      BY <2>3 DEF inserted
    <3>2. Len(ts) \in DOMAIN ts /\ ts[Len(ts)] \in Seq(Hits)
      BY <2>3
    <3>3. Append(ts[Len(ts)], h) \in Seq(Hits)
      BY <3>2
    <3> QED BY <3>1, <3>2, <3>3
  <2> QED BY <2>2, <2>3
<1>4. step \in [D \X S -> S]
  <2> HIDE DEF D, S
  <2>1. \A q \in D \X S : inserted(q[2], hits[q[1]]) \in S
    BY <1>1, <1>3
  <2> QED BY <2>1
<1>5. \A i \in D, ts \in S : step[<<i, ts>>] = inserted(ts, hits[i])
  <2> HIDE DEF D, S
  <2> QED OBVIOUS
<1>6. \A s \in SUBSET D : s # {} => Max(s) \in D /\ s \ {Max(s)} \in SUBSET D
  <2> HIDE DEF n
  <2>1. \A s \in SUBSET D : s # {} => Max(s) \in s
    BY <1>1, MaxIsLargest
  <2> QED BY <2>1
<1> HIDE DEF S, step
<1>7. PICK g \in [SUBSET D -> S] : FoldingLeft(g, n, <<>>, step)
  <2>1. n \in Nat
    BY <1>1
  <2> HIDE DEF n
  <2> QED BY ONLY <1>2, <1>4, <2>1, FoldsLeft
<1>8. P(g)
  <2>1. ASSUME NEW s \in SUBSET D
        PROVE  g[s] = IF s = {} THEN <<>> ELSE inserted(g[s \ {Max(s)}], hits[Max(s)])
    <3>1. s # {} => step[<<Max(s), g[s \ {Max(s)}]>>] = inserted(g[s \ {Max(s)}], hits[Max(s)])
      <4> HIDE DEF D
      <4> QED BY <1>5, <1>6
    <3> QED BY <1>7, <3>1 DEF FoldingLeft
  <2> HIDE DEF D
  <2> QED BY <2>1
<1>9. P(iter)
  <2> HIDE DEF P
  <2> QED BY <1>8
<1>10. timeClusters(hits) = iter[D]
  BY <1>1 DEF timeClusters, FoldLeft, MapThenFoldSet, inserted
<1>11. \A s \in SUBSET D :
          iter[s] = IF s = {} THEN <<>> ELSE inserted(iter[s \ {Max(s)}], hits[Max(s)])
  <2> HIDE DEF iter, D
  <2> QED BY <1>9
<1> HIDE DEF iter
<1>12. TakingInTurn(iter, n, S, <<>>, step)
  <2>1. FoldingLeftIn(iter, n, S, <<>>, step)
    <3>1. iter[{}] = <<>>
      <4>1. {} \in SUBSET D
        OBVIOUS
      <4> HIDE DEF D
      <4> QED BY <1>11, <4>1
    <3>2. ASSUME NEW s \in SUBSET D, s # {}, iter[s \ {Max(s)}] \in S
          PROVE  iter[s] = step[<<Max(s), iter[s \ {Max(s)}]>>]
      <4> HIDE DEF D
      <4> QED BY <1>5, <1>6, <1>11, <3>2
    <3> QED BY <3>1, <3>2 DEF FoldingLeftIn
  <2>2. n \in Nat
    BY <1>1
  <2> HIDE DEF n
  <2> QED BY ONLY <1>2, <1>4, <2>1, <2>2, FoldsLeftUp
<1> DEFINE F == {k \in 0 .. n : SplitInTime(hits, k, iter[1 .. k])}
<1>13. 0 \in F
  <2>1. iter[1 .. 0] = <<>> /\ 0 \in 0 .. n
    BY <1>1, <1>12 DEF TakingInTurn
  <2>2. SplitInTime(hits, 0, <<>>)
    <3>1. <<>> \in Seq(Seq(Hits)) /\ DOMAIN <<>> = {} /\ ~(0 > 0)
      OBVIOUS
    <3> QED BY <3>1 DEF SplitInTime
  <2> QED BY <2>1, <2>2
<1>14. ASSUME NEW k \in F, k < n
       PROVE  k + 1 \in F
  <2>1. k \in Nat /\ k \in 0 .. n /\ k + 1 \in 0 .. n /\ k + 1 \in D /\ SplitInTime(hits, k, iter[1 .. k])
    BY <1>1, <1>14
  <2> HIDE DEF F
  <2>2. iter[1 .. (k + 1)] = step[<<k + 1, iter[1 .. k]>>] /\ iter[1 .. k] \in S
    BY <1>12, <1>14, <2>1 DEF TakingInTurn
  <2>3. iter[1 .. (k + 1)] = inserted(iter[1 .. k], hits[k + 1])
    BY <1>5, <2>1, <2>2
  <2>4. SplitInTime(hits, k + 1, inserted(iter[1 .. k], hits[k + 1]))
    BY <1>14, <2>1, InsertSplits
  <2> HIDE DEF n
  <2> QED BY <2>1, <2>3, <2>4 DEF F
<1>15. n \in F
  <2>1. F \in SUBSET (0 .. n)
    OBVIOUS
  <2>2. F = 0 .. n
    <3> HIDE DEF F, n
    <3> QED BY <1>1, <1>13, <1>14, <2>1, NumbersUpTo
  <2> HIDE DEF F, n
  <2> QED BY <1>1, <2>2
<1> HIDE DEF n
<1> QED
  BY <1>10, <1>15 DEF n

\* Hits of one place are near each other, and a hit near to one is near to all
\* of that place.
LEMMA NearSamePlace ==
  ASSUME MaxCoordGap > 0, NEW f \in Hits, NEW g \in Hits, NEW h \in Hits, samePlace(g, h)
  PROVE  near(g, h) /\ (near(f, g) => near(f, h))
<1>1. g.x = h.x /\ g.y = h.y /\ g.x \in Int /\ g.y \in Int
  BY DEF samePlace, Hits
<1>2. sqr(g.x - h.x) = 0 /\ sqr(g.y - h.y) = 0
  BY <1>1 DEF sqr
<1>3. sqr(MaxCoordGap) > 0
  <2>1. MaxCoordGap \in Nat
    BY ClustererAssumption
  <2> QED BY <2>1 DEF sqr
<1> QED
  BY <1>1, <1>2, <1>3 DEF near

\* With one hit a set has all hits of its place.
wholePlaces(hits, s) ==
  MaxCoordGap > 0 =>
    \A i \in s, j \in DOMAIN hits : samePlace(hits[i], hits[j]) => j \in s

Rounds(hits) == [visited : SUBSET (DOMAIN hits), clusters : Seq(SUBSET (DOMAIN hits))]

\* What the loop of cluster_by_x() has made after its first k rounds.
Clustered(hits, k, w) ==
  /\ w \in Rounds(hits) /\ 1 .. k \subseteq w.visited /\ wholePlaces(hits, w.visited)
  /\ \A c \in DOMAIN w.clusters :
       w.clusters[c] \subseteq w.visited /\ wholePlaces(hits, w.clusters[c])
  /\ \A c, d \in DOMAIN w.clusters : c < d => w.clusters[c] \cap w.clusters[d] = {}

LEMMA RoundClusters ==
  ASSUME NEW hits \in Seq(Hits), NEW k \in Nat, k < Len(hits), NEW w, Clustered(hits, k, w)
  PROVE  Clustered(hits, k + 1, startCluster(hits, w, k + 1))
<1> DEFINE i == k + 1  D == DOMAIN hits  new == spaceCluster(hits, i, w.visited)
<1>1. /\ D = 1 .. Len(hits) /\ Len(hits) \in Nat /\ i \in D /\ \A j \in D : hits[j] \in Hits
      /\ 1 .. i = (1 .. k) \cup {i}
  OBVIOUS
<1>2. w \in Rounds(hits) /\ w.visited \in SUBSET D /\ w.clusters \in Seq(SUBSET D)
  BY DEF Clustered, Rounds
<1>3. CASE i \in w.visited
  <2>1. startCluster(hits, w, i) = w
    BY <1>3 DEF startCluster
  <2>2. 1 .. i \subseteq w.visited
    <3> HIDE DEF i
    <3> QED BY <1>1, <1>3 DEF Clustered
  <2> QED
    BY <2>1, <2>2 DEF Clustered
<1>4. CASE i \notin w.visited
  <2>1. i \in new /\ new \in SUBSET D /\ \A j \in new : j # i => j \in i + 1 .. Len(hits)
                /\ j \notin w.visited /\ near(hits[i], hits[j])
    <3> HIDE DEF i
    <3> QED BY <1>1 DEF spaceCluster
  <2>2. ASSUME MaxCoordGap > 0, NEW a \in new, NEW j \in D, samePlace(hits[a], hits[j])
        PROVE  j \in new
    <3>0. a \in D /\ hits[i] \in Hits /\ hits[a] \in Hits /\ hits[j] \in Hits
      <4> HIDE DEF new, i, D
      <4> QED BY <1>1, <2>1
    <3>1. samePlace(hits[j], hits[a])
      BY <2>2 DEF samePlace
    <3>2. j \notin w.visited
      <4>1. j \in w.visited => a \in w.visited
        <5> HIDE DEF new, i
        <5> QED BY <2>2, <3>0, <3>1 DEF Clustered, wholePlaces
      <4>2. a \notin w.visited
        <5> HIDE DEF new, i
        <5> QED BY <1>4, <2>1
      <4> QED BY <4>1, <4>2
    <3>3. j \notin 1 .. k
      BY <3>2 DEF Clustered
    <3>4. CASE j = i
      <4> HIDE DEF new, i
      <4> QED BY <2>1, <3>4
    <3>5. CASE j # i
      <4>1. j \in i + 1 .. Len(hits)
        BY <1>1, <3>3, <3>5
      <4>2. near(hits[i], hits[j])
        <5>1. CASE a = i
          <6> HIDE DEF new, i
          <6> QED BY <2>2, <3>0, <5>1, NearSamePlace
        <5>2. CASE a # i
          <6>1. near(hits[i], hits[a])
            <7> HIDE DEF new, i
            <7> QED BY <2>1, <5>2
          <6> HIDE DEF new, i
          <6> QED BY <2>2, <3>0, <6>1, NearSamePlace
        <5> QED BY <5>1, <5>2
      <4> HIDE DEF i
      <4> QED BY <3>2, <4>1, <4>2 DEF spaceCluster
    <3> QED BY <3>4, <3>5
  <2> DEFINE visited == w.visited \cup new  grown == Append(w.clusters, new)
             v == [visited |-> visited, clusters |-> grown]
  <2>3. startCluster(hits, w, i) = v
    BY <1>4 DEF startCluster
  <2>4. wholePlaces(hits, new)
    <3> HIDE DEF new
    <3> QED BY <2>2 DEF wholePlaces
  <2>5. w.visited \cap new = {}
    <3> HIDE DEF new, i
    <3> QED BY <1>4, <2>1
  <2> HIDE DEF new
  <2>6. wholePlaces(hits, visited)
    BY <2>4 DEF wholePlaces, Clustered
  <2>7. 1 .. i \subseteq visited
    <3> HIDE DEF i
    <3> QED BY <1>1, <2>1 DEF Clustered
  <2> DEFINE n == Len(w.clusters)
  <2>8. /\ n \in Nat /\ DOMAIN w.clusters = 1 .. n /\ DOMAIN grown = 1 .. (n + 1)
        /\ grown[n + 1] = new /\ \A c \in 1 .. n : grown[c] = w.clusters[c]
        /\ grown \in Seq(SUBSET D)
    <3> HIDE DEF D, i
    <3> QED BY <1>2, <2>1
  <2>9. v \in Rounds(hits)
    <3>1. visited \in SUBSET D
      <4> HIDE DEF D, i
      <4> QED BY <1>2, <2>1
    <3> HIDE DEF visited, grown
    <3> QED BY <2>8, <3>1 DEF Rounds
  <2>10. ASSUME NEW c \in DOMAIN grown
         PROVE  grown[c] \subseteq visited /\ wholePlaces(hits, grown[c])
    <3>1. CASE c = n + 1
      <4> HIDE DEF grown, n
      <4> QED BY <2>4, <2>8, <3>1
    <3>2. CASE c \in 1 .. n
      <4>1. w.clusters[c] \subseteq w.visited /\ wholePlaces(hits, w.clusters[c])
        BY <2>8, <3>2 DEF Clustered
      <4> HIDE DEF grown, n
      <4> QED BY <2>8, <3>2, <4>1
    <3>3. c = n + 1 \/ c \in 1 .. n
      <4> HIDE DEF grown, n
      <4> QED BY <2>8
    <3> QED BY <3>1, <3>2, <3>3
  <2>11. ASSUME NEW c \in DOMAIN grown, NEW d \in DOMAIN grown, c < d
         PROVE  grown[c] \cap grown[d] = {}
    <3>1. c \in 1 .. n /\ (d = n + 1 \/ d \in 1 .. n)
      <4> HIDE DEF grown, n
      <4> QED BY <2>8, <2>11
    <3>2. grown[c] = w.clusters[c] /\ w.clusters[c] \subseteq w.visited
      BY <2>8, <3>1 DEF Clustered
    <3>3. CASE d = n + 1
      <4> HIDE DEF grown, n
      <4> QED BY <2>5, <2>8, <3>2, <3>3
    <3>4. CASE d \in 1 .. n
      <4>1. w.clusters[c] \cap w.clusters[d] = {}
        BY <2>8, <2>11, <3>1, <3>4 DEF Clustered
      <4> HIDE DEF grown, n
      <4> QED BY <2>8, <3>2, <3>4, <4>1
    <3> QED BY <3>1, <3>3, <3>4
  <2>12. v.visited = visited /\ v.clusters = grown
    OBVIOUS
  <2> HIDE DEF v, visited, grown
  <2>13. Clustered(hits, i, v)
    BY <2>6, <2>7, <2>9, <2>10, <2>11, <2>12 DEF Clustered
  <2> QED
    BY <2>3, <2>13
<1> QED
  BY <1>3, <1>4

\* The clusters of hits, and two of them that share nothing and no place.
Clusters == {Cluster2D(s, m) : s \in Seq(Hits), m \in SUBSET Nat}
allApart(c, d) == \A g \in c.hits, h \in d.hits : apart(g, h)
Apart == {p \in Clusters \X Clusters : MaxCoordGap > 0 => allApart(p[1], p[2])}

\* The hits of clusters are hits of a sequence.
madeOf(cs, hits) == \A n \in DOMAIN cs : cs[n].hits \subseteq {hits[i] : i \in DOMAIN hits}

\* The clusters in space of hits in order of time, all of them together.
LEMMA AllRounds ==
  ASSUME NEW hits \in Seq(Hits)
  PROVE  \E w : /\ Clustered(hits, Len(hits), w)
                /\ cluster_by_x(hits) =
                     [n \in DOMAIN w.clusters |-> Cluster2D(hits, w.clusters[n])]
<1> DEFINE n == Len(hits)  D == 1 .. n  S == Rounds(hits)
           base == [visited |-> {}, clusters |-> <<>>]
           seq == [i \in DOMAIN hits |-> i]
           step == [q \in D \X S |-> startCluster(hits, q[2], q[1])]
           P(g) == g = [s \in SUBSET DOMAIN seq |->
                          IF s = {} THEN base ELSE startCluster(hits, g[s \ {Max(s)}], seq[Max(s)])]
           iter == CHOOSE g : P(g)
<1>1. n \in Nat /\ DOMAIN hits = D /\ DOMAIN seq = D /\ \A i \in D : seq[i] = i
  OBVIOUS
<1>2. base \in S
  BY DEF Rounds
<1>3. ASSUME NEW w \in S, NEW i \in D
      PROVE  startCluster(hits, w, i) \in S
  <2>1. w.visited \in SUBSET D /\ w.clusters \in Seq(SUBSET D)
    BY <1>1 DEF Rounds
  <2>2. spaceCluster(hits, i, w.visited) \in SUBSET D
    BY <1>1 DEF spaceCluster
  <2> DEFINE new == spaceCluster(hits, i, w.visited)
  <2> HIDE DEF new
  <2>3. Append(w.clusters, new) \in Seq(SUBSET D) /\ w.visited \cup new \in SUBSET D
    <3> HIDE DEF D
    <3> QED BY <2>1, <2>2 DEF new
  <2>4. startCluster(hits, w, i) =
          IF i \in w.visited THEN w
          ELSE [visited |-> w.visited \cup new, clusters |-> Append(w.clusters, new)]
    BY DEF startCluster, new
  <2> QED
    BY <1>1, <2>3, <2>4 DEF Rounds
<1>4. step \in [D \X S -> S]
  <2> HIDE DEF D, S
  <2>1. \A q \in D \X S : startCluster(hits, q[2], q[1]) \in S
    BY <1>3
  <2> QED BY <2>1
<1>5. \A i \in D, w \in S : step[<<i, w>>] = startCluster(hits, w, i)
  <2> HIDE DEF D, S
  <2> QED OBVIOUS
<1>6. \A s \in SUBSET D : s # {} => Max(s) \in D /\ s \ {Max(s)} \in SUBSET D
  <2> HIDE DEF n
  <2>1. \A s \in SUBSET D : s # {} => Max(s) \in s
    BY <1>1, MaxIsLargest
  <2> QED BY <2>1
<1> HIDE DEF S, step, seq, base
<1>7. PICK g \in [SUBSET D -> S] : FoldingLeft(g, n, base, step)
  <2>1. n \in Nat
    BY <1>1
  <2> HIDE DEF n
  <2> QED BY ONLY <1>2, <1>4, <2>1, FoldsLeft
<1>8. P(g)
  <2>1. ASSUME NEW s \in SUBSET D
        PROVE  g[s] = IF s = {} THEN base ELSE startCluster(hits, g[s \ {Max(s)}], seq[Max(s)])
    <3>1. s # {} => step[<<Max(s), g[s \ {Max(s)}]>>]
                      = startCluster(hits, g[s \ {Max(s)}], seq[Max(s)])
      <4> HIDE DEF D
      <4> QED BY <1>1, <1>5, <1>6
    <3> QED BY <1>7, <3>1 DEF FoldingLeft
  <2> HIDE DEF D
  <2> QED BY <1>1, <2>1
<1>9. P(iter)
  <2> HIDE DEF P
  <2> QED BY <1>8
<1>10. cluster_by_x(hits) = [m \in DOMAIN iter[D].clusters |-> Cluster2D(hits, iter[D].clusters[m])]
  <2>1. cluster_by_x(hits) = [m \in DOMAIN iter[DOMAIN seq].clusters |->
                                Cluster2D(hits, iter[DOMAIN seq].clusters[m])]
    BY DEF cluster_by_x, FoldLeft, MapThenFoldSet, seq, base
  <2> HIDE DEF D, iter
  <2> QED BY <1>1, <2>1
<1>11. \A s \in SUBSET D :
          iter[s] = IF s = {} THEN base ELSE startCluster(hits, iter[s \ {Max(s)}], Max(s))
  <2>1. \A s \in SUBSET D :
          iter[s] = IF s = {} THEN base ELSE startCluster(hits, iter[s \ {Max(s)}], seq[Max(s)])
    <3> HIDE DEF iter, D
    <3> QED BY <1>1, <1>9
  <2> HIDE DEF iter, D
  <2> QED BY <1>1, <1>6, <2>1
<1> HIDE DEF iter
<1>12. TakingInTurn(iter, n, S, base, step)
  <2>1. FoldingLeftIn(iter, n, S, base, step)
    <3>1. iter[{}] = base
      <4>1. {} \in SUBSET D
        OBVIOUS
      <4> HIDE DEF D
      <4> QED BY <1>11, <4>1
    <3>2. ASSUME NEW s \in SUBSET D, s # {}, iter[s \ {Max(s)}] \in S
          PROVE  iter[s] = step[<<Max(s), iter[s \ {Max(s)}]>>]
      <4> HIDE DEF D
      <4> QED BY <1>5, <1>6, <1>11, <3>2
    <3> QED BY <3>1, <3>2 DEF FoldingLeftIn
  <2>2. n \in Nat
    BY <1>1
  <2> HIDE DEF n
  <2> QED BY ONLY <1>2, <1>4, <2>1, <2>2, FoldsLeftUp
<1> DEFINE F == {k \in 0 .. n : Clustered(hits, k, iter[1 .. k])}
<1>13. 0 \in F
  <2>1. iter[1 .. 0] = base /\ 0 \in 0 .. n
    BY <1>1, <1>12 DEF TakingInTurn
  <2>2. Clustered(hits, 0, base)
    <3>1. base.visited = {} /\ base.clusters = <<>> /\ DOMAIN <<>> = {} /\ 1 .. 0 = {}
      BY DEF base
    <3>2. base \in Rounds(hits)
      BY <1>2 DEF S
    <3> QED BY <3>1, <3>2 DEF Clustered, wholePlaces
  <2> QED BY <2>1, <2>2
<1>14. ASSUME NEW k \in F, k < n
       PROVE  k + 1 \in F
  <2>1. k \in Nat /\ k \in 0 .. n /\ k + 1 \in 0 .. n /\ k + 1 \in D /\ Clustered(hits, k, iter[1 .. k])
    BY <1>1, <1>14
  <2> HIDE DEF F
  <2>2. iter[1 .. (k + 1)] = step[<<k + 1, iter[1 .. k]>>] /\ iter[1 .. k] \in S
    BY <1>12, <1>14, <2>1 DEF TakingInTurn
  <2>3. iter[1 .. (k + 1)] = startCluster(hits, iter[1 .. k], k + 1)
    BY <1>5, <2>1, <2>2
  <2>4. Clustered(hits, k + 1, startCluster(hits, iter[1 .. k], k + 1))
    BY <1>14, <2>1, RoundClusters
  <2> HIDE DEF n
  <2> QED BY <2>1, <2>3, <2>4 DEF F
<1>15. n \in F
  <2>1. F \in SUBSET (0 .. n)
    OBVIOUS
  <2>2. F = 0 .. n
    <3> HIDE DEF F, n
    <3> QED BY <1>1, <1>13, <1>14, <2>1, NumbersUpTo
  <2> HIDE DEF F, n
  <2> QED BY <1>1, <2>2
<1>16. Clustered(hits, n, iter[D])
  BY <1>15
<1> HIDE DEF n
<1> QED
  BY <1>10, <1>16 DEF n

\* The clusters in space share no hit and no place.
LEMMA SpaceClustersApart ==
  ASSUME NEW hits \in Seq(Hits), ordered(hits, Distinct)
  PROVE  /\ cluster_by_x(hits) \in Seq(Clusters) /\ madeOf(cluster_by_x(hits), hits)
         /\ ordered(cluster_by_x(hits), Apart)
<1> DEFINE D == DOMAIN hits  cs == cluster_by_x(hits)
<1>1. PICK w : /\ Clustered(hits, Len(hits), w)
               /\ cs = [n \in DOMAIN w.clusters |-> Cluster2D(hits, w.clusters[n])]
  BY AllRounds
<1> HIDE DEF cs
<1> DEFINE N == Len(w.clusters)
<1>2. /\ w.clusters \in Seq(SUBSET D) /\ N \in Nat /\ DOMAIN w.clusters = 1 .. N
      /\ \A n \in 1 .. N : w.clusters[n] \in SUBSET D
  <2>1. w.clusters \in Seq(SUBSET D)
    BY <1>1 DEF Clustered, Rounds
  <2> HIDE DEF D
  <2> QED BY <2>1
<1>3. \A m : Cluster2D(hits, m).hits = {hits[i] : i \in m}
  BY DEF Cluster2D
<1>4. D = 1 .. Len(hits) /\ D \subseteq Nat /\ \A i \in D : hits[i] \in Hits
  OBVIOUS
<1>5. ASSUME NEW n \in 1 .. N
      PROVE  /\ cs[n] = Cluster2D(hits, w.clusters[n]) /\ cs[n] \in Clusters
             /\ cs[n].hits = {hits[i] : i \in w.clusters[n]}
  <2>1. cs[n] = Cluster2D(hits, w.clusters[n]) /\ w.clusters[n] \in SUBSET Nat
    <3> HIDE DEF N, D
    <3> QED BY <1>1, <1>2, <1>4
  <2> HIDE DEF N, D
  <2> QED BY <1>3, <2>1 DEF Clusters
<1>6. cs \in Seq(Clusters) /\ DOMAIN cs = 1 .. N
  <2>1. cs \in [1 .. N -> Clusters]
    <3> HIDE DEF N
    <3> QED BY <1>1, <1>2, <1>5
  <2> HIDE DEF N
  <2> QED BY <1>2, <2>1
<1>7. madeOf(cs, hits)
  <2>1. ASSUME NEW n \in 1 .. N
        PROVE  cs[n].hits \subseteq {hits[i] : i \in D}
    <3> HIDE DEF N, D
    <3> QED BY <1>2, <1>5
  <2> HIDE DEF N
  <2> QED BY <1>6, <2>1 DEF madeOf
<1>8. ASSUME MaxCoordGap > 0, NEW m \in 1 .. N, NEW n \in 1 .. N, m < n
      PROVE  allApart(cs[m], cs[n])
  <2>1. w.clusters[m] \cap w.clusters[n] = {} /\ wholePlaces(hits, w.clusters[m])
    BY <1>1, <1>2, <1>8 DEF Clustered
  <2>2. ASSUME NEW i \in w.clusters[m], NEW j \in w.clusters[n]
        PROVE  apart(hits[i], hits[j])
    <3>1. i \in D /\ j \in D /\ i # j /\ j \notin w.clusters[m]
      <4> HIDE DEF N, D
      <4> QED BY <1>2, <2>1
    <3>2. ~samePlace(hits[i], hits[j])
      BY <1>8, <2>1, <3>1 DEF wholePlaces
    <3>3. hits[i].id # hits[j].id
      <4>1. i < j \/ j < i
        BY <1>4, <3>1
      <4>2. <<hits[i], hits[j]>> \in Distinct \/ <<hits[j], hits[i]>> \in Distinct
        BY <3>1, <4>1 DEF ordered
      <4> QED BY <4>2 DEF Distinct
    <3> QED BY <3>2, <3>3 DEF apart
  <2> HIDE DEF N
  <2> QED BY <1>5, <2>2 DEF allApart
<1>9. ordered(cs, Apart)
  <2> HIDE DEF N
  <2> QED BY <1>5, <1>6, <1>8 DEF ordered, Apart
<1> QED
  BY <1>6, <1>7, <1>9 DEF cs

\* What comes out of the hits of a window shares no hits, and none of one place
\* and close in time.
LEMMA WindowClustersApart ==
  ASSUME NEW hits \in Seq(Hits), ordered(hits, Distinct), chronological(hits)
  PROVE  /\ cluster(hits) \in Seq(Clusters) /\ madeOf(cluster(hits), hits)
         /\ ordered(cluster(hits), Apart)
<1> DEFINE ts == timeClusters(hits)  N == Len(ts)  D == 1 .. Len(hits)
           seqs == [n \in DOMAIN ts |-> cluster_by_x(ts[n])]
<1>1. SplitInTime(hits, Len(hits), ts)
  BY TimeClustersSplit
<1> HIDE DEF ts
<1>2. /\ ts \in Seq(Seq(Hits)) /\ N \in Nat /\ DOMAIN ts = 1 .. N
      /\ \A n \in 1 .. N : ts[n] \in Seq(Hits) /\ ordered(ts[n], Distinct)
  BY <1>1 DEF SplitInTime
<1> HIDE DEF N
<1>3. ASSUME NEW n \in 1 .. N
      PROVE  /\ seqs[n] = cluster_by_x(ts[n]) /\ seqs[n] \in Seq(Clusters)
             /\ madeOf(seqs[n], ts[n]) /\ ordered(seqs[n], Apart)
  <2>1. seqs[n] = cluster_by_x(ts[n])
    BY <1>2
  <2> HIDE DEF seqs
  <2> QED BY <1>2, <2>1, SpaceClustersApart
<1>4. seqs \in Seq(Seq(Clusters)) /\ DOMAIN seqs = 1 .. N
  <2>1. seqs \in [1 .. N -> Seq(Clusters)]
    BY <1>2, <1>3
  <2> HIDE DEF seqs
  <2> QED BY <1>2, <2>1
<1> HIDE DEF seqs
<1>5. ASSUME NEW m \in 1 .. N, NEW n \in 1 .. N, m < n
      PROVE  before(seqs[m], seqs[n], Apart)
  <2>1. before(ts[m], ts[n], Later)
    BY <1>1, <1>2, <1>5 DEF SplitInTime
  <2>2. ASSUME NEW i \in DOMAIN seqs[m], NEW j \in DOMAIN seqs[n]
        PROVE  <<seqs[m][i], seqs[n][j]>> \in Apart
    <3>1. ASSUME NEW g \in seqs[m][i].hits, NEW h \in seqs[n][j].hits
          PROVE  apart(g, h)
      <4>1. PICK a \in DOMAIN ts[m] : g = ts[m][a]
        BY <1>3 DEF madeOf
      <4>2. PICK b \in DOMAIN ts[n] : h = ts[n][b]
        BY <1>3 DEF madeOf
      <4>3. <<g, h>> \in Later
        BY <2>1, <4>1, <4>2 DEF before
      <4>4. /\ g.id # h.id /\ h.time - g.time > MaxTimeGap
            /\ g.time \in Int /\ h.time \in Int /\ MaxTimeGap \in Nat
        <5>1. /\ <<g, h>>[1] = g /\ <<g, h>>[2] = h /\ <<g, h>> \in Distinct
              /\ <<g, h>>[2].time - <<g, h>>[1].time > MaxTimeGap
          BY <4>3 DEF Later
        <5>2. g \in Hits /\ h \in Hits /\ <<g, h>>[1].id # <<g, h>>[2].id
          BY <5>1 DEF Distinct
        <5> QED BY <5>1, <5>2, ClustererAssumption DEF Hits
      <4> QED BY <4>4 DEF apart
    <3>2. seqs[m][i] \in Clusters /\ seqs[n][j] \in Clusters
      BY <1>3
    <3> QED BY <3>1, <3>2 DEF Apart, allApart
  <2> QED BY <2>2 DEF before
<1> DEFINE cs == FlattenSeq(seqs)
<1>6. /\ cs \in Seq(Clusters) /\ ordered(cs, Apart)
      /\ \A i \in DOMAIN cs : \E n \in DOMAIN seqs : \E j \in DOMAIN seqs[n] : cs[i] = seqs[n][j]
  <2>1. \A n \in DOMAIN seqs : ordered(seqs[n], Apart)
    BY <1>3, <1>4
  <2>2. \A m, n \in DOMAIN seqs : m < n => before(seqs[m], seqs[n], Apart)
    BY <1>4, <1>5
  <2> QED BY <1>4, <2>1, <2>2, FlattenOrdered
<1>7. cluster(hits) = cs
  BY DEF cluster, ts, seqs
<1> HIDE DEF cs
<1>8. madeOf(cs, hits)
  <2>1. ASSUME NEW i \in DOMAIN cs, NEW h \in cs[i].hits
        PROVE  h \in {hits[a] : a \in DOMAIN hits}
    <3>1. PICK n \in 1 .. N : \E j \in DOMAIN seqs[n] : cs[i] = seqs[n][j]
      BY <1>4, <1>6
    <3>2. PICK a \in DOMAIN ts[n] : h = ts[n][a]
      BY <1>3, <2>1, <3>1 DEF madeOf
    <3>3. \E b \in 1 .. Len(hits) : ts[n][a] = hits[b]
      BY <1>1, <1>2 DEF SplitInTime
    <3> QED BY <3>2, <3>3
  <2> QED BY <2>1 DEF madeOf
<1> QED
  BY <1>6, <1>7, <1>8
-----------------------------------------------------------------------------
\* Every hit waits in the window of its place, under its number there.
FramesInv ==
  /\ sub2DFrames \in [Windows -> Seq(Hits)]
  /\ \A w \in Windows : \A i \in DOMAIN sub2DFrames[w] :
       /\ sub2DFrames[w][i].id = <<w, i>>
       /\ getChunkWindowIndex(sub2DFrames[w][i]) = w

\* What processReadouts() makes of the windows.
LEMMA FramesClustered ==
  ASSUME FramesInv, NEW sorted,
         \A w \in Windows : sorted[w] \in sort_chronologically(sub2DFrames[w]),
         NEW cs, cs = FlattenSeq([i \in 1 .. ParallelThreads |-> cluster(sorted[i - 1])])
  PROVE  /\ cs \in Seq(Clusters) /\ ordered(cs, Apart)
         /\ \A n \in DOMAIN cs : \A h \in cs[n].hits :
              \E w \in Windows : \E i \in DOMAIN sub2DFrames[w] : h = sub2DFrames[w][i]
<1> DEFINE N == ParallelThreads
           seqs == [i \in 1 .. N |-> cluster(sorted[i - 1])]
<1>1. N \in Nat /\ \A i \in 1 .. N : i \in Nat /\ i - 1 \in Windows
  BY Timepix3Assumption DEF Windows
<1>2. ASSUME NEW w \in Windows
      PROVE  sub2DFrames[w] \in Seq(Hits) /\ ordered(sub2DFrames[w], Distinct)
  <2>1. sub2DFrames[w] \in Seq(Hits)
    BY DEF FramesInv
  <2>2. ASSUME NEW i \in DOMAIN sub2DFrames[w], NEW j \in DOMAIN sub2DFrames[w], i < j
        PROVE  <<sub2DFrames[w][i], sub2DFrames[w][j]>> \in Distinct
    <3>1. sub2DFrames[w][i] \in Hits /\ sub2DFrames[w][j] \in Hits /\ i # j
      BY <2>1, <2>2
    <3>2. sub2DFrames[w][i].id = <<w, i>> /\ sub2DFrames[w][j].id = <<w, j>>
      BY DEF FramesInv
    <3>3. <<w, i>> # <<w, j>>
      BY <3>1
    <3> QED BY <3>1, <3>2, <3>3 DEF Distinct
  <2> QED BY <2>1, <2>2 DEF ordered
<1>3. ASSUME NEW n \in 1 .. N
      PROVE  /\ seqs[n] \in Seq(Clusters) /\ ordered(seqs[n], Apart)
             /\ \A c \in DOMAIN seqs[n] : \A h \in seqs[n][c].hits :
                  \E i \in DOMAIN sub2DFrames[n - 1] : h = sub2DFrames[n - 1][i]
  <2> DEFINE w == n - 1  hits == sorted[w]
  <2>1. w \in Windows /\ seqs[n] = cluster(hits) /\ hits \in sort_chronologically(sub2DFrames[w])
    BY <1>1
  <2> HIDE DEF w, hits, seqs
  <2>2. hits \in Seq(Hits) /\ ordered(hits, Distinct) /\ chronological(hits)
        /\ within(hits, sub2DFrames[w])
    BY <1>2, <2>1, Sorted
  <2>3. /\ seqs[n] \in Seq(Clusters) /\ madeOf(seqs[n], hits) /\ ordered(seqs[n], Apart)
    BY <2>1, <2>2, WindowClustersApart
  <2>4. ASSUME NEW c \in DOMAIN seqs[n], NEW h \in seqs[n][c].hits
        PROVE  \E i \in DOMAIN sub2DFrames[w] : h = sub2DFrames[w][i]
    <3>1. PICK a \in DOMAIN hits : h = hits[a]
      BY <2>3 DEF madeOf
    <3> QED BY <2>2, <3>1 DEF within
  <2> QED BY <2>3, <2>4 DEF w
<1>4. seqs \in Seq(Seq(Clusters)) /\ DOMAIN seqs = 1 .. N
  <2>1. seqs \in [1 .. N -> Seq(Clusters)]
    BY <1>3
  <2> HIDE DEF seqs, N
  <2> QED BY <1>1, <2>1
<1>5. cs = FlattenSeq(seqs)
  OBVIOUS
<1> HIDE DEF seqs, N
<1>6. ASSUME NEW m \in 1 .. N, NEW n \in 1 .. N, m < n
      PROVE  before(seqs[m], seqs[n], Apart)
  <2>1. m - 1 \in Windows /\ n - 1 \in Windows /\ m - 1 # n - 1
    BY <1>1, <1>6
  <2>2. ASSUME NEW i \in DOMAIN seqs[m], NEW j \in DOMAIN seqs[n]
        PROVE  <<seqs[m][i], seqs[n][j]>> \in Apart
    <3>1. ASSUME NEW g \in seqs[m][i].hits, NEW h \in seqs[n][j].hits
          PROVE  apart(g, h)
      <4> DEFINE v == m - 1  w == n - 1
      <4>1. PICK a \in DOMAIN sub2DFrames[v] : g = sub2DFrames[v][a]
        BY <1>3
      <4>2. PICK b \in DOMAIN sub2DFrames[w] : h = sub2DFrames[w][b]
        BY <1>3
      <4>3. v \in Windows /\ w \in Windows /\ v # w
        BY <2>1
      <4> HIDE DEF v, w
      <4>4. /\ g.id = <<v, a>> /\ getChunkWindowIndex(g) = v
            /\ h.id = <<w, b>> /\ getChunkWindowIndex(h) = w
        BY <4>1, <4>2, <4>3 DEF FramesInv
      <4>5. samePlace(g, h) => getChunkWindowIndex(g) = getChunkWindowIndex(h)
        BY DEF samePlace, getChunkWindowIndex
      <4>6. <<v, a>> # <<w, b>>
        BY <4>3
      <4> QED BY <4>3, <4>4, <4>5, <4>6 DEF apart
    <3>2. seqs[m][i] \in Clusters /\ seqs[n][j] \in Clusters
      BY <1>3
    <3> QED BY <3>1, <3>2 DEF Apart, allApart
  <2> QED BY <2>2 DEF before
<1> DEFINE fs == FlattenSeq(seqs)
<1>7. /\ fs \in Seq(Clusters) /\ ordered(fs, Apart)
      /\ \A i \in DOMAIN fs : \E n \in DOMAIN seqs : \E j \in DOMAIN seqs[n] : fs[i] = seqs[n][j]
  <2>1. \A n \in DOMAIN seqs : ordered(seqs[n], Apart)
    BY <1>3, <1>4
  <2>2. \A m, n \in DOMAIN seqs : m < n => before(seqs[m], seqs[n], Apart)
    BY <1>4, <1>6
  <2> QED BY <1>4, <2>1, <2>2, FlattenOrdered
<1>8. fs = cs
  BY <1>5
<1> HIDE DEF fs
<1>9. ASSUME NEW c \in DOMAIN cs, NEW h \in cs[c].hits
      PROVE  \E w \in Windows : \E i \in DOMAIN sub2DFrames[w] : h = sub2DFrames[w][i]
  <2>1. PICK n \in 1 .. N : \E j \in DOMAIN seqs[n] : cs[c] = seqs[n][j]
    BY <1>4, <1>7, <1>8
  <2>2. n - 1 \in Windows
    BY <1>1
  <2> QED BY <1>3, <1>9, <2>1, <2>2
<1> QED
  BY <1>7, <1>8, <1>9

\* The clusters that wait are apart, and so will be those made of the hits.
PixelInv ==
  /\ FramesInv
  /\ clusters \in Seq(Clusters) /\ ordered(clusters, Apart)

EpochTyped == lastEpochESSPulseTime # None => lastEpochESSPulseTime.pulseTime \in Nat

\* A new pair is of a pulse whose readout arrives just now.
LEMMA EpochChange ==
  ASSUME Inv, [Next]_vars
  PROVE  \/ lastEpochESSPulseTime' = lastEpochESSPulseTime /\ (now' = now \/ Tick)
         \/ /\ now' = now
            /\ \E k \in Pulses : /\ arrives(k)
                                 /\ lastEpochESSPulseTime' =
                                      [pulseTime |-> PulseTime(k), tdcClock |-> Clock(PulseTime(k))]
<1>0. ASSUME NEW k \in Pulses
      PROVE  tdcTimeInPixelClock(TDCClock(PulseTime(k))) = Clock(PulseTime(k))
  <2>1. PulseTime(k) \in Nat
    BY Timepix3Assumption DEF PulseTime, Pulses
  <2> QED BY <2>1, TDCClockConverted
<1>1. ASSUME NEW k \in Pulses, TDCReadout(k)
      PROVE  \/ lastEpochESSPulseTime' = lastEpochESSPulseTime /\ now' = now
             \/ /\ now' = now /\ arrives(k)
                /\ lastEpochESSPulseTime' =
                     [pulseTime |-> PulseTime(k), tdcClock |-> Clock(PulseTime(k))]
  <2> DEFINE tdc == [pulse |-> k, arrival |-> now]
  <2>1. arrives(k) /\ now' = now /\ Kept(tdc) /\ tdc.pulse = k /\ Kept(lastEVRData)
    BY <1>1, ArrivesKept DEF TDCReadout, Inv
  <2>2. publishData(tdc, lastEVRData) \/ UNCHANGED lastEpochESSPulseTime
    BY <1>1 DEF TDCReadout
  <2> HIDE DEF tdc
  <2>3. CASE publishData(tdc, lastEVRData) /\ isLastTimingDiffLowerThenThreshold(tdc, lastEVRData)
    <3>1. lastEVRData.pulse = k
      BY <2>1, <2>3, SamePulse
    <3> QED BY <1>0, <2>1, <2>3, <3>1 DEF publishData
  <2>4. CASE publishData(tdc, lastEVRData) /\ ~isLastTimingDiffLowerThenThreshold(tdc, lastEVRData)
    BY <2>1, <2>4 DEF publishData
  <2> QED BY <2>1, <2>2, <2>3, <2>4
<1>2. ASSUME NEW k \in Pulses, EVRReadout(k)
      PROVE  \/ lastEpochESSPulseTime' = lastEpochESSPulseTime /\ now' = now
             \/ /\ now' = now /\ arrives(k)
                /\ lastEpochESSPulseTime' =
                     [pulseTime |-> PulseTime(k), tdcClock |-> Clock(PulseTime(k))]
  <2> DEFINE evr == [pulse |-> k, arrival |-> now]
  <2>1. arrives(k) /\ now' = now /\ Kept(evr) /\ evr.pulse = k /\ Kept(lastTDCData)
    BY <1>2, ArrivesKept DEF EVRReadout, Inv
  <2>2. publishData(lastTDCData, evr) \/ UNCHANGED lastEpochESSPulseTime
    BY <1>2 DEF EVRReadout
  <2> HIDE DEF evr
  <2>3. CASE publishData(lastTDCData, evr) /\ isLastTimingDiffLowerThenThreshold(lastTDCData, evr)
    <3>1. lastTDCData.pulse = k
      BY <2>1, <2>3, SamePulse
    <3> QED BY <1>0, <2>1, <2>3, <3>1 DEF publishData
  <2>4. CASE publishData(lastTDCData, evr) /\ ~isLastTimingDiffLowerThenThreshold(lastTDCData, evr)
    BY <2>1, <2>4 DEF publishData
  <2> QED BY <2>1, <2>2, <2>3, <2>4
<1>3. ASSUME NEW t \in 0 .. MaxTime, NEW place \in Places, NEW weight \in Weights,
             PixelReadout(t, place, weight)
      PROVE  lastEpochESSPulseTime' = lastEpochESSPulseTime /\ now' = now
  BY <1>3 DEF PixelReadout, timing
<1>4. ASSUME clusters # <<>>, publishEvent(Head(clusters))
      PROVE  lastEpochESSPulseTime' = lastEpochESSPulseTime /\ now' = now
  BY <1>4 DEF publishEvent, timing
<1>5. CASE OtherReadout \/ processReadouts \/ Timeout \/ UNCHANGED vars
  BY <1>5 DEF OtherReadout, processReadouts, Timeout, vars, timing
<1>6. Tick => lastEpochESSPulseTime' = lastEpochESSPulseTime
  BY DEF Tick, timing
<1> QED
  BY <1>1, <1>2, <1>3, <1>4, <1>5, <1>6 DEF Next

LEMMA EpochStaysTyped ==
  ASSUME Inv, EpochTyped, [Next]_vars
  PROVE  EpochTyped'
<1>1. \A k \in Pulses : PulseTime(k) \in Nat
  BY Timepix3Assumption DEF PulseTime, Pulses
<1> QED
  BY <1>1, EpochChange DEF EpochTyped

\* A hit is placed in the window of its place.
LEMMA HitPlaced ==
  ASSUME Inv, EpochTyped, FramesInv,
         NEW t \in 0 .. MaxTime, NEW place \in Places, NEW weight \in Weights,
         PixelReadout(t, place, weight)
  PROVE  \/ UNCHANGED sub2DFrames
         \/ /\ lastEpochESSPulseTime # None
            /\ \E w \in Windows, hit \in Hits :
                 /\ sub2DFrames' = [sub2DFrames EXCEPT ![w] = Append(sub2DFrames[w], hit)]
                 /\ hit.time = calculateGlobalTime(Clock(t)) /\ hit.at = t
                 /\ hit.id = <<w, Len(sub2DFrames[w]) + 1>> /\ getChunkWindowIndex(hit) = w
<1> DEFINE w == getChunkWindowIndex(place)
           hit == [time |-> calculateGlobalTime(Clock(t)), x |-> place.x, y |-> place.y,
                   weight |-> weight, at |-> t, id |-> <<w, Len(sub2DFrames[w]) + 1>>]
<1>1. \/ UNCHANGED sub2DFrames
      \/ /\ lastEpochESSPulseTime # None
         /\ sub2DFrames' = [sub2DFrames EXCEPT ![w] = Append(sub2DFrames[w], hit)]
  BY DEF PixelReadout
<1>2. CASE w \notin Windows
  <2>1. [sub2DFrames EXCEPT ![w] = Append(sub2DFrames[w], hit)] = sub2DFrames
    <3> HIDE DEF w, hit
    <3> QED BY <1>2 DEF FramesInv
  <2> HIDE DEF w, hit
  <2> QED BY <1>1, <2>1
<1>3. CASE w \in Windows /\ lastEpochESSPulseTime # None
  <2>1. calculateGlobalTime(Clock(t)) \in Int
    <3>1. /\ PixelMax \in Nat \ {0} /\ t \in Nat /\ ClockAtStart + t \in Nat
          /\ lastEpochESSPulseTime.pulseTime \in Nat
      BY <1>3, Timepix3Assumption DEF EpochTyped
    <3>2. ClockAtStart + lastEpochESSPulseTime.pulseTime \in Nat
      BY <3>1, Timepix3Assumption
    <3>3. Clock(t) \in Int /\ Clock(lastEpochESSPulseTime.pulseTime) \in Int
      BY <3>1, <3>2 DEF Clock
    <3>4. lastEpochESSPulseTime.tdcClock \in Int
      BY <1>3, <3>3 DEF Inv, PulsesPaired
    <3> QED BY <3>1, <3>3, <3>4 DEF calculateGlobalTime
  <2>2. place.x \in Nat /\ place.y \in Nat
    BY Timepix3Assumption DEF Places
  <2>3. w \in Nat /\ Len(sub2DFrames[w]) + 1 \in Nat
    <3>1. sub2DFrames[w] \in Seq(Hits)
      BY <1>3 DEF FramesInv
    <3> HIDE DEF w
    <3> QED BY <1>3, <3>1 DEF Windows
  <2>4. <<w, Len(sub2DFrames[w]) + 1>> \in Nat \X Nat
    <3> HIDE DEF w
    <3> QED BY <2>3
  <2>5. /\ hit.time = calculateGlobalTime(Clock(t)) /\ hit.at = t
        /\ hit.id = <<w, Len(sub2DFrames[w]) + 1>> /\ hit.x = place.x /\ hit.y = place.y
    OBVIOUS
  <2>6. getChunkWindowIndex(hit) = w
    <3> HIDE DEF hit
    <3> QED BY <2>5 DEF getChunkWindowIndex
  <2>7. t \in Nat
    OBVIOUS
  <2>8. hit \in Hits
    <3> DEFINE time == calculateGlobalTime(Clock(t))  id == <<w, Len(sub2DFrames[w]) + 1>>
    <3>1. time \in Int /\ id \in Nat \X Nat
      BY <2>1, <2>4
    <3> HIDE DEF time, id
    <3>2. hit = [time |-> time, x |-> place.x, y |-> place.y, weight |-> weight, at |-> t, id |-> id]
      BY DEF time, id
    <3> HIDE DEF hit
    <3> QED BY <2>2, <2>7, <3>1, <3>2 DEF Hits
  <2> HIDE DEF w, hit
  <2> QED BY <1>1, <1>3, <2>5, <2>6, <2>8
<1> QED
  BY <1>1, <1>2, <1>3

LEMMA FramesGrow ==
  ASSUME FramesInv, NEW w \in Windows, NEW hit \in Hits,
         hit.id = <<w, Len(sub2DFrames[w]) + 1>>, getChunkWindowIndex(hit) = w,
         sub2DFrames' = [sub2DFrames EXCEPT ![w] = Append(sub2DFrames[w], hit)]
  PROVE  /\ FramesInv'
         /\ \A v \in Windows : \A i \in DOMAIN sub2DFrames'[v] :
              \/ i \in DOMAIN sub2DFrames[v] /\ sub2DFrames'[v][i] = sub2DFrames[v][i]
              \/ sub2DFrames'[v][i] = hit
<1> DEFINE s == sub2DFrames[w]  u == Append(s, hit)
<1>1. /\ s \in Seq(Hits) /\ u \in Seq(Hits) /\ DOMAIN s = 1 .. Len(s) /\ Len(s) \in Nat
      /\ DOMAIN u = 1 .. (Len(s) + 1) /\ u[Len(s) + 1] = hit
      /\ \A i \in 1 .. Len(s) : u[i] = s[i]
  BY DEF FramesInv
<1>2. /\ sub2DFrames \in [Windows -> Seq(Hits)] /\ sub2DFrames'[w] = u
      /\ \A v \in Windows : v # w => sub2DFrames'[v] = sub2DFrames[v]
      /\ sub2DFrames' \in [Windows -> Seq(Hits)]
  <2> HIDE DEF u
  <2> QED BY <1>1 DEF FramesInv, u
<1>3. ASSUME NEW v \in Windows, NEW i \in DOMAIN sub2DFrames'[v]
      PROVE  \/ i \in DOMAIN sub2DFrames[v] /\ sub2DFrames'[v][i] = sub2DFrames[v][i]
             \/ v = w /\ i = Len(s) + 1 /\ sub2DFrames'[v][i] = hit
  <2>1. CASE v = w
    <3>1. i \in 1 .. Len(s) \/ i = Len(s) + 1
      <4> HIDE DEF s, u
      <4> QED BY <1>1, <1>2, <1>3, <2>1
    <3> HIDE DEF u
    <3> QED BY <1>1, <1>2, <2>1, <3>1
  <2>2. CASE v # w
    BY <1>2, <1>3, <2>2
  <2> QED BY <2>1, <2>2
<1>4. ASSUME NEW v \in Windows, NEW i \in DOMAIN sub2DFrames'[v]
      PROVE  /\ sub2DFrames'[v][i].id = <<v, i>>
             /\ getChunkWindowIndex(sub2DFrames'[v][i]) = v
  <2>1. CASE i \in DOMAIN sub2DFrames[v] /\ sub2DFrames'[v][i] = sub2DFrames[v][i]
    BY <2>1 DEF FramesInv
  <2>2. CASE v = w /\ i = Len(s) + 1 /\ sub2DFrames'[v][i] = hit
    BY <2>2
  <2> QED BY <1>3, <1>4, <2>1, <2>2
<1>5. FramesInv'
  <2> DEFINE frames == sub2DFrames'
  <2>1. /\ frames \in [Windows -> Seq(Hits)]
        /\ \A v \in Windows : \A i \in DOMAIN frames[v] :
             /\ frames[v][i].id = <<v, i>> /\ getChunkWindowIndex(frames[v][i]) = v
    BY <1>2, <1>4
  <2> QED BY <2>1 DEF FramesInv, getChunkWindowIndex
<1> QED
  BY <1>3, <1>5

\* What the steps do to the hits and clusters.
LEMMA PixelSteps ==
  ASSUME Inv, EpochTyped, PixelInv, [Next]_vars
  PROVE  PixelInv'
<1>1. CASE UNCHANGED <<sub2DFrames, clusters>>
  BY <1>1 DEF PixelInv, FramesInv, getChunkWindowIndex, ordered
<1>2. ASSUME NEW t \in 0 .. MaxTime, NEW place \in Places, NEW weight \in Weights,
             PixelReadout(t, place, weight)
      PROVE  PixelInv'
  <2>1. clusters' = clusters
    BY <1>2 DEF PixelReadout
  <2>2. FramesInv
    BY DEF PixelInv
  <2>3. CASE UNCHANGED sub2DFrames
    BY <1>1, <2>1, <2>3
  <2>4. CASE ~UNCHANGED sub2DFrames
    <3>1. FramesInv'
      BY <1>2, <2>2, <2>4, HitPlaced, FramesGrow
    <3> QED BY <2>1, <3>1 DEF PixelInv, ordered
  <2> QED BY <2>3, <2>4
<1>3. CASE processReadouts
  <2>1. PICK sorted :
          /\ \A w \in Windows : sorted[w] \in sort_chronologically(sub2DFrames[w])
          /\ clusters' = FlattenSeq([i \in 1 .. ParallelThreads |-> cluster(sorted[i - 1])])
    BY <1>3 DEF processReadouts
  <2> DEFINE cs == clusters'
  <2>2. cs = FlattenSeq([i \in 1 .. ParallelThreads |-> cluster(sorted[i - 1])])
    BY <2>1
  <2> HIDE DEF cs
  <2>3. FramesInv
    BY DEF PixelInv
  <2>4. cs \in Seq(Clusters) /\ ordered(cs, Apart)
    BY <2>1, <2>2, <2>3, FramesClustered
  <2>5. sub2DFrames' = [w \in Windows |-> <<>>]
    BY <1>3 DEF processReadouts
  <2>6. FramesInv'
    <3>1. <<>> \in Seq(Hits) /\ DOMAIN <<>> = {}
      OBVIOUS
    <3> QED BY <2>5, <3>1 DEF FramesInv
  <2> QED
    BY <2>4, <2>6 DEF PixelInv, cs, ordered
<1>4. ASSUME clusters # <<>>, publishEvent(Head(clusters))
      PROVE  PixelInv'
  <2>1. UNCHANGED sub2DFrames
    BY <1>4 DEF publishEvent
  <2> DEFINE cs == clusters'
  <2>2. cs = Tail(clusters)
    BY <1>4 DEF publishEvent
  <2> HIDE DEF cs
  <2>3. cs \in Seq(Clusters) /\ ordered(cs, Apart)
    <3>1. /\ clusters \in Seq(Clusters) /\ Tail(clusters) \in Seq(Clusters)
          /\ \A i \in DOMAIN Tail(clusters) : /\ i \in Nat /\ i + 1 \in DOMAIN clusters
                                              /\ Tail(clusters)[i] = clusters[i + 1]
      BY <1>4 DEF PixelInv
    <3>2. ASSUME NEW i \in DOMAIN cs, NEW j \in DOMAIN cs, i < j
          PROVE  <<cs[i], cs[j]>> \in Apart
      <4>1. /\ i + 1 \in DOMAIN clusters /\ j + 1 \in DOMAIN clusters /\ i + 1 < j + 1
            /\ cs[i] = clusters[i + 1] /\ cs[j] = clusters[j + 1]
        BY <2>2, <3>1, <3>2
      <4> QED BY <4>1 DEF PixelInv, ordered
    <3> QED BY <2>2, <3>1, <3>2 DEF ordered
  <2>4. FramesInv'
    BY <2>1 DEF PixelInv, FramesInv, getChunkWindowIndex
  <2> QED BY <2>3, <2>4 DEF PixelInv, cs, ordered
<1>5. ASSUME NEW k \in Pulses, TDCReadout(k) \/ EVRReadout(k)
      PROVE  UNCHANGED <<sub2DFrames, clusters>>
  BY <1>5 DEF TDCReadout, EVRReadout, pixels
<1>6. CASE OtherReadout \/ Timeout \/ Tick \/ UNCHANGED vars
  BY <1>1, <1>6 DEF OtherReadout, Timeout, Tick, vars, pixels
<1> QED
  BY <1>1, <1>2, <1>3, <1>4, <1>5, <1>6 DEF Next

LEMMA PixelInit == Init => Inv /\ EpochTyped /\ PixelInv
<1> SUFFICES ASSUME Init PROVE Inv /\ EpochTyped /\ PixelInv
  OBVIOUS
<1>1. Inv /\ EpochTyped
  BY DEF Init, Inv, Kept, PulsesPaired, EpochTyped
<1>2. <<>> \in Seq(Hits) /\ <<>> \in Seq(Clusters) /\ DOMAIN <<>> = {}
  OBVIOUS
<1>3. FramesInv
  BY <1>2 DEF Init, FramesInv
<1>4. clusters \in Seq(Clusters) /\ ordered(clusters, Apart)
  BY <1>2 DEF Init, ordered
<1> QED
  BY <1>1, <1>3, <1>4 DEF PixelInv

\* The clusters of a packet share no hit, and no hits of one pixel close in time,
\* for every number of windows and whatever order equal times are sorted into, as
\* soon as hits of one pixel count as near (Hierarchical2DClusterer).
THEOREM NothingShared == MaxCoordGap > 0 => (Spec => []ClustersApart)
<1> SUFFICES ASSUME MaxCoordGap > 0 PROVE Spec => []ClustersApart
  OBVIOUS
<1>1. Init => Inv /\ EpochTyped /\ PixelInv
  BY PixelInit
<1>2. Inv /\ EpochTyped /\ PixelInv /\ [Next]_vars => (Inv /\ EpochTyped /\ PixelInv)'
  BY InvInductive, EpochStaysTyped, PixelSteps
<1>3. PixelInv => ClustersApart
  <2> SUFFICES ASSUME PixelInv, NEW i \in DOMAIN clusters, NEW j \in DOMAIN clusters, i < j,
                      NEW g \in clusters[i].hits, NEW h \in clusters[j].hits
               PROVE  apart(g, h)
    BY DEF ClustersApart, apart, samePlace
  <2>1. <<clusters[i], clusters[j]>> \in Apart
    BY DEF PixelInv, ordered
  <2> QED BY <2>1 DEF Apart, allApart
<1> QED
  BY <1>1, <1>2, <1>3, PTL DEF Spec
-----------------------------------------------------------------------------
\* Outages of the pairing end before the camera's clock has wrapped around, and
\* a hit from before the pulse, placed a wrap too late, is beyond the period.
OutagesEnd ==
  /\ MaxOutage \in Nat /\ MaxOutage + Delay < PixelMax
  /\ Period + Delay < PixelMax

EpochRecent ==
  lastEpochESSPulseTime # None =>
    /\ lastEpochESSPulseTime.pulseTime <= now
    /\ now <= lastEpochESSPulseTime.pulseTime + MaxOutage + Delay

LEMMA EpochStaysRecent ==
  ASSUME OutagesEnd, Inv, EpochTyped, EpochRecent, [Next]_vars
  PROVE  EpochRecent'
<1>1. Delay \in Nat /\ MaxOutage \in Nat /\ now \in Nat /\ \A k \in Pulses : PulseTime(k) \in Nat
  BY Timepix3Assumption DEF OutagesEnd, Inv, PulseTime, Pulses
<1>2. CASE lastEpochESSPulseTime' = lastEpochESSPulseTime /\ now' = now
  BY <1>2 DEF EpochRecent
<1>3. CASE lastEpochESSPulseTime' = lastEpochESSPulseTime /\ Tick
  <2>1. now' = now + 1 /\ (lastEpochESSPulseTime # None =>
                             now < lastEpochESSPulseTime.pulseTime + MaxOutage)
    BY <1>3 DEF Tick
  <2> QED BY <1>1, <1>3, <2>1 DEF EpochRecent, EpochTyped
<1>4. ASSUME now' = now, NEW k \in Pulses, arrives(k),
             lastEpochESSPulseTime' = [pulseTime |-> PulseTime(k), tdcClock |-> Clock(PulseTime(k))]
      PROVE  EpochRecent'
  <2>1. lastEpochESSPulseTime'.pulseTime = PulseTime(k)
    BY <1>4
  <2>2. PulseTime(k) <= now /\ now <= PulseTime(k) + MaxOutage + Delay
    <3> DEFINE p == PulseTime(k)
    <3>1. p \in Nat /\ p <= now /\ now <= p + Delay
      BY <1>1, <1>4 DEF arrives
    <3> HIDE DEF p
    <3>2. p <= now /\ now <= p + MaxOutage + Delay
      BY <1>1, <3>1
    <3> QED BY <3>2 DEF p
  <2> QED BY <1>4, <2>1, <2>2 DEF EpochRecent
<1> QED
  BY <1>2, <1>3, <1>4, EpochChange

\* The time a hit is given is its own, or, for a hit from before the pulse, later
\* by one wrap of the clock.
LEMMA GlobalTime ==
  ASSUME OutagesEnd, Inv, EpochTyped, EpochRecent, lastEpochESSPulseTime # None,
         NEW t \in Nat, now - Delay <= t, t <= now
  PROVE  calculateGlobalTime(Clock(t)) \in {t, t + PixelMax}
<1> DEFINE n == PixelMax  P == lastEpochESSPulseTime.pulseTime
           a == ClockAtStart + P  b == ClockAtStart + t  c == lastEpochESSPulseTime.tdcClock
<1>1. /\ n \in Nat \ {0} /\ P \in Nat /\ ClockAtStart \in Nat /\ a \in Nat /\ b \in Nat
      /\ Delay \in Nat /\ MaxOutage \in Nat /\ now \in Nat
      /\ MaxOutage + Delay < n /\ Delay < n
  BY Timepix3Assumption DEF OutagesEnd, Inv, EpochTyped
<1>2. P <= now /\ now <= P + MaxOutage + Delay
  BY DEF EpochRecent
<1>3. c = a % n /\ Clock(t) = b % n
  BY DEF Inv, PulsesPaired, Clock
<1>4. calculateGlobalTime(Clock(t)) =
        IF c > b % n THEN P + (n - c) + (b % n) ELSE P + ((b % n) - c)
  BY <1>3 DEF calculateGlobalTime
<1>5. a % n \in 0 .. (n - 1) /\ b % n \in 0 .. (n - 1)
  <2> HIDE DEF a, b, n
  <2> QED BY <1>1
<1> DEFINE r == a % n  s == b % n
<1>6. CASE P <= t
  <2> DEFINE d == t - P
  <2>1. d \in 0 .. (n - 1) /\ b = a + d
    BY <1>1, <1>2, <1>6
  <2> HIDE DEF d, a, b, n
  <2>2. (a + d) % n = IF (a % n) + d < n THEN (a % n) + d ELSE (a % n) + d - n
    BY <1>1, <2>1, ModOfSum, Zenon
  <2>3. s = IF r + d < n THEN r + d ELSE r + d - n
    BY <2>1, <2>2
  <2>4. P + d = t
    BY <1>1 DEF d
  <2>5. c = r /\ r \in 0 .. (n - 1) /\ d \in 0 .. (n - 1) /\ n \in Nat /\ P \in Nat
    BY <1>1, <1>3, <1>5, <2>1
  <2>6. calculateGlobalTime(Clock(t)) = IF c > s THEN P + (n - c) + s ELSE P + (s - c)
    BY <1>4
  <2> HIDE DEF r, s, c, P
  <2>7. (IF c > s THEN P + (n - c) + s ELSE P + (s - c)) = P + d
    BY <2>3, <2>5
  <2> QED BY <2>4, <2>6, <2>7
<1>7. CASE ~(P <= t)
  <2> DEFINE d == P - t
  <2>1. d \in 0 .. (n - 1) /\ d > 0 /\ a = b + d
    BY <1>1, <1>2, <1>7
  <2> HIDE DEF d, a, b, n
  <2>2. (b + d) % n = IF (b % n) + d < n THEN (b % n) + d ELSE (b % n) + d - n
    BY <1>1, <2>1, ModOfSum, Zenon
  <2>3. r = IF s + d < n THEN s + d ELSE s + d - n
    BY <2>1, <2>2
  <2>4. P - d = t
    BY <1>1 DEF d
  <2>5. c = r /\ s \in 0 .. (n - 1) /\ d \in 0 .. (n - 1) /\ n \in Nat /\ P \in Nat
    BY <1>1, <1>3, <1>5, <2>1
  <2>6. calculateGlobalTime(Clock(t)) = IF c > s THEN P + (n - c) + s ELSE P + (s - c)
    BY <1>4
  <2> HIDE DEF r, s, c, P
  <2>7. (IF c > s THEN P + (n - c) + s ELSE P + (s - c)) = (P - d) + n
    BY <2>1, <2>3, <2>5
  <2>8. t + n = t + PixelMax
    BY DEF n
  <2> QED BY <2>4, <2>6, <2>7, <2>8
<1> QED
  BY <1>6, <1>7

\* A hit that waits, or is in a cluster, came at most Delay ago; it was given
\* its own time, or one that is later by a wrap of the clock.
HitTrue(h, epoch, time) ==
  /\ epoch # None
  /\ h.at \in Nat /\ time - Delay <= h.at /\ h.at <= time
  /\ h.time = h.at \/ h.time = h.at + PixelMax

\* The strengthening of TofTrue.
HitsInv ==
  /\ ~parsing => \A w \in Windows : sub2DFrames[w] = <<>>
  /\ \A w \in Windows : \A i \in DOMAIN sub2DFrames[w] :
       HitTrue(sub2DFrames[w][i], lastEpochESSPulseTime, now)
  /\ \A n \in DOMAIN clusters : \A h \in clusters[n].hits :
       HitTrue(h, lastEpochESSPulseTime, now)

EventsInv ==
  /\ EventCount \in 0 .. MaxEvents - 1 /\ DOMAIN events = 1 .. MaxEvents
  /\ TofTrue

TofInv == Inv /\ EpochTyped /\ EpochRecent /\ PixelInv /\ HitsInv /\ EventsInv

\* A new pair in the middle of a packet changes nothing of the hits.
LEMMA HitStaysTrue ==
  ASSUME Inv, [Next]_vars, now' = now, NEW h, HitTrue(h, lastEpochESSPulseTime, now)
  PROVE  HitTrue(h, lastEpochESSPulseTime', now')
<1>1. lastEpochESSPulseTime' # None
  <2>1. ASSUME NEW k \in Pulses
        PROVE  [pulseTime |-> PulseTime(k), tdcClock |-> Clock(PulseTime(k))] # None
    <3>1. PulseTime(k) \in Nat /\ PixelMax \in Nat \ {0}
      BY Timepix3Assumption DEF PulseTime, Pulses
    <3>2. ClockAtStart + PulseTime(k) \in Nat
      BY <3>1, Timepix3Assumption
    <3> DEFINE c == ClockAtStart + PulseTime(k)
    <3>3. c % PixelMax \in Nat
      <4> HIDE DEF c
      <4> QED BY <3>1, <3>2 DEF c
    <3>4. Clock(PulseTime(k)) \in Nat
      BY <3>3 DEF Clock
    <3> DEFINE t == PulseTime(k)  d == Clock(PulseTime(k))
    <3> HIDE DEF t, d
    <3>5. [pulseTime |-> t, tdcClock |-> d] \in [pulseTime : Nat, tdcClock : Nat]
      BY <3>1, <3>4 DEF t, d
    <3>6. [pulseTime |-> t, tdcClock |-> d] # None
      BY <3>5, Timepix3Assumption
    <3> QED BY <3>6 DEF t, d
  <2> QED BY <2>1, EpochChange DEF HitTrue, Tick, Inv
<1> QED
  BY <1>1 DEF HitTrue

\* A cluster published adds an event that is true.
LEMMA PublishTrue ==
  ASSUME OutagesEnd, TofInv, clusters # <<>>, publishEvent(Head(clusters))
  PROVE  EventsInv'
<1> DEFINE c == Head(clusters)  pulse == lastEpochESSPulseTime.pulseTime
           tof == c.timeStart - pulse
           e == [pulse |-> pulse, tof |-> tof, at |-> firstAt(c)]
           n == EventCount + 1
<1>1. /\ EventCount \in 0 .. MaxEvents - 1 /\ DOMAIN events = 1 .. MaxEvents
      /\ MaxEvents \in Nat \ {0} /\ n \in 1 .. MaxEvents /\ TofTrue
  BY Timepix3Assumption DEF TofInv, EventsInv
<1>2. \/ UNCHANGED <<EventCount, events>>
      \/ inPulse(tof) /\ Serializer!addEvent(e)
  BY DEF publishEvent, serializer
<1>3. CASE UNCHANGED <<EventCount, events>>
  BY <1>1, <1>3 DEF EventsInv, TofTrue
<1>4. ASSUME inPulse(tof), Serializer!addEvent(e)
      PROVE  EventsInv'
  <2>1. ASSUME NEW t \in firstAt(c)
        PROVE  pulse + tof = t /\ tof <= Period
    <3>1. PICK h \in c.hits : h.time = c.timeStart /\ h.at = t
      BY DEF firstAt
    <3>2. 1 \in DOMAIN clusters /\ c = clusters[1]
      BY DEF TofInv, PixelInv
    <3>3. HitTrue(h, lastEpochESSPulseTime, now)
      BY <3>1, <3>2 DEF TofInv, HitsInv
    <3>4. /\ pulse \in Nat /\ pulse <= now /\ now \in Nat /\ t \in Nat
          /\ now - Delay <= t /\ t <= now
          /\ Delay \in Nat /\ Period \in Nat /\ PixelMax \in Nat /\ Period + Delay < PixelMax
      BY <3>1, <3>3, Timepix3Assumption
         DEF TofInv, HitTrue, EpochTyped, EpochRecent, Inv, OutagesEnd
    <3>5. c.timeStart = t \/ c.timeStart = t + PixelMax
      BY <3>1, <3>3 DEF HitTrue
    <3>6. tof >= 0 /\ tof <= Period
      BY <1>4 DEF inPulse
    <3> DEFINE start == c.timeStart
    <3>7. tof = start - pulse
      OBVIOUS
    <3> HIDE DEF start, tof, pulse, c
    <3>8. start = t
      BY <3>4, <3>5, <3>6, <3>7 DEF start
    <3> QED BY <3>4, <3>6, <3>7, <3>8
  <2>2. /\ events' = [events EXCEPT ![n] = e]
        /\ (EventCount' = n /\ ~Serializer!full(n)) \/ EventCount' = 0
    BY <1>4 DEF Serializer!addEvent, Serializer!Produce
  <2>3. e.pulse = pulse /\ e.tof = tof /\ e.at = firstAt(c)
    OBVIOUS
  <2> HIDE DEF e, tof, pulse, c
  <2>4. DOMAIN events' = 1 .. MaxEvents /\ events'[n] = e
        /\ \A i \in 1 .. MaxEvents : i # n => events'[i] = events[i]
    <3> HIDE DEF n
    <3> QED BY <1>1, <2>2
  <2>5. EventCount' \in 0 .. MaxEvents - 1
    BY <1>1, <2>2 DEF Serializer!full
  <2>6. ASSUME NEW i \in 1 .. EventCount', NEW t \in events'[i].at
        PROVE  events'[i].pulse + events'[i].tof = t /\ events'[i].tof <= Period
    <3>1. EventCount' = n /\ i \in 1 .. n
      BY <2>2
    <3>2. CASE i = n
      <4> HIDE DEF n
      <4> QED BY <2>1, <2>3, <2>4, <2>6, <3>2
    <3>3. CASE i # n
      <4>1. i \in 1 .. EventCount /\ i \in 1 .. MaxEvents /\ events'[i] = events[i]
        BY <1>1, <2>4, <3>1, <3>3
      <4> QED BY <1>1, <2>6, <4>1 DEF TofTrue
    <3> QED BY <3>2, <3>3
  <2> QED
    BY <2>4, <2>5, <2>6 DEF EventsInv, TofTrue
<1> QED
  BY <1>2, <1>3, <1>4

LEMMA HitsSteps ==
  ASSUME OutagesEnd, TofInv, [Next]_vars
  PROVE  HitsInv'
<1> DEFINE true(h) == HitTrue(h, lastEpochESSPulseTime, now)
           after(h) == HitTrue(h, lastEpochESSPulseTime', now')
<1>0. Inv /\ EpochTyped /\ EpochRecent /\ PixelInv /\ HitsInv /\ FramesInv
  BY DEF TofInv, PixelInv
<1>1. ASSUME now' = now, NEW h, true(h)
      PROVE  after(h)
  BY <1>0, <1>1, HitStaysTrue
<1>2. /\ \A w \in Windows : \A i \in DOMAIN sub2DFrames[w] : true(sub2DFrames[w][i])
      /\ \A n \in DOMAIN clusters : \A h \in clusters[n].hits : true(h)
  BY <1>0 DEF HitsInv
<1>3. ASSUME ~parsing' => \A w \in Windows : sub2DFrames'[w] = <<>>,
             \A w \in Windows : \A i \in DOMAIN sub2DFrames'[w] : after(sub2DFrames'[w][i]),
             \A n \in DOMAIN clusters' : \A h \in clusters'[n].hits : after(h)
      PROVE  HitsInv'
  BY <1>3 DEF HitsInv, HitTrue
<1> HIDE DEF true, after
<1>4. ASSUME now' = now, UNCHANGED <<sub2DFrames, clusters>>, parsing' \/ parsing' = parsing
      PROVE  HitsInv'
  <2>1. ~parsing' => \A w \in Windows : sub2DFrames'[w] = <<>>
    BY <1>0, <1>4 DEF HitsInv
  <2> QED BY <1>1, <1>2, <1>3, <1>4, <2>1
<1>5. ASSUME NEW t \in 0 .. MaxTime, NEW place \in Places, NEW weight \in Weights,
             PixelReadout(t, place, weight)
      PROVE  HitsInv'
  <2>1. /\ now' = now /\ parsing' /\ clusters' = clusters
        /\ lastEpochESSPulseTime' = lastEpochESSPulseTime
        /\ t \in Nat /\ now - Delay <= t /\ t <= now
    <3>1. t \in now - Delay .. now /\ now \in Int /\ Delay \in Int
      BY <1>0, <1>5, Timepix3Assumption DEF PixelReadout, Inv
    <3> QED BY <1>5, <3>1 DEF PixelReadout, timing
  <2>2. CASE UNCHANGED sub2DFrames
    BY <1>4, <2>1, <2>2
  <2>3. CASE ~UNCHANGED sub2DFrames
    <3>1. PICK w \in Windows, hit \in Hits :
            /\ lastEpochESSPulseTime # None
            /\ sub2DFrames' = [sub2DFrames EXCEPT ![w] = Append(sub2DFrames[w], hit)]
            /\ hit.time = calculateGlobalTime(Clock(t)) /\ hit.at = t
            /\ hit.id = <<w, Len(sub2DFrames[w]) + 1>> /\ getChunkWindowIndex(hit) = w
      BY <1>0, <1>5, <2>3, HitPlaced
    <3>2. \A v \in Windows : \A i \in DOMAIN sub2DFrames'[v] :
            \/ i \in DOMAIN sub2DFrames[v] /\ sub2DFrames'[v][i] = sub2DFrames[v][i]
            \/ sub2DFrames'[v][i] = hit
      BY <1>0, <3>1, FramesGrow
    <3>3. after(hit)
      <4>1. calculateGlobalTime(Clock(t)) \in {t, t + PixelMax}
        BY <1>0, <2>1, <3>1, GlobalTime
      <4> QED BY <2>1, <3>1, <4>1 DEF after, HitTrue
    <3>4. \A v \in Windows : \A i \in DOMAIN sub2DFrames'[v] : after(sub2DFrames'[v][i])
      BY <1>1, <1>2, <2>1, <3>2, <3>3
    <3>5. \A n \in DOMAIN clusters' : \A h \in clusters'[n].hits : after(h)
      BY <1>1, <1>2, <2>1
    <3> QED BY <1>3, <2>1, <3>4, <3>5
  <2> QED BY <2>2, <2>3
<1>6. CASE processReadouts
  <2>1. PICK sorted :
          /\ \A w \in Windows : sorted[w] \in sort_chronologically(sub2DFrames[w])
          /\ clusters' = FlattenSeq([i \in 1 .. ParallelThreads |-> cluster(sorted[i - 1])])
    BY <1>6 DEF processReadouts
  <2>2. sub2DFrames' = [w \in Windows |-> <<>>] /\ now' = now
    BY <1>6 DEF processReadouts
  <2>3. \A w \in Windows : sub2DFrames'[w] = <<>> /\ DOMAIN sub2DFrames'[w] = {}
    BY <2>2
  <2> DEFINE cs == clusters'
  <2>4. cs = FlattenSeq([i \in 1 .. ParallelThreads |-> cluster(sorted[i - 1])])
    BY <2>1
  <2> HIDE DEF cs
  <2>5. \A n \in DOMAIN cs : \A h \in cs[n].hits :
          \E w \in Windows : \E i \in DOMAIN sub2DFrames[w] : h = sub2DFrames[w][i]
    BY <1>0, <2>1, <2>4, FramesClustered
  <2>6. \A n \in DOMAIN cs : \A h \in cs[n].hits : after(h)
    BY <1>1, <1>2, <2>2, <2>5
  <2> QED BY <1>3, <2>3, <2>6 DEF cs
<1>7. ASSUME clusters # <<>>, publishEvent(Head(clusters))
      PROVE  HitsInv'
  <2>1. /\ now' = now /\ parsing' = parsing /\ sub2DFrames' = sub2DFrames
        /\ clusters' = Tail(clusters)
    BY <1>7 DEF publishEvent
  <2>2. \A i \in DOMAIN Tail(clusters) : /\ i + 1 \in DOMAIN clusters
                                         /\ Tail(clusters)[i] = clusters[i + 1]
    <3>1. clusters \in Seq(Clusters)
      BY <1>0 DEF PixelInv
    <3> QED BY <1>7, <3>1
  <2>3. \A n \in DOMAIN clusters' : \A h \in clusters'[n].hits : after(h)
    BY <1>1, <1>2, <2>1, <2>2
  <2>4. ~parsing' => \A w \in Windows : sub2DFrames'[w] = <<>>
    BY <1>0, <2>1 DEF HitsInv
  <2> QED BY <1>1, <1>2, <1>3, <2>1, <2>3, <2>4
<1>8. CASE Tick
  <2>1. ~parsing /\ clusters' = <<>> /\ UNCHANGED <<parsing, sub2DFrames>>
    BY <1>8 DEF Tick, pixels
  <2>2. \A w \in Windows : sub2DFrames'[w] = <<>> /\ DOMAIN sub2DFrames'[w] = {}
    BY <1>0, <2>1 DEF HitsInv
  <2>3. DOMAIN clusters' = {}
    BY <2>1
  <2> QED BY <1>3, <2>2, <2>3
<1>9. ASSUME NEW k \in Pulses, TDCReadout(k) \/ EVRReadout(k)
      PROVE  HitsInv'
  <2>1. now' = now /\ UNCHANGED <<sub2DFrames, clusters>> /\ (parsing' \/ parsing' = parsing)
    BY <1>9 DEF TDCReadout, EVRReadout, pixels
  <2> QED BY <1>4, <2>1
<1>10. CASE OtherReadout \/ Timeout \/ UNCHANGED vars
  <2>1. now' = now /\ UNCHANGED <<sub2DFrames, clusters>> /\ (parsing' \/ parsing' = parsing)
    BY <1>10 DEF OtherReadout, Timeout, vars, pixels
  <2> QED BY <1>4, <2>1
<1> QED
  BY <1>5, <1>6, <1>7, <1>8, <1>9, <1>10 DEF Next

LEMMA EventsSteps ==
  ASSUME OutagesEnd, TofInv, [Next]_vars
  PROVE  EventsInv'
<1>0. EventsInv /\ MaxEvents \in Nat \ {0}
  BY Timepix3Assumption DEF TofInv
<1>1. CASE UNCHANGED <<EventCount, events>>
  BY <1>0, <1>1 DEF EventsInv, TofTrue
<1>2. ASSUME NEW k \in Pulses, TDCReadout(k) \/ EVRReadout(k)
      PROVE  UNCHANGED <<EventCount, events>>
  BY <1>2 DEF TDCReadout, EVRReadout, publishData, Serializer!setReferenceTime, serializer
<1>3. ASSUME NEW t \in 0 .. MaxTime, NEW place \in Places, NEW weight \in Weights,
             PixelReadout(t, place, weight)
      PROVE  UNCHANGED <<EventCount, events>>
  BY <1>3 DEF PixelReadout, serializer
<1>4. CASE OtherReadout \/ processReadouts \/ Tick \/ UNCHANGED vars
  BY <1>1, <1>4 DEF OtherReadout, processReadouts, Tick, vars, serializer
<1>5. CASE Timeout
  <2>1. EventCount' = 0 /\ events' = events
    BY <1>5 DEF Timeout, Serializer!produce, Serializer!Produce
  <2>2. 0 \in 0 .. MaxEvents - 1 /\ 1 .. 0 = {}
    BY <1>0
  <2> QED BY <1>0, <2>1, <2>2 DEF EventsInv, TofTrue
<1>6. ASSUME clusters # <<>>, publishEvent(Head(clusters))
      PROVE  EventsInv'
  BY <1>6, PublishTrue
<1> QED
  BY <1>1, <1>2, <1>3, <1>4, <1>5, <1>6 DEF Next

\* Every event that waits bears the true time of its first hit: the clock's
\* wraps, hits from before the pulse, and a new pair in the middle of a packet
\* forge no time of flight, as long as pairs keep coming (PixelEventHandler::
\* calculateGlobalTime, publishEvents).
THEOREM TofsTrue == OutagesEnd => (Spec => []TofTrue)
<1> SUFFICES ASSUME OutagesEnd PROVE Spec => []TofTrue
  OBVIOUS
<1>1. Init => TofInv
  <2> SUFFICES ASSUME Init PROVE TofInv
    OBVIOUS
  <2>1. Inv /\ EpochTyped /\ PixelInv
    BY PixelInit
  <2>2. EpochRecent /\ HitsInv
    BY DEF Init, EpochRecent, HitsInv
  <2>3. EventsInv
    <3>1. EventCount = 0 /\ DOMAIN events = 1 .. MaxEvents /\ MaxEvents \in Nat \ {0} /\ 1 .. 0 = {}
      BY Timepix3Assumption DEF Init, Serializer!Init
    <3> QED BY <3>1 DEF EventsInv, TofTrue
  <2> QED BY <2>1, <2>2, <2>3 DEF TofInv
<1>2. TofInv /\ [Next]_vars => TofInv'
  <2> SUFFICES ASSUME TofInv, [Next]_vars PROVE TofInv'
    OBVIOUS
  <2>1. Inv' /\ EpochTyped' /\ EpochRecent' /\ PixelInv'
    BY InvInductive, EpochStaysTyped, EpochStaysRecent, PixelSteps DEF TofInv
  <2> QED BY <2>1, HitsSteps, EventsSteps DEF TofInv
<1>3. TofInv => TofTrue
  BY DEF TofInv, EventsInv
<1> QED
  BY <1>1, <1>2, <1>3, PTL DEF Spec
=============================================================================

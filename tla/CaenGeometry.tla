---------------------------- MODULE CaenGeometry ----------------------------
(***************************************************************************)
(* The geometries of the instruments with CAEN readouts (modules/caen,     *)
(* loki, bifrost, miracles, cspec, tbl3he): a readout has the charges at   *)
(* the ends of a group of tubes, and what share of them is at one end says *)
(* which tube, and where along it, a neutron was detected.  Shares are     *)
(* fractions; the intervals and polynomials of the calibration are in      *)
(* units of 1/Scale.                                                       *)
(***************************************************************************)
EXTENDS DetectorGeometry, SequencesExt

CONSTANTS CaenConfigurations,
          CaenReadouts,
          Scale

CaenInstruments == {"loki", "bifrost", "miracles", "cspec", "tbl3he"}

CaenMaxRing == 11

\* calibration: by group, the intervals of the units and the coefficients of
\* their corrections.  topology: the entries of a tbl3he configuration, each a
\* ring, FEN and bank, or of a loki configuration, each a ring with its bank, the
\* number of its FENs and of those before it in the bank.  banks, of loki, are all
\* in the table, and so are the banks of the topology, which LokiConfig.cpp:75
\* does not check; nor does Tbl3HeConfig.cpp:76 that a bank is not negative.
\* Amplitudes are signed 16 bit numbers.
ASSUME CaenAssumption ==
  /\ Scale \in Nat \ {0}
  /\ \A c \in CaenConfigurations :
       /\ {c.MaxFEN, c.MaxGroup, c.Resolution, c.MaxAmpl, c.MinAmpl, c.GroupsZ,
           c.NumOfFENs, c.groupsize} \subseteq Nat
       /\ c.calibration \in Seq([intervals : Seq(Seq(Int)), polynomials : Seq(Seq(Int))])
       /\ c.banks \in Seq([Bank : Int, GroupsN : Nat, YOffset : Nat])
       /\ c.instrument = "loki" => \A i \in DOMAIN c.topology : c.topology[i].Bank \in 0 .. 8
       /\ c.instrument = "tbl3he" => c.topology \in Seq([Ring : Int, FEN : Int, Bank : Nat])
  /\ CaenReadouts \subseteq [fiber : 0 .. 255, fen : 0 .. 255, group : 0 .. 255,
                             A : Int, B : Int, C : Int, D : Int]

CaenCounters ==
  BaseCounters \cup {"GroupErrors", "AmplitudeZero", "AmplitudeHigh", "AmplitudeLow",
                     "GlobalPosInvalid", "UnitIdInvalid",
                     "CalibrationGroupErrors", "OutsideInterval", "ClampLow", "ClampHigh"}
-----------------------------------------------------------------------------
\* Division as C has it, rounding to zero, and to the nearest number.
truncated(n, d) ==
  IF d < 0 THEN (IF n <= 0 THEN (-n) \div (-d) ELSE -(n \div (-d)))
           ELSE (IF n >= 0 THEN n \div d ELSE -((-n) \div d))
nearest(n, d) == IF n >= 0 THEN (2 * n + d) \div (2 * d) ELSE -((d - 2 * n) \div (2 * d))

gcd[m \in Nat, n \in Nat] == IF n = 0 THEN m ELSE gcd[n, m % n]

\* n out of d, which is not 0, in lowest terms.
share(n, d) ==
  LET size(k) == IF k > 0 THEN k ELSE -k
      most == gcd[size(n), size(d)]
  IN  [n |-> IF d > 0 THEN n \div most ELSE (-n) \div most, d |-> size(d) \div most]

isShare(p) == p.n \in 0 .. p.d

\* Endpoints may come in either order.
lower(i) == IF i[1] <= i[2] THEN i[1] ELSE i[2]
upper(i) == IF i[1] <= i[2] THEN i[2] ELSE i[1]

contains(i, p) == lower(i) * p.d <= p.n * Scale /\ p.n * Scale <= upper(i) * p.d
-----------------------------------------------------------------------------
\* Neighbors in an order.
neighbors(S, before(_, _)) ==
  {n \in S \X S : before(n[1], n[2]) /\ \A k \in S : ~(before(n[1], k) /\ before(k, n[2]))}

\* Mutant: an interval that is the other way round is not turned.
overlaps_AsGiven(intervals) ==
  LET before(i, j) == \/ intervals[i][1] < intervals[j][1]
                      \/ intervals[i][1] = intervals[j][1] /\ i < j
  IN  \E n \in neighbors(DOMAIN intervals, before) : intervals[n[1]][2] >= intervals[n[2]][1]

\* Neighbors, once sorted, are compared.  Intervals that touch overlap.
overlaps(intervals) ==
  LET before(i, j) == \/ lower(intervals[i]) < lower(intervals[j])
                      \/ /\ lower(intervals[i]) = lower(intervals[j])
                         /\ \/ upper(intervals[i]) > upper(intervals[j])
                            \/ (upper(intervals[i]) = upper(intervals[j]) /\ i < j)
  IN  \E n \in neighbors(DOMAIN intervals, before) :
        upper(intervals[n[1]]) >= lower(intervals[n[2]])

inUnitInterval(i) == {i[1], i[2]} \subseteq 0 .. Scale

\* CDCalibration::consistencyCheck(); the program does not start without it.
consistent(group, size) ==
  /\ Len(group.intervals) = size /\ ~overlaps(group.intervals)
  /\ \A i \in ToSet(group.intervals) : inUnitInterval(i)
  /\ Len(group.polynomials) = size
  /\ \A coefficients \in ToSet(group.polynomials) : Len(coefficients) = 4

\* LokiConfig::parseConfig().  What is not in a table is skipped, and a later
\* entry replaces an earlier one, of which the groups have been counted.
NumRings == 12
NumBanks == 9

Rings(c) == {c.topology[i].Ring : i \in DOMAIN c.topology} \cap (0 .. NumRings - 1)

Bank(c, b) ==
  LET entries == {i \in DOMAIN c.banks : c.banks[i].Bank = b}
  IN  IF entries = {} THEN [Bank |-> b, GroupsN |-> 0, YOffset |-> 0] ELSE c.banks[Max(entries)]

Ring(c, ring) == c.topology[Max({i \in DOMAIN c.topology : c.topology[i].Ring = ring})]

TotalGroups(c) ==
  FoldLeft(LAMBDA n, b : n + IF b.Bank \in 0 .. NumBanks - 1 THEN b.GroupsN * c.GroupsZ ELSE 0,
           0, c.banks)

\* Tbl3HeConfig::parseConfig().  The topology is a HashMap2D with a column for
\* each FEN there is, and rings are its columns: a ring and FEN may have the index
\* of another.
topologyIndex(c, ring, fen) == fen * c.NumOfFENs + ring

topologyAccepted(c) ==
  c.instrument = "tbl3he" =>
    /\ Len(c.topology) = c.NumOfFENs
    /\ \A i \in DOMAIN c.topology :
         /\ c.topology[i].Ring \in 0 .. CaenMaxRing
         /\ \A j \in 1 .. i - 1 :
              topologyIndex(c, c.topology[i].Ring, c.topology[i].FEN)
                # topologyIndex(c, c.topology[j].Ring, c.topology[j].FEN)

topologyEntries(r) ==
  {e \in ToSet(configuration.topology) :
     topologyIndex(configuration, e.Ring, e.FEN)
       = topologyIndex(configuration, calcRing(r), r.fen)}

accepted(c) ==
  /\ c.instrument \in CaenInstruments
  /\ topologyAccepted(c)
  /\ \A i \in DOMAIN c.calibration : consistent(c.calibration[i], c.groupsize)

CaenInit ==
  /\ configuration \in {c \in CaenConfigurations : accepted(c)}
  /\ counters = [c \in CaenCounters |-> 0]
  /\ readouts = 0 /\ events = {}
-----------------------------------------------------------------------------
\* Groups are counted from 0.
intervals(group) == configuration.calibration[group + 1].intervals

groups == Len(configuration.calibration)

\* Units are 0 .. n - 1; -1 is none.  The first interval wins.
getUnitId(group, p) ==
  LET units == {u \in 0 .. Len(intervals(group)) - 1 : contains(intervals(group)[u + 1], p)}
  IN  IF group >= groups THEN [unit |-> -1, counters |-> {"CalibrationGroupErrors"}]
      ELSE IF units = {} THEN [unit |-> -1, counters |-> {"OutsideInterval"}]
      ELSE [unit |-> CHOOSE u \in units : \A v \in units : u <= v, counters |-> {}]

\* p less a polynomial of p.
posCorrection(group, unit, p) ==
  LET k == configuration.calibration[group + 1].polynomials[unit + 1]
      d == Scale * p.d * p.d * p.d
      delta == k[1] * p.d * p.d * p.d + k[2] * p.n * p.d * p.d
               + k[3] * p.n * p.n * p.d + k[4] * p.n * p.n * p.n
      n == Scale * p.n * p.d * p.d - delta
  IN  CASE n < 0 -> [n |-> 0, d |-> 1, counters |-> {"ClampLow"}]
        [] n > d -> [n |-> 1, d |-> 1, counters |-> {"ClampHigh"}]
        [] OTHER -> [n |-> n, d |-> d, counters |-> {}]

\* Mutant: from its lower endpoint to its upper.
rawUnitPos_Turned(i, p) ==
  share(p.n * Scale - lower(i) * p.d, (upper(i) - lower(i)) * p.d)

\* Where p is in an interval, from its first endpoint to its second.
rawUnitPos(i, p) ==
  share(p.n * Scale - i[1] * p.d, (i[2] - i[1]) * p.d)

\* bifrost and tbl3he: the unit, and the position along it.
calcUnitAndPos(group, r) ==
  LET p == share(r.A, r.A + r.B)
      found == getUnitId(group, p)
  IN  IF ~isShare(p) THEN [unit |-> -1, counters |-> {"GlobalPosInvalid"}]
      ELSE IF found.unit = -1 THEN [found EXCEPT !.counters = @ \cup {"UnitIdInvalid"}]
      ELSE [unit |-> found.unit, pos |-> rawUnitPos(intervals(group)[found.unit + 1], p),
            counters |-> {}]
-----------------------------------------------------------------------------
validateGroup(r) == check(r.group <= configuration.MaxGroup, "GroupErrors")
validateAmplitudeZero(r) == check(r.A + r.B # 0, "AmplitudeZero")
validateAmplitudeHigh(r) == check(r.A + r.B <= configuration.MaxAmpl, "AmplitudeHigh")
validateAmplitudeLow(r) ==
  check(r.A >= configuration.MinAmpl /\ r.B >= configuration.MinAmpl, "AmplitudeLow")

-----------------------------------------------------------------------------
\* LOKI.  Two charges of four say which straw, two others where along it.
lokiRing(r) == Ring(configuration, calcRing(r))

lokiBank(r) == Bank(configuration, lokiRing(r).Bank)

lokiChecks(r) ==
  LET known == calcRing(r) \in Rings(configuration)
  IN  <<check(calcRing(r) < NumRings, "RingErrors"), check(known, "RingMappingErrors"),
        check(known /\ r.fen < lokiRing(r).FENs, "TopologyError")>>

\* The groups of a bank lie in four layers; each FEN has two of a layer.
getGlobalGroup(r) ==
  LET b == lokiBank(r)
  IN  (b.YOffset \div 7) + (r.group % 4) * b.GroupsN + (lokiRing(r).FENOffset + r.fen) * 2
        + (r.group \div 4)

getY(r, unit) ==
  LET b == lokiBank(r)
  IN  b.YOffset + (r.group % 4) * b.GroupsN * 7 + (lokiRing(r).FENOffset + r.fen) * 14
        + 7 * (r.group \div 4) + unit

lokiPixel(r) ==
  LET all == r.A + r.B + r.C + r.D
      p == share(r.A + r.B, all)
      straw == getUnitId(getGlobalGroup(r), share(r.B + r.D, all))
      pos == posCorrection(getGlobalGroup(r), straw.unit, p)
      x == nearest(pos.n * (configuration.Resolution - 1), pos.d)
  IN  IF all = 0 THEN Pixel(0, {"AmplitudeZero"})
      ELSE IF ~isShare(p) THEN Pixel(0, {})
      ELSE IF straw.unit = -1 THEN Pixel(0, straw.counters)
      ELSE Pixel(pixel2D(configuration.Resolution, TotalGroups(configuration) * 7,
                         x, getY(r, straw.unit)), pos.counters)
-----------------------------------------------------------------------------
\* BIFROST.  Three tubes make a triplet, a group; 15 triplets make a ring.
bifrostChecks(r) ==
  <<validateRing(r, CaenMaxRing), validateFEN(r, configuration.MaxFEN), validateGroup(r),
    validateAmplitudeZero(r), validateAmplitudeHigh(r)>>

bifrostGroup(r) == calcRing(r) * 15 + r.group

\* Mutant: the arc is the triplet's number in its ring.
bifrostY_Triplet(r, unit) == (r.group % 3) * 3 + unit

bifrostY(r, unit) == (r.group \div 3) * 3 + unit

bifrostX(r, pos) ==
  calcRing(r) * configuration.Resolution + (r.group % 3) * 100 + truncated(pos.n * 99, pos.d)

bifrostPixel(r) ==
  LET at == calcUnitAndPos(bifrostGroup(r), r)
  IN  IF at.unit = -1 THEN Pixel(0, at.counters)
      ELSE Pixel(pixel2D(900, 15, bifrostX(r, at.pos), bifrostY(r, at.unit)), {})
-----------------------------------------------------------------------------
\* MIRACLES.  Each end of a pair of tubes; half of the share is one tube's.
miraclesChecks(r) ==
  <<validateRing(r, CaenMaxRing), validateAmplitudeZero(r), validateAmplitudeHigh(r)>>

tubeAorB(r) == IF r.A >= r.B THEN 0 ELSE 1

half == configuration.Resolution \div 2

miraclesX(r) == 2 * r.group + (IF calcRing(r) \in {1, 3} THEN 24 ELSE 0) + tubeAorB(r)

\* (half - 1) - (A / (A + B) - 1/2) * 2 * (half - 1), or A / (A + B) * 2 * (half - 1).
miraclesPosAlongUnit(r) ==
  IF tubeAorB(r) = 0 THEN nearest(2 * (half - 1) * r.B, r.A + r.B)
                     ELSE truncated(2 * (half - 1) * r.A, r.A + r.B)

miraclesY(r) == (IF calcRing(r) \in {2, 3} THEN half ELSE 0) + miraclesPosAlongUnit(r)

miraclesPixel(r) == Pixel(pixel2D(48, 128, miraclesX(r), miraclesY(r)), {})
-----------------------------------------------------------------------------
\* CSPEC.  24 groups of a ring, next to each other.
cspecChecks(r) ==
  <<validateRing(r, CaenMaxRing), validateFEN(r, configuration.MaxFEN), validateGroup(r)>>

cspecX(r) ==
  calcRing(r) * configuration.Resolution + (r.group % 24) * (configuration.Resolution \div 24)

cspecPosAlongUnit(r) ==
  IF r.A + r.B = 0 THEN -1 ELSE truncated((configuration.Resolution - 1) * r.A, r.A + r.B)

cspecPixel(r) == Pixel(pixel2D(900, 180, cspecX(r), cspecPosAlongUnit(r)), {})
-----------------------------------------------------------------------------
\* TBL3HE.  The ring and FEN say which bank; a bank has four tubes.
tbl3heChecks(r) ==
  <<validateRing(r, CaenMaxRing), validateGroup(r),
    check(topologyEntries(r) # {}, "TopologyError"),
    validateAmplitudeLow(r), validateAmplitudeZero(r)>>

tbl3heBank(r) == (CHOOSE e \in topologyEntries(r) : TRUE).Bank

tbl3heGroup(r) == tbl3heBank(r) * 4 + r.group

tbl3hePixel(r) ==
  LET at == calcUnitAndPos(tbl3heGroup(r), r)
      pos == posCorrection(tbl3heGroup(r), at.unit, at.pos)
  IN  IF at.unit = -1 THEN Pixel(0, at.counters)
      ELSE Pixel(pixel2D(100, 8, truncated(pos.n * 99, pos.d), tbl3heGroup(r)), pos.counters)
-----------------------------------------------------------------------------
caenChecks(r) ==
  CASE configuration.instrument = "loki" -> lokiChecks(r)
    [] configuration.instrument = "bifrost" -> bifrostChecks(r)
    [] configuration.instrument = "miracles" -> miraclesChecks(r)
    [] configuration.instrument = "cspec" -> cspecChecks(r)
    [] configuration.instrument = "tbl3he" -> tbl3heChecks(r)

\* Only of a readout that has passed the checks.
caenPixel(r) ==
  CASE configuration.instrument = "loki" -> lokiPixel(r)
    [] configuration.instrument = "bifrost" -> bifrostPixel(r)
    [] configuration.instrument = "miracles" -> miraclesPixel(r)
    [] configuration.instrument = "cspec" -> cspecPixel(r)
    [] configuration.instrument = "tbl3he" -> tbl3hePixel(r)

numSerializers ==
  CASE configuration.instrument = "bifrost" -> 15 * (CaenMaxRing + 1)
    [] configuration.instrument = "tbl3he" -> 2
    [] OTHER -> 1

\* Mutant: all rings share the serializers of a ring.
calcSerializer_Group(r) ==
  CASE configuration.instrument = "bifrost" -> r.group
    [] configuration.instrument = "tbl3he" -> tbl3heBank(r)
    [] OTHER -> 0

\* One for each triplet, one for each bank, or one.
calcSerializer(r) ==
  CASE configuration.instrument = "bifrost" -> bifrostGroup(r)
    [] configuration.instrument = "tbl3he" -> tbl3heBank(r)
    [] OTHER -> 0

CaenReadout(r) ==
  ProcessReadout(r, caenChecks(r), caenPixel(r), calcSerializer(r), numSerializers)

CaenNext ==
  /\ configuration.instrument \in CaenInstruments
  /\ \E r \in CaenReadouts : CaenReadout(r)

CaenSpec == CaenInit /\ [][CaenNext]_vars
-----------------------------------------------------------------------------
CaenEvents == IF configuration.instrument \in CaenInstruments THEN events ELSE {}

calibrated == configuration.instrument \in {"loki", "bifrost", "tbl3he"}

calibrationGroup(r) ==
  CASE configuration.instrument = "loki" -> getGlobalGroup(r)
    [] configuration.instrument = "bifrost" -> bifrostGroup(r)
    [] configuration.instrument = "tbl3he" -> tbl3heGroup(r)

unitShare(r) ==
  IF configuration.instrument = "loki" THEN share(r.B + r.D, r.A + r.B + r.C + r.D)
                                       ELSE share(r.A, r.A + r.B)

unitsOf(r) ==
  LET i == intervals(calibrationGroup(r))
  IN  {u \in DOMAIN i : contains(i[u], unitShare(r))}

\* No event could be of two units: a calibration with intervals that have a point
\* in common, in whatever order they are and whichever way round, is not accepted.
UnitsApart ==
  calibrated => \A e \in CaenEvents : Cardinality(unitsOf(e.readout)) = 1

\* The tube or straw that has detected the neutron.  MIRACLES does not ask which
\* FEN of a ring a readout is from.
tube(r) ==
  <<calcRing(r), IF configuration.instrument = "miracles" THEN 0 ELSE r.fen, r.group,
    IF calibrated THEN unitsOf(r)
    ELSE IF configuration.instrument = "miracles" THEN {tubeAorB(r)} ELSE {}>>

connected(r) ==
  configuration.instrument = "tbl3he" =>
    \E e \in ToSet(configuration.topology) : e.Ring = calcRing(r) /\ e.FEN = r.fen

\* Two tubes never share a pixel, of whatever rings, FENs and groups they are.  (A
\* ring and FEN that tbl3he has not in its topology may pass for one it has.)
TubesApart ==
  \A e, f \in CaenEvents :
    connected(e.readout) /\ connected(f.readout) /\ e.pixel = f.pixel
      => tube(e.readout) = tube(f.readout)

\* Where along its tube an event is, by its charges and by its pixel.
charge(r) ==
  IF configuration.instrument = "loki" THEN share(r.A + r.B, r.A + r.B + r.C + r.D)
                                       ELSE share(r.A, r.A + r.B)
along(e) ==
  CASE configuration.instrument = "miracles" -> (e.pixel - 1) \div 48
    [] configuration.instrument = "cspec" -> (e.pixel - 1) \div 900
    [] configuration.instrument = "loki" -> (e.pixel - 1) % configuration.Resolution
    [] OTHER -> (e.pixel - 1) % 100

\* The end with the first charge comes last.
backwards(r) ==
  IF configuration.instrument = "miracles" THEN tubeAorB(r) = 0
  ELSE configuration.instrument \in {"bifrost", "tbl3he"} /\
       \E u \in unitsOf(r) : LET i == intervals(calibrationGroup(r))[u] IN i[1] > i[2]

corrected(r) ==
  calibrated /\ \E k \in ToSet(configuration.calibration[calibrationGroup(r) + 1].polynomials) :
                  k # <<0, 0, 0, 0>>

\* Along a tube the pixels have the order of the charges, whichever way round the
\* tube's interval is, unless the calibration bends it.
AlongTube ==
  \A e, f \in CaenEvents :
    LET p == charge(e.readout)  q == charge(f.readout)
    IN  tube(e.readout) = tube(f.readout) /\ ~corrected(e.readout) /\ p.n * q.d < q.n * p.d
          => IF backwards(e.readout) THEN along(e) >= along(f) ELSE along(e) <= along(f)

\* A serializer's events are those of one triplet, or of one bank: two events go
\* out in one message just when their pixels are of the same rectangle.
SerializersApart ==
  LET triplet(e) == <<((e.pixel - 1) % 900) \div 100, ((e.pixel - 1) \div 900) \div 3>>
      bank(e) == ((e.pixel - 1) \div 100) \div 4
  IN  \A e, f \in CaenEvents :
        CASE configuration.instrument = "bifrost" ->
               (e.serializer = f.serializer) <=> (triplet(e) = triplet(f))
          [] configuration.instrument = "tbl3he" ->
               (e.serializer = f.serializer) <=> (bank(e) = bank(f))
          [] OTHER -> e.serializer = f.serializer
=============================================================================

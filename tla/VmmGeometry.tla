----------------------------- MODULE VmmGeometry ----------------------------
(***************************************************************************)
(* The configurations and geometries of the instruments with VMM3 readouts *)
(* (common/readout/vmm3, common/geometry/vmm3, modules/freia, trex, nmx):  *)
(* which wire, grid or strip a readout is of, which event builder its hit  *)
(* is for, and which pixel a hit of each plane make.  When hits make an    *)
(* event is VmmInstrument's; here a packet has the readouts of neutrons    *)
(* with one hit of each plane.                                             *)
(***************************************************************************)
EXTENDS DetectorGeometry, SequencesExt

CONSTANTS VmmConfigurations,
          VmmPackets

VmmInstruments == {"Freia", "AMOR", "Estia", "TREX", "LET", "NMX"}
Multiblades == {"Freia", "AMOR", "Estia"}
Multigrids == {"TREX", "LET"}

VmmMaxRing == 10
VmmMaxFEN == 13
VmmMaxHybrid == 10
CHANNELS == 64
MaxADC == 1023
InvalidCoord == 65535
UInt16 == 0 .. InvalidCoord

\* Config: the hybrids, each with what its instrument configures of it: of a
\* multiblade the cassette and a threshold of each asic, of a multigrid the vessel,
\* of NMX the plane, the panel, and where in it the hybrid is.
\* NMX uses Plane and Panel unchecked; TREX and LET do so with the ring and the FEN
\* of a readout, so that theirs are of the table (TREXInstrument.cpp:120).
ASSUME VmmAssumption ==
  /\ \A c \in VmmConfigurations :
       /\ c.instrument \in VmmInstruments
       /\ \A i \in DOMAIN c.Config :
            /\ {c.Config[i].Ring, c.Config[i].FEN, c.Config[i].Hybrid,
                c.Config[i].CassetteNumber} \subseteq 0 .. 255
            /\ c.Config[i].Offset \in Nat
            /\ c.Config[i].Plane \in 0 .. 1 /\ c.Config[i].Panel \in 0 .. 3
            /\ c.Config[i].VesselId \in DOMAIN c.Vessel_Config
       /\ \A v \in DOMAIN c.Vessel_Config :
            c.Vessel_Config[v] \in [Rotation : BOOLEAN, Short : BOOLEAN, XOffset : UInt16,
                                    YOffset : UInt16, MinADC : UInt16]
       /\ {c.SizeX, c.SizeY, c.SizeZ, c.DefaultMinADC} \subseteq Nat
  /\ \A i \in VmmInstruments : \A p \in VmmPackets[i] :
       p \in Seq([fiber : 0 .. 23, fen : 0 .. 23, vmm : 0 .. 15, channel : 0 .. 63,
                  over : BOOLEAN, adc : 0 .. MaxADC])

VARIABLE hits   \* so far, each with its readout; in the order of insertion

VmmCounters ==
  BaseCounters \cup {"HybridMappingErrors", "InvalidXCoord", "InvalidYCoord", "CoordOverflow",
                     "StripChannelRangeErrors", "WireChannelRangeErrors", "ADCErrors",
                     "ChannelRangeErrors", "ADCBelowThreshold", "MaxADC", "MinADC",
                     "MappingErrors"}
-----------------------------------------------------------------------------
\* Of the length of an id.
validHybridId(id) == id # "short"

location(e) == <<e.Ring, e.FEN, e.Hybrid>>

\* VMM3Config::applyVMM3Config().
configGood(c) ==
  \A i \in DOMAIN c.Config :
    LET e == c.Config[i]
    IN  /\ e.Ring <= VmmMaxRing /\ e.FEN <= VmmMaxFEN /\ e.Hybrid <= VmmMaxHybrid
        /\ validHybridId(e.HybridId)
        /\ \A j \in 1 .. i - 1 :
             c.Config[j].HybridId # e.HybridId /\ location(c.Config[j]) # location(e)

\* The calibration file; vmm has, for each asic, its entries, one for a channel.
calibrationGood(c) ==
  /\ c.CalibrationVersion = 1
  /\ \A k \in DOMAIN c.Calibrations :
       /\ \E i \in DOMAIN c.Config : c.Config[i].HybridId = c.Calibrations[k].HybridId
       /\ \A asic \in 1 .. 2 : Len(c.Calibrations[k].vmm[asic]) = CHANNELS

\* NMXInstrument::checkConfigAndGeometry(): the 128 strips of each hybrid are not
\* those of another of its plane and panel.
NMXGood(c) ==
  \A i, j \in DOMAIN c.Config :
    LET strips(k) == {(c.Config[k].Offset + s) % 65536 : s \in 0 .. 127}
    IN  i # j /\ c.Config[i].Plane = c.Config[j].Plane /\ c.Config[i].Panel = c.Config[j].Panel
          => strips(i) \cap strips(j) = {}

\* freia::Config::applyConfig(), and NMX.
vmmAccepted(c) ==
  /\ configGood(c) /\ calibrationGood(c)
  /\ c.instrument \in Multiblades =>
       /\ c.Version = 1
       /\ \A i \in DOMAIN c.Config :
            \A asic \in 1 .. 2 : Len(c.Config[i].Thresholds[asic]) = 1
  /\ c.instrument = "NMX" => NMXGood(c)

VmmInit ==
  /\ configuration \in {c \in VmmConfigurations : vmmAccepted(c)}
  /\ counters = [c \in VmmCounters |-> 0]
  /\ readouts = 0 /\ events = {} /\ hits = <<>>
-----------------------------------------------------------------------------
instrument == configuration.instrument

calcHybridId(r) == r.vmm \div 2
Asic(r) == r.vmm % 2

OTADC(r) == (IF r.over THEN 32768 ELSE 0) + r.adc

\* The hybrid of a readout: one at most is configured.
hybrids(r) ==
  {i \in DOMAIN configuration.Config :
     location(configuration.Config[i]) = <<calcRing(r), r.fen, calcHybridId(r)>>}

Initialised(r) == hybrids(r) # {}

HybridIndex(r) == CHOOSE i \in hybrids(r) : TRUE
Hybrid(r) == configuration.Config[HybridIndex(r)]

\* Mutant: hybrids are numbered in their FEN.
HybridNumber_Local(r) == Hybrid(r).Hybrid

\* Hybrids are numbered as they are configured.
HybridNumber(r) == HybridIndex(r) - 1

\* The last calibration of a hybrid counts.
ADCCorr(r) ==
  LET of == {k \in DOMAIN configuration.Calibrations :
               configuration.Calibrations[k].HybridId = Hybrid(r).HybridId}
      cal == configuration.Calibrations[Max(of)].vmm[Asic(r) + 1][r.channel + 1]
      corrected == (r.adc - cal.offset) * cal.slope
  IN  IF of = {} THEN r.adc
      ELSE IF corrected > MaxADC THEN MaxADC ELSE IF corrected < 0 THEN 0 ELSE corrected

validateHybrid(r) == check(Initialised(r), "HybridMappingErrors")

\* What a readout comes to: the counters it increments, and its hit, if any.
\* Planes are 0 and 1, X and Y.
NoHit(C) == [counters |-> {"Readouts"} \cup C, hits |-> <<>>]

Hit(r, plane, coord, adc, builder, C) ==
  [counters |-> {"Readouts"} \cup C,
   hits |-> <<[readout |-> r, plane |-> plane, coord |-> coord, adc |-> adc,
               builder |-> builder]>>]
-----------------------------------------------------------------------------
\* FREIA, AMOR, ESTIA: a hybrid has the 32 wires and the 64 strips of a cassette.
isXCoord(r) == IF instrument = "AMOR" THEN r.vmm % 2 = 0 ELSE r.vmm % 2 = 1

usesWires(r) == isXCoord(r) <=> instrument = "Estia"

coordCounter(r) == IF isXCoord(r) THEN "InvalidXCoord" ELSE "InvalidYCoord"

validateChannel(r) ==
  IF usesWires(r) THEN check(r.channel \in 16 .. 47, "WireChannelRangeErrors")
                  ELSE check(r.channel < 64, "StripChannelRangeErrors")

multibladeChecks(r) ==
  <<validateRing(r, VmmMaxRing), validateFEN(r, VmmMaxFEN), validateHybrid(r),
    validateChannel(r)>>

\* Offsets of a cassette in the plane.
XOffset(e) == IF instrument = "Estia" THEN (e.CassetteNumber % 48) * 32 ELSE 0

\* Mutant: ESTIA's cassettes are as high as the others.
YOffset_Flat(e) == IF instrument = "Estia" THEN (e.CassetteNumber \div 48) * 32
                                           ELSE e.CassetteNumber * 32

YOffset(e) == IF instrument = "Estia" THEN (e.CassetteNumber \div 48) * 64
                                      ELSE e.CassetteNumber * 32

calcFromWire(offset, channel) ==
  IF instrument = "Estia" THEN offset + channel - 16 ELSE offset + 47 - channel

calcFromStrip(offset, channel) == offset + 63 - channel

calculateCoordinate(r) ==
  LET offset == IF isXCoord(r) THEN XOffset(Hybrid(r)) ELSE YOffset(Hybrid(r))
  IN  IF usesWires(r) THEN calcFromWire(offset, r.channel) ELSE calcFromStrip(offset, r.channel)

\* The threshold is compared with all bits of OTADC.
belowThreshold(r) == OTADC(r) < Hybrid(r).Thresholds[Asic(r) + 1][1]

multiblade(r) ==
  LET checks == multibladeChecks(r)
      failed == failure(checks)
      limit == IF ADCCorr(r) >= MaxADC THEN {"MaxADC"} ELSE {}
  IN  IF ~validateAll(checks)
      THEN NoHit({"ValidationErrors", failed}
                 \cup IF failed = validateChannel(r).counter THEN {coordCounter(r)} ELSE {})
      ELSE IF belowThreshold(r) THEN NoHit({"ADCBelowThreshold"})
      ELSE IF calculateCoordinate(r) >= InvalidCoord
      THEN NoHit(limit \cup {"CoordOverflow", coordCounter(r)})
      ELSE Hit(r, IF isXCoord(r) THEN 0 ELSE 1, calculateCoordinate(r), ADCCorr(r),
               HybridNumber(r), limit)
-----------------------------------------------------------------------------
\* TREX, LET: vessels of 2 columns of 6 * 16 wires, with grids along them.
Vessel(r) == configuration.Vessel_Config[Hybrid(r).VesselId]

isWire(r) == calcHybridId(r) = IF instrument = "LET" THEN 1 ELSE 0

\* LET has its wires swapped in pairs.
wireChannel(r) ==
  IF instrument = "TREX" THEN r.channel
  ELSE IF r.channel % 2 = 0 THEN r.channel + 1 ELSE r.channel - 1

validWireMapping(r) == Asic(r) = 0 => wireChannel(r) \in 32 .. 63

secondColumn(r) == IF instrument = "TREX" THEN r.fen % 2 = 1 ELSE calcRing(r) % 2 = 0

\* 16 * x + z.  Rotated, the vessel's 12 columns of wires are the other way round.
xAndzCoord(r) ==
  LET upright == Asic(r) * 64 + wireChannel(r) - 32 + (IF secondColumn(r) THEN 96 ELSE 0)
      wire == IF Vessel(r).Rotation THEN 16 * (11 - upright \div 16) + (upright % 16) ELSE upright
  IN  (wire + 16 * Vessel(r).XOffset) % 65536

\* A short vessel has its grids on one asic, the others on two hybrids.
validGridMapping(r) ==
  LET h == calcHybridId(r)
  IN  IF Vessel(r).Short
      THEN h = (IF instrument = "LET" THEN 0 ELSE 1) /\ Asic(r) = 0 /\ r.channel <= 50
      ELSE \/ h = 1 /\ (Asic(r) = 0 => r.channel >= 58)
           \/ h = 2 /\ (Asic(r) = 1 => r.channel <= 5)

gridCoord(r) ==
  LET grid == IF Vessel(r).Short THEN r.channel
              ELSE (calcHybridId(r) * 2 + Asic(r) - 2) * 64 + r.channel - 58
  IN  ((IF Vessel(r).Rotation THEN -grid ELSE grid) + Vessel(r).YOffset) % 65536

validMapping(r) == IF isWire(r) THEN validWireMapping(r) ELSE validGridMapping(r)

multigridCoord(r) == IF isWire(r) THEN xAndzCoord(r) ELSE gridCoord(r)

multigrid(r) ==
  IF ~Initialised(r) THEN NoHit({"HybridMappingErrors"})
  ELSE IF r.adc < Vessel(r).MinADC THEN NoHit({"MinADC"})
  ELSE IF ~validMapping(r) \/ multigridCoord(r) = InvalidCoord THEN NoHit({"MappingErrors"})
  ELSE Hit(r, IF isWire(r) THEN 0 ELSE 1, multigridCoord(r), r.adc,
           calcRing(r) * VmmMaxFEN + r.fen, {})
-----------------------------------------------------------------------------
\* NMX: a hybrid has 128 strips of a plane of a panel, in either order.
nmxChecks(r) ==
  <<validateRing(r, VmmMaxRing), validateFEN(r, VmmMaxFEN), validateHybrid(r),
    check(r.adc >= configuration.DefaultMinADC, "ADCErrors"),
    check(r.channel < 64, "ChannelRangeErrors")>>

\* Mutant: each asic of a reversed hybrid is reversed in its place.
nmxCoord_AsicsKept(r) ==
  (Hybrid(r).Offset + Asic(r) * 64
     + IF Hybrid(r).ReversedChannels THEN 63 - r.channel ELSE r.channel) % 65536

nmxCoord(r) ==
  (Hybrid(r).Offset + IF Hybrid(r).ReversedChannels
                      THEN (1 - Asic(r)) * 64 + 63 - r.channel
                      ELSE Asic(r) * 64 + r.channel) % 65536

nmx(r) ==
  IF ~validateAll(nmxChecks(r)) THEN NoHit({"ValidationErrors", failure(nmxChecks(r))})
  ELSE IF nmxCoord(r) = InvalidCoord THEN NoHit({"MappingErrors"})
  ELSE Hit(r, Hybrid(r).Plane, nmxCoord(r), r.adc, Hybrid(r).Panel, {})
-----------------------------------------------------------------------------
outcome(r) ==
  CASE instrument \in Multiblades -> multiblade(r)
    [] instrument \in Multigrids -> multigrid(r)
    [] instrument = "NMX" -> nmx(r)

\* ESSGeometry::pixel3D().
pixel3D(nx, ny, nz, x, y, z) ==
  IF x \in 0 .. nx - 1 /\ y \in 0 .. ny - 1 /\ z \in 0 .. nz - 1
  THEN 1 + x + nx * y + nx * ny * z ELSE 0

\* Of a hit of each plane.
vmmPixel(h, k) ==
  CASE instrument = "Freia" -> pixel2D(64, 1024, h.coord, k.coord)
    [] instrument = "AMOR" -> pixel2D(64, 448, h.coord, k.coord)
    [] instrument = "Estia" -> pixel2D(1536, 128, h.coord, k.coord)
    [] instrument \in Multigrids ->
         pixel3D(configuration.SizeX, configuration.SizeY, configuration.SizeZ,
                 h.coord \div 16, k.coord, h.coord % 16)
    [] instrument = "NMX" -> pixel2D(configuration.SizeX, configuration.SizeY, h.coord, k.coord)

\* The hits of a packet that make events: two of a builder, one of each plane.
neutrons(H) == {n \in H \X H : n[1].plane = 0 /\ n[2].plane = 1 /\ n[1].builder = n[2].builder}

\* No two hits are of a plane of a builder.
singleHits(H) ==
  \A h, k \in H : h.plane = k.plane /\ h.builder = k.builder => h = k

\* processReadouts(), and generateEvents() of what the builders make of it.  A
\* neutron has two readouts, one of each plane, hence the bound.
VmmPacket(p) ==
  LET outcomes == [i \in DOMAIN p |-> outcome(p[i])]
      inserted == FlattenSeq([i \in DOMAIN p |-> outcomes[i].hits])
      pairs == neutrons(ToSet(inserted))
      good == {n \in pairs : vmmPixel(n[1], n[2]) # 0}
      number(c) == Cardinality({i \in DOMAIN p : c \in outcomes[i].counters})
                   + CASE c = "Events" -> Cardinality(good)
                       [] c = "PixelErrors" -> Cardinality(pairs \ good)
                       [] OTHER -> 0
  IN  /\ readouts + Len(p) <= 2 * MaxReadouts /\ readouts' = readouts + Len(p)
      /\ singleHits(ToSet(inserted))
      /\ counters' = [c \in DOMAIN counters |-> counters[c] + number(c)]
      /\ hits' = hits \o inserted
      /\ events' = events \cup
           {[readout |-> <<n[1].readout, n[2].readout>>, pixel |-> vmmPixel(n[1], n[2]),
             serializer |-> 0] : n \in good}
      /\ UNCHANGED configuration

VmmNext ==
  /\ configuration.instrument \in VmmInstruments
  /\ \E p \in VmmPackets[instrument] : VmmPacket(p)
-----------------------------------------------------------------------------
\* Every readout is a hit or is counted as one error.
VmmAccounted ==
  /\ counters["Readouts"] = readouts
  /\ readouts = Len(hits) + counters["ADCBelowThreshold"] + counters["CoordOverflow"]
                + counters["MinADC"] + counters["MappingErrors"]
                + IF instrument \in Multigrids THEN counters["HybridMappingErrors"]
                                               ELSE counters["ValidationErrors"]

VmmEvents == IF configuration.instrument \in VmmInstruments THEN events ELSE {}

channelOf(r) == <<calcRing(r), r.fen, r.vmm, r.channel>>

\* Two hybrids are configured for different places: two cassettes, or two columns
\* of wires.  Of NMX the program itself finds this out.
placedApart(r, s) ==
  CASE instrument \in Multiblades -> Hybrid(r).CassetteNumber # Hybrid(s).CassetteNumber
    [] instrument \in Multigrids ->
         \/ Vessel(r).XOffset = Vessel(s).XOffset /\ secondColumn(r) # secondColumn(s)
         \/ Vessel(r).XOffset - Vessel(s).XOffset \notin -11 .. 11
    [] instrument = "NMX" -> TRUE

\* Two pairs of a wire and a strip never share a pixel, unless two hybrids are
\* configured for one place, whatever cassettes, columns, rotated or reversed
\* halves they are of.  (Panels of NMX all have the same pixels.)
CrossingsApart ==
  \A e, f \in VmmEvents :
    LET r == e.readout[1]  s == f.readout[1]
    IN  /\ e.pixel = f.pixel
        /\ location(Hybrid(r)) = location(Hybrid(s)) \/ placedApart(r, s)
        /\ instrument = "NMX" => Hybrid(r).Panel = Hybrid(s).Panel
        => channelOf(r) = channelOf(s) /\ channelOf(e.readout[2]) = channelOf(f.readout[2])

\* The two readouts of an event are of one cassette, vessel or panel: no two share
\* a builder.  (TREX and LET: but for the last FEN of the table, whose builder is
\* also that of the first FEN of the next ring.)
OneCassette ==
  \A e \in VmmEvents :
    LET r == e.readout[1]  s == e.readout[2]
    IN  CASE instrument \in Multiblades -> location(Hybrid(r)) = location(Hybrid(s))
          [] instrument \in Multigrids ->
               VmmMaxFEN \notin {r.fen, s.fen} => calcRing(r) = calcRing(s) /\ r.fen = s.fen
          [] instrument = "NMX" -> Hybrid(r).Panel = Hybrid(s).Panel

\* Channels of a hybrid are in one order: two hits are as far from each other as
\* their channels are, across asics too.  The clusters rely on this, for they have a
\* limit on gaps.  (Wires of TREX and LET, which clusters never span, are not.)
ChannelsInOrder ==
  \A i, j \in DOMAIN hits :
    LET h == hits[i]  k == hits[j]
        strip(r) == Asic(r) * 64 + r.channel
        between(a, b) == IF a < b THEN b - a ELSE a - b
    IN  /\ configuration.instrument \in VmmInstruments
        /\ instrument \in Multigrids => h.plane = 1
        /\ h.plane = k.plane /\ location(Hybrid(h.readout)) = location(Hybrid(k.readout))
        => between(h.coord, k.coord) = between(strip(h.readout), strip(k.readout))
=============================================================================

---------------------------- MODULE DreamGeometry ----------------------------
(***************************************************************************)
(* The geometries of the instruments with CDT readouts, DREAM, MAGIC and   *)
(* HEIMDAL (modules/dream/geometry).  The configuration says which module  *)
(* is at a ring and FEN; wires (anodes) and strips (cathodes) of a module  *)
(* are the cells of its part of the logical detector.                      *)
(***************************************************************************)
EXTENDS DetectorGeometry

CONSTANTS DreamConfigurations,  \* the configuration files there may be
          DreamReadouts

MaxRing == 11
MaxFEN == 11

DreamInstruments == {"DREAM", "MAGIC", "HEIMDAL"}

DreamTypes == {"BwEndCap", "FwEndCap", "DreamMantle", "HR", "SANS",  \* of DREAM
               "FR", "PA",                                           \* of MAGIC
               "HeimdalMantle"}                                      \* of HEIMDAL

\* A module's Index and Index2 are the sector of an end cap, the mounting unit
\* and the cassette of a mantle, or the cuboids of units 0 and 1.
ASSUME DreamAssumption ==
  /\ \A c \in DreamConfigurations :
       \A i \in DOMAIN c.Config :
         c.Config[i] \in [Ring : Nat, FEN : Nat, Type : STRING, Index : 0 .. 255,
                         Index2 : 0 .. 255]
  /\ DreamReadouts \subseteq [left : Nat, fiber : 0 .. 255, fen : 0 .. 255, length : Nat,
                              unit : 0 .. 255, anode : 0 .. 255, cathode : 0 .. 255]

\* Config::apply(): an instrument or a type that does not exist, a module beyond
\* the table or a second one for a ring and FEN ends the program.
applicable(c) ==
  /\ c.instrument \in DreamInstruments
  /\ \A i \in DOMAIN c.Config :
       /\ c.Config[i].Ring <= MaxRing /\ c.Config[i].FEN <= MaxFEN
       /\ c.Config[i].Type \in DreamTypes
       /\ \A j \in 1 .. i - 1 :
            <<c.Config[j].Ring, c.Config[j].FEN>> # <<c.Config[i].Ring, c.Config[i].FEN>>

applied(c) ==
  LET at(f) == {i \in DOMAIN c.Config : <<c.Config[i].Ring, c.Config[i].FEN>> = f}
      occupied == {f \in (0 .. MaxRing) \X (0 .. MaxFEN) : at(f) # {}}
  IN  [instrument |-> c.instrument,
       modules |-> [f \in occupied |->
                      LET e == c.Config[CHOOSE i \in at(f) : TRUE]
                      IN  [type |-> e.Type, Index |-> e.Index, Index2 |-> e.Index2]]]

DataHeaderSize == 4
CDTReadoutSize == 16

ParserCounters == {"BufferErrors", "FiberErrors", "ParserFENErrors", "DataLenErrors"}

PixelCounters == {"MaxSectorErrors", "SumoIdErrors", "CassetteIdErrors", "IndexErrors"}

DreamCounters ==
  BaseCounters \cup ParserCounters \cup PixelCounters \cup
  {"ConfigErrors"}

DreamInit ==
  /\ configuration \in {applied(c) : c \in {d \in DreamConfigurations : applicable(d)}}
  /\ counters = [c \in DreamCounters |-> 0]
  /\ readouts = 0 /\ events = {}
-----------------------------------------------------------------------------
moduleAt(r) == configuration.modules[<<calcRing(r), r.fen>>]

configured(r) == <<calcRing(r), r.fen>> \in DOMAIN configuration.modules

\* The last ring and the last FEN of the table are never accepted here.
validateConfigMapping(r) ==
  check(calcRing(r) < MaxRing /\ r.fen < MaxFEN /\ configured(r), "ConfigErrors")

dreamChecks(r) ==
  <<validateRing(r, MaxRing), validateFEN(r, MaxFEN), validateConfigMapping(r)>>

counterOf(r, wires) == (r.anode \div wires) % 2
wireOf(r, wires) == r.anode % wires
-----------------------------------------------------------------------------
\* The end caps, by sector, SUMO and cassette.  The cassette is a byte.
SumoOffset == [s \in 3 .. 6 |-> CASE s = 3 -> 48 [] s = 4 -> 36 [] s = 5 -> 20 [] s = 6 -> 0]
SumoCassetteCount == [s \in 3 .. 6 |-> 2 * s - 2]
MaxSector == 22

sumoCassette(sumo, r) ==
  LET half == r.anode \div 32
  IN  CASE sumo = 6 -> (2 * (r.cathode \div 16) - half) % 256
        [] sumo = 5 -> 2 * (r.cathode \div 16) + half
        [] sumo = 4 -> (2 * (r.cathode \div 16) + half - 1) % 256
        [] sumo = 3 -> 2 * (r.cathode \div 32) + half
        [] OTHER -> 255

\* The first error.  Counters, wires and strips are in range by construction.
sumoErrors(sector, r) ==
  IF sector > MaxSector THEN {"MaxSectorErrors"}
  ELSE IF r.unit \notin 3 .. 6 THEN {"SumoIdErrors"}
  ELSE IF sumoCassette(r.unit, r) >= SumoCassetteCount[r.unit] THEN {"CassetteIdErrors"}
  ELSE {}

sumoX(sector, r) ==
  56 * sector + SumoOffset[r.unit] + 2 * sumoCassette(r.unit, r) + counterOf(r, 16)
sumoY(r) == 16 * (r.cathode % 16) + wireOf(r, 16)

endCapPixel(nx, sector, r) ==
  IF sumoErrors(sector, r) = {} THEN Pixel(pixel2D(nx, 256, sumoX(sector, r), sumoY(r)), {})
  ELSE Pixel(0, sumoErrors(sector, r))
-----------------------------------------------------------------------------
\* A mantle, by mounting unit and cassette, of strips per cassette.
mantleY(p, r) == 60 * wireOf(r, 32) + 12 * p.Index + 2 * p.Index2 + counterOf(r, 32)

mantlePixel(strips, p, r) ==
  Pixel(pixel2D(strips, 1920, r.cathode % strips, mantleY(p, r)), {})

heimdalX(p, r) == 12 * p.Index + 2 * p.Index2 + counterOf(r, 32)

heimdalPixel(p, r) ==
  Pixel(pixel2D(144, 2048, heimdalX(p, r), (r.cathode % 64) + 64 * wireOf(r, 32)), {})
-----------------------------------------------------------------------------
\* The cuboids of the high resolution and SANS detectors lie in a plane as an
\* array of 7 by 7 has it, with gaps: the rows, and the columns of each.
RowsHR == << <<2, 3, 4>>, <<1, 2, 3, 4, 5>>, <<0, 1, 2, 3, 4, 5, 6>>,
             <<0, 1, 2, 4, 5, 6>>, <<0, 1, 2, 4, 5, 6>>, <<1, 2, 4, 5>>, <<2, 4>> >>
RowsSANS == << <<2, 3, 4>>, <<1, 2, 3, 4, 5>>, <<0, 1, 2, 3, 4, 5, 6>>,
               <<0, 1, 2, 4, 5, 6>>, <<0, 1, 2, 3, 4, 5, 6>>, <<1, 2, 3, 4, 5>>,
               <<2, 3, 4>> >>

RotateHR == <<0, 1, 1, 0, 0, 1, 1, 1, 0, 0, 0, 1, 1, 1, 1, 0, 0, 0, 2, 2, 2,
              3, 3, 3, 2, 2, 2, 3, 3, 2, 2, 3, 2>>
RotateSANS == <<0, 1, 1, 0, 0, 1, 1, 1, 0, 0, 0, 1, 1, 1, 1, 0, 0, 0, 2, 2, 2,
                3, 3, 3, 3, 2, 2, 2, 3, 3, 3, 2, 2, 3, 3, 2>>

\* The offsets of all cuboids, row by row.
offsets(rows) ==
  LET row(i) == [j \in DOMAIN rows[i] |-> [x |-> 16 * rows[i][j], y |-> 16 * (i - 1)]]
  IN  row(1) \o row(2) \o row(3) \o row(4) \o row(5) \o row(6) \o row(7)

OffsetsHR == offsets(RowsHR)
OffsetsSANS == offsets(RowsSANS)

\* Mutant: a quarter turn the other way round loses the mirror image.
rotateXY_Flipped(rotation, x, y) ==
  CASE rotation = 0 -> [x |-> x, y |-> y]
    [] rotation = 1 -> [x |-> 15 - y, y |-> 15 - y]
    [] rotation = 2 -> [x |-> 15 - x, y |-> 15 - y]
    [] rotation = 3 -> [x |-> y, y |-> 15 - x]

\* Quarter turns, clockwise.
rotateXY(rotation, x, y) ==
  CASE rotation = 0 -> [x |-> x, y |-> y]
    [] rotation = 1 -> [x |-> 15 - y, y |-> x]
    [] rotation = 2 -> [x |-> 15 - x, y |-> 15 - y]
    [] rotation = 3 -> [x |-> y, y |-> 15 - x]

cuboidIndex(p, r) == CASE r.unit = 0 -> p.Index [] r.unit = 1 -> p.Index2 [] OTHER -> 255

cuboidCassette(r) == (r.anode \div 32) + 2 * (r.cathode \div 32)

\* The table has entries 1 .. Len for the indices 0 .. Len - 1.
cuboidPixel(table, rotations, p, r) ==
  LET index == cuboidIndex(p, r)
      local == rotateXY(rotations[index + 1],
                        2 * cuboidCassette(r) + counterOf(r, 16), 15 - wireOf(r, 16))
  IN  IF index >= Len(table) THEN Pixel(0, {"IndexErrors"})
      ELSE Pixel(pixel2D(112, 112 * 32, table[index + 1].x + local.x,
                         112 * (r.cathode % 32) + table[index + 1].y + local.y), {})
-----------------------------------------------------------------------------
\* MAGIC's PA detector.
paCassette(r) == (r.anode \div 32) + 4 * (r.cathode \div 64)

paErrors(sector, r) ==
  IF sector > 7 THEN {"MaxSectorErrors"}
  ELSE IF paCassette(r) >= 16 THEN {"CassetteIdErrors"} ELSE {}

paPixel(sector, r) ==
  IF paErrors(sector, r) = {}
  THEN Pixel(pixel2D(256, 512, 32 * sector + 2 * paCassette(r) + counterOf(r, 16),
                     16 * (r.cathode % 32) + wireOf(r, 16)), {})
  ELSE Pixel(0, paErrors(sector, r))
-----------------------------------------------------------------------------
\* The parts of the logical detector: the pixels before them, and their own.
getPixelOffset(type) ==
  CASE type \in {"FwEndCap", "FR", "HeimdalMantle"} -> 0
    [] type = "BwEndCap" -> 71680
    [] type = "DreamMantle" -> 229376
    [] type = "SANS" -> 720896
    [] type = "HR" -> 1122304
    [] type = "PA" -> 245760

partSize(type) ==
  CASE type = "FwEndCap" -> 280 * 256
    [] type = "BwEndCap" -> 616 * 256
    [] type = "DreamMantle" -> 256 * 1920
    [] type \in {"SANS", "HR"} -> 112 * 3584
    [] type = "FR" -> 128 * 1920
    [] type = "PA" -> 256 * 512
    [] type = "HeimdalMantle" -> 144 * 2048

typesOf(instrument) ==
  CASE instrument = "DREAM" -> {"BwEndCap", "FwEndCap", "DreamMantle", "HR", "SANS"}
    [] instrument = "MAGIC" -> {"FR", "PA"}
    [] instrument = "HEIMDAL" -> {"HeimdalMantle"}

localPixel(p, r) ==
  CASE p.type = "FwEndCap" -> endCapPixel(280, p.Index, r)
    [] p.type = "BwEndCap" -> endCapPixel(616, p.Index, r)
    [] p.type = "DreamMantle" -> mantlePixel(256, p, r)
    [] p.type = "FR" -> mantlePixel(128, p, r)
    [] p.type = "HR" -> cuboidPixel(OffsetsHR, RotateHR, p, r)
    [] p.type = "SANS" -> cuboidPixel(OffsetsSANS, RotateSANS, p, r)
    [] p.type = "PA" -> paPixel(p.Index, r)
    [] p.type = "HeimdalMantle" -> heimdalPixel(p, r)

\* Mutant: DREAM, too, adds the offset to no pixel.
dreamPixel_OffsetAlways(p, r) ==
  LET local == localPixel(p, r)
  IN  IF p.type \notin typesOf(configuration.instrument) THEN Pixel(0, {})
      ELSE [local EXCEPT !.pixel = @ + getPixelOffset(p.type)]

\* A module of another instrument has no pixels.  DREAM checks that there is a
\* local pixel; MAGIC and HEIMDAL add the offset in any case.
dreamPixel(p, r) ==
  LET local == localPixel(p, r)
  IN  IF p.type \notin typesOf(configuration.instrument) THEN Pixel(0, {})
      ELSE IF configuration.instrument = "DREAM" /\ local.pixel = 0 THEN local
      ELSE [local EXCEPT !.pixel = @ + getPixelOffset(p.type)]
-----------------------------------------------------------------------------
\* DataParser::parse() on a packet with one readout: left is what the packet has
\* from its first byte on.
parserChecks(r) ==
  <<check(r.left >= DataHeaderSize /\ r.length <= r.left, "BufferErrors"),
    check(r.fiber <= 23, "FiberErrors"), check(r.fen <= 12, "ParserFENErrors"),
    check(r.length = CDTReadoutSize, "DataLenErrors")>>

DreamReadout(r) ==
  \/ Dropped(parserChecks(r))
  \/ /\ validateAll(parserChecks(r))
     /\ ProcessReadout(r, dreamChecks(r),
                       IF configured(r) THEN dreamPixel(moduleAt(r), r) ELSE Pixel(0, {}),
                       0, 1)

DreamNext ==
  /\ configuration.instrument \in DreamInstruments
  /\ \E r \in DreamReadouts : DreamReadout(r)

DreamSpec == DreamInit /\ [][DreamNext]_vars
-----------------------------------------------------------------------------
DreamEvents == IF configuration.instrument \in DreamInstruments THEN events ELSE {}

\* MAGIC makes an event of a PA readout of which it has calculated no pixel.
failedOfMagic(r) == moduleAt(r).type = "PA" /\ paErrors(moduleAt(r).Index, r) # {}

\* An event is of a configured module, and its pixel is of that module's part of
\* the detector: what a readout cannot be, a cassette beyond a SUMO's or a cuboid
\* that does not exist, is no event in the part before.
PixelsInPart ==
  \A e \in DreamEvents :
    ~failedOfMagic(e.readout) =>
      e.pixel - getPixelOffset(moduleAt(e.readout).type)
        \in 1 .. partSize(moduleAt(e.readout).type)

\* The wires and strips there are.  (What the electronics can send is consistent,
\* SUMO.h says; a SUMO 3 has half the strips.)
existing(r) ==
  LET p == moduleAt(r)
  IN  CASE p.type \in {"BwEndCap", "FwEndCap"} ->
             r.unit \in {p.Index2, p.Index2 - 1} /\ r.anode < 64
             /\ (r.unit = 3 => r.cathode % 32 < 16)
        [] p.type \in {"HR", "SANS"} -> r.anode < 64 /\ r.cathode < 128
        [] p.type = "PA" -> r.anode < 128 /\ r.cathode % 64 < 32
        [] p.type \in {"DreamMantle", "FR"} ->
             r.anode < 64 /\ (p.type = "FR" => r.cathode < 128)
        [] p.type = "HeimdalMantle" -> r.anode < 64 /\ r.cathode < 64

\* Modules with units have more than one cell of a wire and strip.
cell(r) ==
  <<calcRing(r), r.fen, IF moduleAt(r).type \in {"BwEndCap", "FwEndCap", "HR", "SANS"}
                        THEN r.unit ELSE 0, r.anode, r.cathode>>

\* Two cells never have one pixel, of whatever modules they are.
PixelsApart ==
  \A e, f \in DreamEvents :
    existing(e.readout) /\ existing(f.readout) /\ e.pixel = f.pixel
      => cell(e.readout) = cell(f.readout)

\* A readout of a module that the configuration has is not a ConfigError: the
\* configuration is checked with "Invalid FEN: {} Max: {}" (Config.cpp:81), which
\* lets the module at the maximum in.
ConfiguredModulesAccepted ==
  [][\A r \in DreamReadouts :
       configured(r) /\ DreamReadout(r)
         => counters'["ConfigErrors"] = counters["ConfigErrors"]]_vars
=============================================================================

------------------------ MODULE MCInstrumentGeometry ------------------------
EXTENDS ReadoutGenerators

entry(ring, fen, type, index, index2) ==
  [Ring |-> ring, FEN |-> fen, Type |-> type, Index |-> index, Index2 |-> index2]

module(type, index, index2) == [type |-> type, Index |-> index, Index2 |-> index2]

dream(name, a, b, c, d) ==
  LET at(ring, fen, m) == entry(ring, fen, m.type, m.Index, m.Index2)
  IN  [instrument |-> name,
       Config |-> <<at(0, 0, a), at(0, 1, b), at(1, 0, c), at(1, 1, d)>>]

FuzzedDreamConfigurations ==
  { dream("DREAM", module("BwEndCap", 0, 6), module("BwEndCap", 0, 4),
                   module("FwEndCap", 4, 6), module("FwEndCap", 4, 4)),
    dream("DREAM", module("DreamMantle", 0, 0), module("DreamMantle", 4, 5),
                   module("HR", 0, 1), module("HR", 31, 32)),
    dream("DREAM", module("SANS", 0, 35), module("HR", 2, 3),
                   module("SANS", 15, 16), module("FR", 0, 0)),
    dream("MAGIC", module("FR", 0, 0), module("FR", 4, 5),
                   module("PA", 0, 0), module("PA", 7, 0)),
    dream("HEIMDAL", module("HeimdalMantle", 0, 0), module("HeimdalMantle", 0, 1),
                     module("HeimdalMantle", 11, 5), module("HR", 0, 0)) }
  \cup
  \* These are not accepted.
  { [instrument |-> "DREAM", Config |-> <<entry(0, 0, "HR", 0, 1), e>>] :
      e \in {entry(0, 0, "SANS", 0, 1), entry(12, 0, "HR", 0, 1), entry(0, 12, "HR", 0, 1),
             entry(0, 1, "FRDetector", 0, 1)} }

cdt(fiber, fen, length, unit, anode, cathode) ==
  [left |-> 20, fiber |-> fiber, fen |-> fen, length |-> length, unit |-> unit,
   anode |-> anode, cathode |-> cathode]

\* Units of a module, and readouts that fail one check each.
MCDreamReadouts ==
  { cdt(fiber, 0, 16, u, a, c) : fiber \in {0, 3}, u \in {0, 1, 5, 6}, a \in {0, 16, 63},
                                 c \in {0, 33, 127} }
  \cup { cdt(fiber, 1, 16, u, a, c) : fiber \in {0, 3}, u \in {0, 1, 3, 4}, a \in {0, 33},
                                      c \in {0, 16, 33} }
  \cup { cdt(24, 0, 16, 0, 0, 0), cdt(0, 13, 16, 0, 0, 0), cdt(0, 0, 20, 0, 0, 0),
         cdt(0, 12, 16, 0, 0, 0), cdt(4, 0, 16, 0, 0, 0), cdt(3, 0, 16, 0, 200, 200),
         cdt(0, 0, 16, 6, 63, 80), cdt(0, 0, 16, 6, 0, 80), cdt(0, 1, 16, 4, 0, 0) }
  \cup { [cdt(0, 0, 16, 0, 0, 0) EXCEPT !.left = n] : n \in {3, 15} }
\* Two of the modules of configs/bwec.json.
BwecConfigurations ==
  { [instrument |-> "DREAM",
     Config |-> <<entry(0, 10, "BwEndCap", 5, 6), entry(0, 11, "BwEndCap", 5, 4)>>] }

BwecReadouts ==
  { cdt(fiber, fen, 16, u, a, c) : fiber \in {0, 1}, fen \in {10, 11}, u \in {3, 4, 5, 6},
                                   a \in {0, 40}, c \in {0, 17} }
-----------------------------------------------------------------------------
null(n) == [u \in 1 .. n |-> <<0, 0, 0, 0>>]

triplet == << <<0, 6>>, <<7, 13>>, <<14, 20>> >>
turned == << <<20, 14>>, <<13, 7>>, <<6, 0>> >>
straws == [u \in 1 .. 7 |-> <<3 * u - 3, 3 * u - 1>>]

group(i, p) == [intervals |-> i, polynomials |-> p]

settings(name, resolution, maxAmpl, groupsize, calibration) ==
  [instrument |-> name, MaxFEN |-> 0, MaxGroup |-> 3, Resolution |-> resolution,
   MaxAmpl |-> maxAmpl, MinAmpl |-> 1, GroupsZ |-> 4, NumOfFENs |-> 0, groupsize |-> groupsize,
   calibration |-> calibration, banks |-> <<>>, topology |-> <<>>]

bank(b, n, offset) == [Bank |-> b, GroupsN |-> n, YOffset |-> offset]

ring(r, b, n) == [Ring |-> r, Bank |-> b, FENs |-> n, FENOffset |-> 0]

place(r, b) == [Ring |-> r, FEN |-> 0, Bank |-> b]

\* The calibration of every other group turns the tubes, or bends them.  loki has an
\* entry that is replaced and one that is skipped.  The last seven are not accepted.
loki ==
  [settings("loki", 512, 8, 7,
     [g \in 1 .. 16 |-> group(straws, IF g = 2 THEN [u \in 1 .. 7 |-> <<10, 0, 0, 0>>]
                                      ELSE IF g = 3 THEN [u \in 1 .. 7 |-> <<-10, 0, 4, 0>>]
                                      ELSE null(7))])
   EXCEPT !.banks = <<bank(0, 1, 9), bank(0, 2, 0), bank(1, 2, 56), bank(9, 9, 9)>>,
          !.topology = <<ring(0, 1, 0), ring(0, 0, 1), ring(1, 1, 1), ring(12, 0, 1)>>]

tbl3he(n, topology) ==
  [settings("tbl3he", 100, 8, 1,
     [g \in 1 .. 8 |-> group(<< <<0, 20>> >>, IF g = 2 THEN << <<-10, 20, 0, 0>> >> ELSE null(1))])
   EXCEPT !.NumOfFENs = n, !.topology = topology]

FuzzedCaenConfigurations ==
  { settings("bifrost", 300, 8, 3,
             [g \in 1 .. 30 |-> group(IF g % 2 = 0 THEN triplet ELSE turned, null(3))]),
    loki,
    settings("miracles", 128, 100, 2, <<>>),
    settings("cspec", 300, 100, 1, <<>>),
    tbl3he(2, <<place(0, 0), place(1, 1)>>),
    tbl3he(2, <<place(1, 0), place(2, 1)>>),
    tbl3he(2, <<place(0, 0)>>),
    tbl3he(2, <<place(0, 0), place(12, 1)>>),
    tbl3he(2, <<place(0, 0), place(0, 1)>>) }
  \cup
  { settings("bifrost", 300, 8, 2, [g \in 1 .. 30 |-> group(i, null(2))]) :
      i \in { << <<10, 0>>, <<12, 6>> >>, << <<0, 10>>, <<10, 20>> >>,
              << <<12, 20>>, <<0, 14>> >>, << <<0, 10>>, <<11, 21>> >> } }

caen(fiber, fen, g, a) ==
  [fiber |-> fiber, fen |-> fen, group |-> g, A |-> a[1], B |-> a[2], C |-> a[3], D |-> a[4]]

Amplitudes ==
  { <<1, 0, 0, 0>>, <<0, 1, 0, 0>>, <<1, 1, 0, 0>>, <<1, 2, 1, 0>>,
    <<3, 1, 2, 2>>, <<1, 3, 1, 1>>, <<0, 0, 0, 0>>, <<3, -1, 1, 0>>,
    <<5, 5, 1, 1>> }

MCCaenReadouts ==
  { caen(fiber, 0, g, a) : fiber \in {0, 3}, g \in {0, 1, 3}, a \in Amplitudes }
  \cup { caen(fiber, fen, g, <<1, 1, 1, 1>>) : fiber \in {0, 4, 24}, fen \in {0, 1}, g \in {0, 4} }
-----------------------------------------------------------------------------
NoVessel == "none"

hybrid(r, f, h, id) ==
  [Ring |-> r, FEN |-> f, Hybrid |-> h, HybridId |-> id, CassetteNumber |-> 0,
   Thresholds |-> << <<2>>, <<2>> >>, VesselId |-> NoVessel, Plane |-> 0, Panel |-> 0,
   Offset |-> 0, ReversedChannels |-> FALSE]

cassette(r, f, h, id, n) == [hybrid(r, f, h, id) EXCEPT !.CassetteNumber = n]
inVessel(r, f, h, id, v) == [hybrid(r, f, h, id) EXCEPT !.VesselId = v]
square(r, f, h, id, plane, offset, reversed) ==
  [hybrid(r, f, h, id) EXCEPT !.Plane = plane, !.Offset = offset, !.ReversedChannels = reversed]

vessel(rotation, short, x, y) ==
  [Rotation |-> rotation, Short |-> short, XOffset |-> x, YOffset |-> y, MinADC |-> 2]

vmm(i, hs) ==
  [instrument |-> i, Version |-> 1, Config |-> hs, CalibrationVersion |-> 1,
   Calibrations |-> <<>>, DefaultMinADC |-> 2, SizeX |-> 256, SizeY |-> 256, SizeZ |-> 16,
   Vessel_Config |-> [v \in {NoVessel, "low", "high", "cut"} |->
                       CASE v = "low" -> vessel(FALSE, FALSE, 0, 0)
                         [] v = "high" -> vessel(TRUE, FALSE, 12, 139)
                         [] OTHER -> vessel(FALSE, TRUE, 24, 140)]]

calibration(id, offset, slope, n) ==
  [HybridId |-> id, vmm |-> [asic \in 1 .. 2 |-> [k \in 1 .. n |-> [offset |-> offset, slope |-> slope]]]]

cassettes(a, b, c) ==
  <<cassette(0, 0, 0, "h0", a), cassette(0, 0, 1, "h1", b), cassette(1, 1, 0, "h2", c)>>

squares ==
  <<square(0, 0, 0, "h0", 0, 0, FALSE), square(0, 0, 1, "h1", 1, 0, TRUE),
    square(1, 1, 0, "h2", 0, 128, TRUE), square(1, 1, 1, "h3", 1, 128, FALSE)>>

\* Each ring and FEN has three hybrids.
vessels(places) ==
  [n \in 1 .. 3 * Len(places) |->
     LET p == places[(n + 2) \div 3] IN inVessel(p[1], p[2], (n - 1) % 3, ToString(n), p[3])]

\* The last eight are not accepted.
FuzzedVmmConfigurations ==
  { [vmm("Freia", cassettes(0, 1, 31)) EXCEPT
       !.Calibrations = <<calibration("h0", 5, 1, 64), calibration("h1", 0, 600, 64)>>],
    vmm("Freia", cassettes(0, 32, 255)),
    vmm("AMOR", cassettes(5, 4, 13)),
    vmm("Estia", cassettes(0, 47, 48)), vmm("Estia", cassettes(1, 95, 2)),
    vmm("TREX", vessels(<< <<0, 0, "low">>, <<0, 1, "low">>, <<1, 0, "high">>, <<1, 1, "high">>,
                           <<2, 0, "cut">>, <<0, 13, "low">> >>)),
    vmm("LET", vessels(<< <<0, 0, "low">>, <<1, 0, "low">>, <<2, 1, "high">>, <<3, 1, "high">>,
                          <<4, 0, "cut">> >>)),
    vmm("NMX", squares),
    [vmm("NMX", squares) EXCEPT !.Config[3].Offset = 65408] }
  \cup
  { [vmm("Freia", cassettes(0, 1, 31)) EXCEPT !.Version = 2],
    [vmm("Freia", cassettes(0, 1, 31)) EXCEPT !.Config[2].HybridId = "short"],
    [vmm("Freia", cassettes(0, 1, 31)) EXCEPT !.Config[2].HybridId = "h0"],
    [vmm("Freia", cassettes(0, 1, 31)) EXCEPT !.Config[3].FEN = 14],
    [vmm("Freia", cassettes(0, 1, 31)) EXCEPT !.Config[2].Thresholds = << <<>>, <<2>> >>],
    [vmm("Freia", cassettes(0, 1, 31)) EXCEPT !.Calibrations = <<calibration("h9", 5, 1, 64)>>],
    [vmm("Freia", cassettes(0, 1, 31)) EXCEPT !.Calibrations = <<calibration("h0", 5, 1, 63)>>],
    [vmm("NMX", squares) EXCEPT !.Config[3].Offset = 127] }

vmm3(f, fen, v, channel, adc) ==
  [fiber |-> f, fen |-> fen, vmm |-> v, channel |-> channel, over |-> FALSE, adc |-> adc]

\* Readouts that fail a check.
single ==
  { <<vmm3(f, 0, 0, 20, adc)>> : f \in {0, 2, 22}, adc \in {1, 6} }
  \cup { <<vmm3(0, fen, 5, 1, 9)>> : fen \in {0, 13, 14} }
  \cup { <<[vmm3(0, 0, 0, 20, 1) EXCEPT !.over = TRUE]>> }

MCVmmPackets ==
  [i \in VmmInstruments |->
     CASE i \in Multiblades ->
            single \cup { <<vmm3(f, f \div 2, 2 * h, x, 9), vmm3(f, f \div 2, 2 * h + 1, y, 9)>> :
                           f \in {0, 2}, h \in {0, 1}, x \in {15, 16, 47}, y \in {15, 47} }
            \cup { <<vmm3(0, 0, 0, 20, 9), vmm3(2, 1, 1, 20, 9)>> }
       [] i = "TREX" ->
            { <<vmm3(at[1], at[2], w[1], w[2], 9), vmm3(at[1], at[2], g[1], g[2], 9)>> :
                           at \in {<<0, 0>>, <<0, 1>>, <<2, 0>>, <<2, 1>>, <<4, 0>>},
                           w \in {<<0, 31>>, <<0, 63>>, <<1, 0>>},
                           g \in {<<2, 0>>, <<2, 58>>, <<5, 5>>} }
            \cup { <<vmm3(0, 13, 0, 32, 9), vmm3(2, 0, 3, 1, 9)>> }
       [] i = "LET" ->
            { <<vmm3(at[1], at[2], w[1], w[2], 9), vmm3(at[1], at[2], g[1], g[2], 9)>> :
                at \in {<<0, 0>>, <<2, 0>>, <<4, 1>>, <<6, 1>>, <<8, 0>>},
                w \in {<<2, 32>>, <<2, 63>>, <<3, 0>>, <<3, 63>>},
                g \in {<<0, 50>>, <<0, 51>>, <<4, 63>>, <<5, 5>>} }
       [] i = "NMX" ->
            single \cup { <<vmm3(f, f \div 2, v, x, 9), vmm3(f, f \div 2, w, y, 9)>> :
                           f \in {0, 2}, v \in {0, 1}, w \in {2, 3}, x \in {0, 63}, y \in {1, 62} }]
-----------------------------------------------------------------------------
\* configs/nmx.json: five hybrids along each side of each panel.
nmxHybrids ==
  [n \in 1 .. 40 |->
     LET fen == (n - 1) \div 5  h == (n - 1) % 5
         reversed == fen <= 3  far == fen \in {1, 3, 4, 6}
         offset == (IF far THEN 640 ELSE 0) + 128 * (IF reversed THEN 4 - h ELSE h)
     IN  [square(0, fen, h, ToString(n), IF fen \in {0, 1, 4, 5} THEN 0 ELSE 1, offset, reversed)
            EXCEPT !.Panel = CASE fen \in {0, 7} -> 0 [] fen \in {1, 2} -> 1
                               [] fen \in {5, 6} -> 2 [] OTHER -> 3]]

nmxJson == [vmm("NMX", nmxHybrids) EXCEPT !.SizeX = 1280, !.SizeY = 1280]

\* Cassettes of two rings, two FENs and two hybrids.
eight(name) ==
  vmm(name, [n \in 1 .. 8 |-> cassette((n - 1) \div 4, ((n - 1) \div 2) % 2, (n - 1) % 2,
                                       ToString(n), n - 1)])

trexJson == vmm("TREX", vessels(<< <<2, 0, "low">>, <<2, 1, "low">> >>))
letJson == vmm("LET", vessels(<< <<0, 0, "cut">>, <<1, 0, "cut">> >>))

\* A straight detector of two rings with two FENs each.
lokiFlat ==
  [settings("loki", 8, 8, 7, [g \in 1 .. 32 |-> group(straws, null(7))])
   EXCEPT !.banks = <<bank(0, 8, 0)>>,
          !.topology = <<ring(0, 0, 2), [ring(1, 0, 2) EXCEPT !.FENOffset = 2]>>]

\* configs/DreamInst.json, without the second SUMO of the end caps.
dreamJson ==
  LET of(type, fiber, n, index(_), index2(_)) ==
        [i \in 1 .. n |-> entry(fiber \div 2, i - 1, type, index(i - 1), index2(i - 1))]
      caps(type, r, n, first) ==
        [i \in 1 .. n |-> entry(r, 2 * (i - 1), type, first + i - 1, 6)]
      zero(i) == 0
      same(i) == i
  IN  [instrument |-> "DREAM",
       Config |->
         caps("BwEndCap", 0, 6, 0) \o caps("BwEndCap", 1, 5, 6) \o caps("FwEndCap", 2, 5, 0)
         \o of("DreamMantle", 6, 6, zero, same)
         \o of("DreamMantle", 8, 6, LAMBDA i : 1, same)
         \o of("DreamMantle", 10, 6, LAMBDA i : 2, same)
         \o of("DreamMantle", 12, 12, LAMBDA i : 3 + i \div 6, LAMBDA i : i % 6)
         \o of("HR", 14, 8, LAMBDA i : 2 * i, zero) \o of("HR", 16, 9, LAMBDA i : 16 + 2 * i, zero)
         \o of("SANS", 18, 9, LAMBDA i : 2 * i, zero)
         \o of("SANS", 20, 9, LAMBDA i : 18 + 2 * i, zero)]

generator(name, configuration_, numbers) ==
  [name |-> name, configuration |-> configuration_, numbers |-> numbers, neutrons |-> 2, NFibers |-> 3,
   fibers |-> {0, 1, 2}, fens |-> {0, 1}, vmms |-> {0, 1}, groups |-> {0, 1, 4},
   types |-> {"BwEndCap", "FwEndCap", "DreamMantle", "HR", "SANS"}, Param2 |-> -1, Param3 |-> -1]

MCPrograms ==
  { generator(name, nmxJson, {0}) : name \in {"nmx", "smile"} }
  \cup { generator("multihit", nmxJson, {0}), generator("track", nmxJson, {0, 4}) }
  \cup { generator("freia", eight("Freia"), {0, 2, 10, 20}) }
  \cup { generator("multiblade", eight(name), {0}) : name \in Multiblades }
  \cup { generator("trex", trexJson, {0, 2}), generator("let", letJson, {0, 2}),
         generator("loki", lokiFlat, {0, 9, 11, 40}) }
  \cup { [generator("masked", lokiFlat, {0}) EXCEPT !.fibers = at[1], !.fens = at[2], !.groups = at[3]] :
           at \in {<<{0, 2}, {1}, {4}>>, <<{2}, {0, 1}, {1}>>, <<{2}, {1}, {0, 4}>>} }
  \cup { [generator("dream", dreamJson, {0}) EXCEPT !.neutrons = 1, !.Param2 = n] : n \in {-1, 3} }

MCVmmConfigurations ==
  FuzzedVmmConfigurations \cup {nmxJson, trexJson, letJson} \cup {eight(i) : i \in Multiblades}
MCCaenConfigurations == FuzzedCaenConfigurations \cup {lokiFlat}
MCDreamConfigurations == FuzzedDreamConfigurations \cup {dreamJson}

MCDirections == {<<100, 0>>, <<71, 70>>, <<0, 100>>, <<-71, 70>>, <<-100, 0>>, <<34, -94>>}
MCSlopes == {-1, 2}
MCPixels == {<<1, 1>>, <<2, 1>>, <<14, 30>>, <<16, 8>>, <<30, 30>>, <<31, 2>>}
=============================================================================

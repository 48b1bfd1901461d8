-------------------------- MODULE ReadoutGenerators -------------------------
(***************************************************************************)
(* The pictures that the generators of readouts draw                       *)
(* (modules/*/generators), as the geometries of the instruments see them.  *)
(* What they draw at random is any member of the Drawn sets.  When the     *)
(* readouts are sent is the matter of UdpGenerator; a step here makes the  *)
(* readouts of one neutron.                                                *)
(***************************************************************************)
EXTENDS InstrumentGeometry

CONSTANTS
  Programs,          \* generators, each with the configuration of the instrument and
                     \* a bound on the neutrons of a behavior
  DrawnCoords,       \* of coordinates and of times 640
  DrawnBytes,        \* random8()
  DrawnSlopes,       \* of a track, in halves of a strip per step
  DrawnDirections,   \* 10 cos and 10 sin of an angle, in tenths
  DrawnPixels,       \* of the images of 32 x 32
  AmplitudeScale     \* 32767, the greatest amplitude

NoProgram == [name |-> "none"]
NoPart == <<>>

ASSUME GeneratorsAssumption ==
  /\ DrawnCoords \subseteq 0 .. 639 /\ DrawnBytes \subseteq 0 .. 255
  /\ DrawnSlopes \subseteq -2 .. 2 /\ DrawnPixels \subseteq (0 .. 31) \X (0 .. 31)
  /\ DrawnDirections \subseteq (-100 .. 100) \X (-100 .. 100)
  /\ AmplitudeScale \in Nat \ {0}

VARIABLES
  program,   \* the generator that is connected, or NoProgram
  Readout,   \* the number of the next readout in its packet
  held,      \* what has been drawn for this readout and those to come
  shots      \* history: the readouts made, and the places meant

\* A neutron that is drawn: its readouts, the picture it is of, and where in it.
shot(made, part, x, y) == [made |-> made, part |-> part, x |-> x, y |-> y]

vmmReadout(fiber, fen, vmm, channel, adc) ==
  [fiber |-> fiber, fen |-> fen, vmm |-> vmm % 256, channel |-> channel % 256,
   over |-> FALSE, adc |-> adc]

\* No reader has read them: VMM3Parser drops those out of range.
parsed(made) == SelectSeq(made, LAMBDA r : r.vmm <= 15 /\ r.channel <= 63)
-----------------------------------------------------------------------------
\* NMX.  Ten asics read a side of a panel, in either order.
Panels == 0 .. 3
XPanelToFEN == [p \in Panels |-> CASE p = 0 -> 0 [] p = 1 -> 1 [] p = 2 -> 5 [] p = 3 -> 4]
YPanelToFEN == [p \in Panels |-> CASE p = 0 -> 7 [] p = 1 -> 2 [] p = 2 -> 6 [] p = 3 -> 3]

strip(fen, reversed, local, adc) ==
  vmmReadout(0, fen, IF reversed THEN 9 - (local \div 64) ELSE local \div 64,
             IF reversed THEN 63 - (local % 64) ELSE local % 64, adc)

XStrip(panel, x, adc) == strip(XPanelToFEN[panel], panel <= 1, x, adc)

\* Mutant: the panels that have their X reversed have their Y reversed.
YStrip_LikeX(panel, y, adc) == strip(YPanelToFEN[panel], panel <= 1, y, adc)

YStrip(panel, y, adc) == strip(YPanelToFEN[panel], panel % 2 = 1, y, adc)

nmxShot(panel, x, y, adc) ==
  shot(<<XStrip(panel, x, adc), YStrip(panel, y, adc)>>, <<"panel", panel>>, x, y)

\* 639 - abs(1.2 * (x - 128)), whichever abs() the headers declare: of an int or
\* of a double.
roof(x) ==
  LET d == IF x >= 128 THEN x - 128 ELSE 128 - x
  IN  {639 - ((12 * d) \div 10), (6390 - 12 * d) \div 10}

nmxDraws == {[panel |-> p, x |-> x] : p \in Panels, x \in DrawnCoords}
nmxShots(h) == {nmxShot(h.panel, h.x, y, 1000) : y \in roof(h.x)}

\* Two hits of a panel, of different ADC.
multiHitDraws == {[panel |-> p] : p \in Panels}
multiHitShots(h) ==
  {nmxShot(h.panel, at[1], at[2], ((Readout % 4) + 1) * 100) :
     at \in UNION {{x} \X roof(x) : x \in DrawnCoords}}

\* An arc for each eye, two branches of a parabola for the mouth.
squareRoot(n) == CHOOSE r \in 0 .. 80 : r * r <= n /\ n < (r + 1) * (r + 1)

smileY(panel, x) ==
  CASE panel <= 1 -> 640 - (squareRoot(6400 - (x - 80) * (x - 80)) + 260)
    [] panel = 2 -> truncated(640 * 625 - (625 - x) * (625 - x), 625) % 65536
    [] panel = 3 -> truncated(640 * 625 - x * x, 625) % 65536

\* Its X is a float: a reversed asic is one too low, but for its first strip.
smileXStrip(panel, x) ==
  IF panel <= 1 THEN vmmReadout(0, XPanelToFEN[panel], (9 * 64 - x) \div 64, 63 - (x % 64), 1000)
                ELSE XStrip(panel, x, 1000)

smileShots(h) ==
  LET x == IF h.panel <= 1 THEN (h.x % 160) + 260 ELSE h.x
      y == smileY(h.panel, IF h.panel <= 1 THEN h.x % 160 ELSE x)
  IN  {shot(<<smileXStrip(h.panel, x), YStrip(h.panel, y, 1000)>>, <<"panel", h.panel>>, x, y)}

\* A track ends one step before the place drawn; its 8 readouts are X and Y in turn.
ReadoutsPerEvent == 8

trackDraws ==
  {[panel |-> p, x |-> at[1], y |-> at[2], dx |-> dx, dy |-> dy] :
     p \in Panels, at \in UNION {{x} \X roof(x) : x \in DrawnCoords},
     dx \in DrawnSlopes, dy \in DrawnSlopes}

trackShots(h) ==
  LET steps(k) == (ReadoutsPerEvent - (k % ReadoutsPerEvent)) \div 2
      onTrack(final, slope, k) == truncated(2 * final + slope * steps(k), 2) % 65536
  IN  {nmxShot(h.panel, onTrack(h.x, h.dx, Readout), onTrack(h.y, h.dy, Readout + 1), 1000)}
-----------------------------------------------------------------------------
\* FREIA: a circle in each cassette, further to one side for each fiber.
freiaShots(h) ==
  LET fiber == (Readout \div 10) % program.NFibers
      X == (440 - 10 * fiber + h[1]) \div 10
      Y == (300 + h[2]) \div 10
  IN  {shot(<<vmmReadout(fiber, 0, Readout % 4, Y, 1000),
              vmmReadout(fiber, 0, (Readout + 1) % 4, X, 1000)>>,
            <<"cassette", fiber \div 2, 0, (Readout % 4) \div 2>>, fiber - h[1] \div 10, -Y)}

\* FREIA, ESTIA and AMOR (TBLMB): two halves of an image in each cassette, one of
\* each fiber.
multibladeDraws == DrawnPixels

multibladeChannels(x, y, fiber) ==
  LET Sg == IF fiber % 2 = 1 THEN 1 ELSE -1
  IN  CASE instrument = "Freia" -> [X |-> (630 - (160 + 9 * x + 150 * Sg)) \div 10, Y |-> 47 - y]
        [] instrument = "Estia" -> [X |-> 16 + x, Y |-> 63 - (16 + y + 16 * Sg)]
        [] instrument = "AMOR" -> [X |-> 47 - y, Y |-> 63 - (16 + x + 16 * Sg)]

multibladeShots(h) ==
  { LET c == multibladeChannels(h[1], h[2], fiber)
    IN  shot(<<vmmReadout(fiber, fen, 2 * v, c.Y, 1000), vmmReadout(fiber, fen, 2 * v + 1, c.X, 1000)>>,
             <<"half", fiber, fen, v>>, h[1], h[2]) :
      fiber \in program.fibers, fen \in program.fens, v \in program.vmms }
-----------------------------------------------------------------------------
\* TREX: a tick shape; 12 columns of wires, of which two FENs have six each.
\* The last byte draws a column or a layer too many.
column(b) == (b * 12) \div 255
layer(b) == (b * 16) \div 255

tickY(x) == 4 * (IF x >= 2 THEN x - 2 ELSE 2 - x)

FENofColumn(x) == IF x < 6 THEN 0 ELSE 1
inFEN(x) == IF x < 6 THEN x ELSE x - 6

wireReadout(fiber, x, z) ==
  IF inFEN(x) < 2 THEN vmmReadout(fiber, FENofColumn(x), 0, inFEN(x) * 16 + 32 + z, 1000)
                  ELSE vmmReadout(fiber, FENofColumn(x), 1, (inFEN(x) - 2) * 16 + z, 1000)

gridReadout(fiber, x, y) ==
  LET at == CASE y < 6 -> <<5, 5 - y>> [] y \in 6 .. 69 -> <<4, 69 - y>>
              [] y \in 70 .. 133 -> <<3, 133 - y>> [] OTHER -> <<2, 139 - y>>
  IN  vmmReadout(fiber, FENofColumn(x), at[1], at[2], 1000)

gridDraws == {column(b) : b \in DrawnBytes}

trexShots(h) ==
  {shot(<<wireReadout(5, h, z), gridReadout(5, h, tickY(h))>>, <<"vessel">>, 16 * h + z, -tickY(h)) :
     z \in {layer(b) : b \in DrawnBytes}}

\* LET, too, draws its wires on the first hybrid; its geometry has them on the
\* second, so that they are no neutrons.
letShots(h) ==
  LET d == IF h >= 2 THEN h - 2 ELSE 2 - h
  IN  {shot(<<wireReadout(0, h, 12 - d), vmmReadout(0, FENofColumn(h), 2, 50 - tickY(h), 1000)>>,
            NoPart, 0, 0)}
-----------------------------------------------------------------------------
caenReadout(fiber, fen, group, a) ==
  [fiber |-> fiber, fen |-> fen, group |-> group, A |-> a[1], B |-> a[2], C |-> a[3], D |-> a[4]]

\* LOKI's own: the first charge grows with the number of the readout.
lokiShots ==
  {shot(<<caenReadout((Readout \div 10) % program.NFibers, Readout % 8, (Readout \div 10) % 8,
                      <<Readout, 1, 1, 100>>)>>, NoPart, 0, 0)}

\* The charges of straw s and position p: two corners of a square say how far the
\* others are from theirs.  q and r are in units of 1 / whole.
amplitudes(s, p) ==
  LET last == configuration.Resolution - 1
      whole == 6 * last
      q == s * last  r == 6 * p
      b == IF q + r < whole THEN (IF q < r THEN q ELSE r) ELSE q + r - whole
      c == IF q + r < whole THEN whole - (r - b) - b - (q - b) ELSE 0
      scaled(n) == (AmplitudeScale * n) \div whole
  IN  <<scaled(r - b), scaled(b), scaled(c), scaled(q - b)>>

strawDraws == (0 .. 6) \X {p \in DrawnCoords : p < configuration.Resolution}

\* Letters; what is white is drawn as the first place of the first straw.
maskedShots(h) ==
  { shot(<<caenReadout(at[1], at[2], at[3], amplitudes(d[1], d[2]))>>, at, d[2], d[1]) :
      at \in program.fibers \X program.fens \X program.groups, d \in {h, <<0, 0>>} }
-----------------------------------------------------------------------------
\* DREAM: the ring and FEN of each sector.
fibers(n, fiber) == [i \in 1 .. n |-> fiber]

FiberIds ==
  [BwEndCap |-> fibers(6, 0) \o fibers(5, 2), FwEndCap |-> fibers(5, 4),
   DreamMantle |-> fibers(6, 6) \o fibers(6, 8) \o fibers(6, 10) \o fibers(12, 12),
   HR |-> fibers(8, 14) \o fibers(9, 16), SANS |-> fibers(9, 18) \o fibers(9, 20)]

upTo(n) == [i \in 1 .. n |-> i - 1]
evens(n) == [i \in 1 .. n |-> 2 * (i - 1)]

FENIds ==
  [BwEndCap |-> evens(6) \o evens(5), FwEndCap |-> evens(5),
   DreamMantle |-> upTo(6) \o upTo(6) \o upTo(6) \o upTo(12),
   HR |-> upTo(8) \o upTo(9), SANS |-> upTo(9) \o upTo(9)]

least(a, b) == IF a < b THEN a ELSE b

\* Anodes and cathodes of SUMO 6 are drawn so that they have a cassette.
anodes(type, b) ==
  CASE type \in {"BwEndCap", "FwEndCap"} -> least(b, 63)
    [] type = "DreamMantle" -> b % 128
    [] OTHER -> least(b, 190)

cathodes(type, anode, b) ==
  CASE type \in {"BwEndCap", "FwEndCap"} -> IF anode < 32 THEN least(b, 79) ELSE 16 + (b % 80)
    [] type = "DreamMantle" -> b
    [] OTHER -> b % 64

\* Free parameters, -1 for none, choose a sector and a SUMO of the end caps.
sectors(type, b) ==
  CASE type = "BwEndCap" /\ program.Param2 # -1 -> program.Param2
    [] type = "FwEndCap" /\ program.Param2 # -1 -> program.Param2 % 5
    [] OTHER -> b % Len(FiberIds[type])

unitOf(type, b) ==
  CASE type \in {"BwEndCap", "FwEndCap"} -> IF program.Param3 # -1 THEN program.Param3 ELSE 6
    [] type = "DreamMantle" -> 0
    [] OTHER -> b % 2

getRandomReadout(type, sector, unit, anode, cathode) ==
  [left |-> CDTReadoutSize,
   fiber |-> FiberIds[type][sector + 1], fen |-> FENIds[type][sector + 1],
   length |-> CDTReadoutSize, unit |-> unit, anode |-> anode, cathode |-> cathode]

\* Of the elements in the mask.
dreamShots ==
  { shot(<<getRandomReadout(t, sectors(t, b[1]), unitOf(t, b[2]), anodes(t, b[2]),
                            cathodes(t, anodes(t, b[2]), b[3]))>>, <<t>>, 0, 0) :
      t \in program.types, b \in DrawnBytes \X DrawnBytes \X DrawnBytes }
-----------------------------------------------------------------------------
\* What is drawn once for some readouts, and for how many.
draws ==
  CASE program.name \in {"nmx", "smile"} -> nmxDraws
    [] program.name = "multihit" -> multiHitDraws
    [] program.name = "track" -> trackDraws
    [] program.name = "freia" -> DrawnDirections
    [] program.name = "multiblade" -> multibladeDraws
    [] program.name \in {"trex", "let"} -> gridDraws
    [] program.name = "masked" -> strawDraws
    [] OTHER -> {0}

every ==
  CASE program.name = "multihit" -> 4
    [] program.name = "track" -> ReadoutsPerEvent
    [] program.name \in {"trex", "let"} -> 16
    [] OTHER -> 1

shotsOf(h) ==
  CASE program.name = "nmx" -> nmxShots(h)
    [] program.name = "multihit" -> multiHitShots(h)
    [] program.name = "smile" -> smileShots(h)
    [] program.name = "track" -> trackShots(h)
    [] program.name = "freia" -> freiaShots(h)
    [] program.name = "multiblade" -> multibladeShots(h)
    [] program.name = "trex" -> trexShots(h)
    [] program.name = "let" -> letShots(h)
    [] program.name = "loki" -> lokiShots
    [] program.name = "masked" -> maskedShots(h)
    [] program.name = "dream" -> dreamShots

\* The configuration that the program holds when it has read p's.
read(p) == IF p.name = "dream" THEN applied(p.configuration) ELSE p.configuration

\* A generator is looked at from any readout on.
GeneratorsInit ==
  /\ Init /\ shots = <<>>
  /\ LET connectedTo == {p \in Programs : read(p) = configuration}
     IN  IF connectedTo = {} THEN program = NoProgram /\ Readout = 0 /\ held = 0
         ELSE /\ program \in connectedTo
              /\ Readout \in program.numbers
              /\ held \in IF Readout % every = 0 THEN {0} ELSE draws

Sent(made) ==
  CASE instrument \in VmmInstruments -> VmmPacket(parsed(made))
    [] instrument \in CaenInstruments -> CaenReadout(made[1]) /\ UNCHANGED hits
    [] instrument \in DreamInstruments -> DreamReadout(made[1]) /\ UNCHANGED hits

generateData ==
  /\ Len(shots) < program.neutrons
  /\ \E h \in IF Readout % every = 0 THEN draws ELSE {held} :
       /\ held' = h
       /\ \E s \in shotsOf(h) : shots' = Append(shots, s) /\ Sent(s.made)
  /\ Readout' = Readout + IF instrument \in VmmInstruments THEN 2 ELSE 1
  /\ UNCHANGED program

GeneratorsNext ==
  \/ program = NoProgram /\ Next /\ UNCHANGED <<program, Readout, held, shots>>
  \/ program # NoProgram /\ generateData

GeneratorsSpec ==
  GeneratorsInit /\ [][GeneratorsNext]_<<vars, hits, program, Readout, held, shots>>
-----------------------------------------------------------------------------
seenAs(s) ==
  {e \in events : IF instrument \in VmmInstruments THEN ToSet(e.readout) = ToSet(s.made)
                                                   ELSE e.readout = s.made[1]}

\* Where in the picture of the whole detector a pixel is.
position(pixel) ==
  LET n == pixel - 1
      nx == CASE instrument \in {"Freia", "AMOR"} -> 64 [] instrument = "Estia" -> 1536
              [] instrument \in {"NMX", "TREX"} -> configuration.SizeX
              [] instrument = "loki" -> configuration.Resolution
      layersize == configuration.SizeX * configuration.SizeY
  IN  IF instrument = "TREX" THEN <<16 * (n % nx) + (n \div layersize), (n % layersize) \div nx>>
                             ELSE <<n % nx, n \div nx>>

\* Drawn within what there is to draw on, a strip of NMX or a wire of TREX, and not
\* where the smile is broken.
within(s) ==
  CASE instrument = "NMX" ->
         /\ s.x < 640 /\ s.y < 640
         /\ program.name = "smile" => s.part[2] > 1 \/ s.x % 64 # 0
    [] instrument = "TREX" -> s.x < 12 * 16 /\ \A i \in 1 .. 2 : s.made[i].channel < 64
    [] OTHER -> TRUE

\* Every neutron that a generator draws, and whose time can be told, is an event of
\* the part of the detector that is meant, and the pictures come out upright: what
\* is drawn further right or further up is seen there, and no picture lies over
\* another.  What the masked generator draws is seen exactly there.
GeneratedSeen ==
  program # NoProgram /\ counters["TofErrors"] = 0 =>
    /\ \A i \in DOMAIN shots :
         LET s == shots[i]
         IN  CASE program.name = "dream" ->
                    s.made[1].fen < MaxFEN => <<moduleAt(s.made[1]).type>> = s.part /\ seenAs(s) # {}
               [] s.part # NoPart /\ within(s) -> seenAs(s) # {}
               [] OTHER -> TRUE
    /\ \A i, j \in DOMAIN shots :
         LET s == shots[i]  t == shots[j]
         IN  program.name # "dream" /\ NoPart \notin {s.part, t.part} /\ within(s) /\ within(t) =>
               \A e \in seenAs(s), f \in seenAs(t) :
                 LET a == position(e.pixel)  b == position(f.pixel)
                 IN  /\ s.part = t.part =>
                          /\ (s.x <= t.x => a[1] <= b[1]) /\ (s.y <= t.y => a[2] <= b[2])
                          /\ (s.x + 1 < t.x => a[1] < b[1]) /\ (s.y + 1 < t.y => a[2] < b[2])
                     /\ s.part # t.part => a # b
                     /\ program.name = "masked" => a[1] = s.x /\ a[2] % 7 = s.y
=============================================================================

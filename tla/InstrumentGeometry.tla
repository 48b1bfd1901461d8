------------------------- MODULE InstrumentGeometry -------------------------
(***************************************************************************)
(* Whichever instrument the program has been started for: the geometries   *)
(* share the way from a readout to an event (DetectorGeometry).            *)
(***************************************************************************)
EXTENDS DreamGeometry, CaenGeometry, VmmGeometry

Init == ((DreamInit \/ CaenInit) /\ hits = <<>>) \/ VmmInit

Next == (DreamNext /\ UNCHANGED hits) \/ (CaenNext /\ UNCHANGED hits) \/ VmmNext

Spec == Init /\ [][Next]_<<vars, hits>>
-----------------------------------------------------------------------------
TypeOK ==
  /\ \/ configuration \in CaenConfigurations \cup VmmConfigurations
     \/ /\ DOMAIN configuration.modules \subseteq (0 .. MaxRing) \X (0 .. MaxFEN)
        /\ \A f \in DOMAIN configuration.modules :
             configuration.modules[f] \in [type : DreamTypes, Index : 0 .. 255, Index2 : 0 .. 255]
  /\ counters \in [DOMAIN counters -> 0 .. 2 * MaxReadouts]
  /\ DOMAIN counters \in {DreamCounters, CaenCounters, VmmCounters}
  /\ readouts \in 0 .. 2 * MaxReadouts
  /\ \A e \in events :
       /\ VmmEvents = {} => e.readout \in DreamReadouts \cup CaenReadouts
       /\ e.pixel \in Nat \ {0} /\ e.serializer \in Nat
  /\ \A i \in DOMAIN hits :
       hits[i].plane \in 0 .. 1 /\ hits[i].coord < InvalidCoord /\ hits[i].adc \in 0 .. MaxADC

\* Every readout is one event, or one hit, or is counted as one error; a rejected
\* one is also counted by exactly one of the checks, whatever their order.
ReadoutsAccounted ==
  IF configuration.instrument \in VmmInstruments THEN VmmAccounted ELSE Accounted

\* What is sent or matched together belongs together: the events of a serializer
\* are of one part of the detector, the hits of an event of one cassette.
StreamsApart == SerializersApart /\ OneCassette

\* Different places of the detector never have one pixel, and no place could be
\* taken for two: of CDT modules, of CAEN tubes and of the crossings of VMM hybrids.
\* Positions keep their order: pixels along a tube that of the charges, the
\* coordinates of a hybrid that of its channels, without gaps.
PlacesApart ==
  /\ PixelsApart /\ UnitsApart /\ TubesApart /\ CrossingsApart
  /\ AlongTube /\ ChannelsInOrder
=============================================================================

---------------------------- MODULE EventBuilder ----------------------------
(***************************************************************************)
(* From hits in two planes to events: EventBuilder2D with its GapClusterer *)
(* of each plane and its GapMatcher (src/common/reduction).  A builder is  *)
(* a value and its operations are operators, for the instruments have      *)
(* several of them, which only ever act one after the other.               *)
(*                                                                         *)
(* A hit has a plane, a time, a coordinate and a weight; id tells hits     *)
(* apart for the properties and the sorting of equals.                     *)
(***************************************************************************)
EXTENDS Integers, FiniteSets, Sequences, SequencesExt

CONSTANTS MaxClusteringTimeGap, MaxCoordGap,  \* of the clusterers
          MaxMatchingTimeGap, Latency,        \* of the matcher
          MaxCoordSpan, MinCoordGap,          \* events to be split, and where
          \* a * Low <= b * Scale <= a * High for weights a and b that match
          CoefficientLow, CoefficientHigh, CoefficientScale

ASSUME BuilderAssumption ==
  {MaxClusteringTimeGap, MaxCoordGap, MaxMatchingTimeGap, Latency,
   MaxCoordSpan, MinCoordGap, CoefficientLow, CoefficientHigh,
   CoefficientScale} \subseteq Nat

\* PlaneX and PlaneY: the matcher's PlaneA and PlaneB.
PlaneX == 0
PlaneY == 1
Planes == {PlaneX, PlaneY}

\* s in the order of its elements' keys, equals in the order of s.
sorted(s, key(_)) ==
  LET rank == [i \in DOMAIN s |->
                 Cardinality({j \in DOMAIN s : \/ key(s[j]) < key(s[i])
                                              \/ (key(s[j]) = key(s[i]) /\ j <= i)})]
  IN  [n \in DOMAIN s |-> s[CHOOSE i \in DOMAIN s : rank[i] = n]]

-----------------------------------------------------------------------------
(***************************************************************************)
(* Clusters.                                                               *)
(***************************************************************************)
coords(c) == {h.coord : h \in ToSet(c.hits)}
times(c) == {h.time : h \in ToSet(c.hits)}
timeStart(c) == Min(times(c))
timeEnd(c) == Max(times(c))
coordSpan(c) ==
  IF c.hits = <<>> THEN 0 ELSE Max(coords(c)) - Min(coords(c)) + 1
timeSpan(c) == IF c.hits = <<>> THEN 0 ELSE timeEnd(c) - timeStart(c) + 1

weightSum(c) == FoldLeft(LAMBDA n, h : n + h.weight, 0, c.hits)
coordMass(c) == FoldLeft(LAMBDA n, h : n + h.weight * h.coord, 0, c.hits)

\* coordCenter(), rounded to the nearest coordinate.  Calibration may leave hits no
\* weight at all: the center is then no number, which is converted to 0.
center(c) ==
  IF weightSum(c) = 0 THEN 0
  ELSE (2 * coordMass(c) + weightSum(c)) \div (2 * weightSum(c))

\* More coordinates are spanned than there are hits: a coordinate hit twice
\* makes up for one missing.
hasGap(c, MaxAllowedGap) == Len(c.hits) + MaxAllowedGap < coordSpan(c)

\* insert() of the hits one by one, of which there are some: idxMin and idxMax
\* are where the latest time is first and last.
Cluster(hits) ==
  LET latest == {i \in DOMAIN hits : \A j \in DOMAIN hits : hits[j].time <= hits[i].time}
  IN  [hits |-> hits, idxMin |-> Min(latest), idxMax |-> Max(latest)]

\* The indices stay where they are.
merge(c, d) == IF c.hits = <<>> THEN d ELSE [c EXCEPT !.hits = @ \o d.hits]

\* coordUtpc(false): the coordinate at the index nearer to its end of the hits.
coordUtpc(c) ==
  LET before == c.idxMin - 1
      after == Len(c.hits) - c.idxMax
      heavier == c.hits[c.idxMin].weight > c.hits[c.idxMax].weight
  IN  c.hits[IF before < after \/ (before = after /\ heavier)
             THEN c.idxMin ELSE c.idxMax].coord
-----------------------------------------------------------------------------
(***************************************************************************)
(* GapClusterer: hits of one plane close in time, then in coordinates.     *)
(***************************************************************************)
\* Groups of hits in which each is at most gap beyond the one before it.
groups(hits, gap) ==
  FoldLeft(LAMBDA gs, h :
             IF gs = <<>> \/ h.coord - Last(Last(gs)).coord > gap
             THEN Append(gs, <<h>>)
             ELSE [gs EXCEPT ![Len(gs)] = Append(@, h)],
           <<>>, hits)

byCoordinate(hits) == sorted(hits, LAMBDA h : h.coord)
byTime(hits) == sorted(hits, LAMBDA h : h.time)

cluster_by_coordinate(hits) ==
  LET gs == groups(byCoordinate(hits), MaxCoordGap)
  IN  [i \in DOMAIN gs |-> Cluster(gs[i])]

\* The difference is unsigned: a hit from before the last one is far from it.
apart(hit, last) ==
  hit.time < last.time \/ hit.time - last.time > MaxClusteringTimeGap

\* w.current is the time cluster that still grows.
cluster(current, hits) ==
  FoldLeft(LAMBDA w, h :
             IF w.current # <<>> /\ apart(h, Last(w.current))
             THEN [current |-> <<h>>,
                   clusters |-> w.clusters \o cluster_by_coordinate(w.current)]
             ELSE [w EXCEPT !.current = Append(@, h)],
           [current |-> current, clusters |-> <<>>],
           byTime(hits))

flushed(w) == [current |-> <<>>,
               clusters |-> w.clusters \o cluster_by_coordinate(w.current)]
-----------------------------------------------------------------------------
(***************************************************************************)
(* Events, and the splitting of those that look like two at once.          *)
(***************************************************************************)
NoCluster == [hits |-> <<>>, idxMin |-> 1, idxMax |-> 1]
EmptyEvent == [X |-> NoCluster, Y |-> NoCluster]

eventHits(e) == e.X.hits \o e.Y.hits
asCluster(e) == [hits |-> eventHits(e)]
bothPlanes(e) == e.X.hits # <<>> /\ e.Y.hits # <<>>

addCluster(e, c) ==
  IF Head(c.hits).plane = PlaneX THEN [e EXCEPT !.X = merge(@, c)]
                                 ELSE [e EXCEPT !.Y = merge(@, c)]

\* From the earliest end to the latest start.
timeGap(e, c) ==
  Max({0, Max({timeStart(asCluster(e)), timeStart(c)})
            - Min({timeEnd(asCluster(e)), timeEnd(c)})})

\* Two clusters by a gap in the coordinates; none when there are more gaps.
halves(gs) ==
  [i \in 1 .. 2 |-> IF Len(gs) <= 2 /\ i <= Len(gs) THEN Cluster(gs[i]) ELSE NoCluster]
splitCluster(c) == halves(groups(byCoordinate(c.hits), MinCoordGap))

clustersMatch(a, b) ==
  /\ weightSum(a) * CoefficientLow <= weightSum(b) * CoefficientScale
  /\ weightSum(a) * CoefficientHigh >= weightSum(b) * CoefficientScale

\* The two events when there is one way only to pair the halves, else none.
paired(x, y) ==
  LET straight == clustersMatch(x[1], y[1]) /\ clustersMatch(x[2], y[2])
      crossed == clustersMatch(x[1], y[2]) /\ clustersMatch(x[2], y[1])
      anyStraight == clustersMatch(x[1], y[1]) \/ clustersMatch(x[2], y[2])
      anyCrossed == clustersMatch(x[1], y[2]) \/ clustersMatch(x[2], y[1])
      pair(a, b) == [X |-> a, Y |-> b]
  IN  IF straight /\ ~anyCrossed THEN <<pair(x[1], y[1]), pair(x[2], y[2])>>
      ELSE IF crossed /\ ~anyStraight THEN <<pair(x[1], y[2]), pair(x[2], y[1])>>
      ELSE <<>>
splitEvent(e) == paired(splitCluster(e.X), splitCluster(e.Y))

MatcherCounters == {"SpanTooLarge", "DiscardedSpanTooLarge", "SplitSpanTooLarge",
                    "MatchAttemptCount"}

\* Mutant: an event that cannot be split is kept as it is.
checkAndStash_Kept(e, split) ==
  [events |-> IF split /\ splitEvent(e) # <<>> THEN splitEvent(e) ELSE <<e>>,
   counted |-> {}]

\* checkAndStashEvent(): the events that e becomes, and what is counted.
splitInto(es) ==
  [events |-> es,
   counted |-> {"SpanTooLarge", IF es = <<>> THEN "DiscardedSpanTooLarge"
                                             ELSE "SplitSpanTooLarge"}]
checkAndStash(e, split) ==
  IF ~split \/ (coordSpan(e.X) < MaxCoordSpan /\ coordSpan(e.Y) < MaxCoordSpan)
  THEN [events |-> <<e>>, counted |-> {}]
  ELSE splitInto(splitEvent(e))
-----------------------------------------------------------------------------
(***************************************************************************)
(* GapMatcher: clusters of both planes close in time are one event.        *)
(***************************************************************************)
NewBuilder(split) ==
  [split |-> split,                       \* setSplitMultiEvents()
   hits |-> [p \in Planes |-> <<>>],      \* HitsX and HitsY
   current |-> [p \in Planes |-> <<>>],   \* of ClustererX and ClustererY
   unmatched |-> <<>>,                    \* clusters the matcher holds
   latest |-> [p \in Planes |-> 0],       \* LatestA and LatestB
   events |-> <<>>,
   discarded |-> {},                      \* hits of the events not split
   stats |-> [c \in MatcherCounters |-> 0]]

insert(b, h) == [b EXCEPT !.hits[h.plane] = Append(@, h)]

\* The last cluster of a plane is taken for its latest.
received(latest, clusters) ==
  IF clusters = <<>> THEN latest ELSE Max({latest, timeStart(Last(clusters))})

\* Mutant: the plane that is ahead says what is ready.
ready_to_be_matched_Ahead(latest, c) ==
  Max({latest[p] : p \in Planes}) > timeEnd(c) + Latency

\* Both planes have come far enough past c.
ready_to_be_matched(latest, c) == Min({latest[p] : p \in Planes}) > timeEnd(c) + Latency

\* How many of the clusters, by time, are matched now.
matchable(unmatched, latest, flush) ==
  LET waits == {i \in DOMAIN unmatched : ~ready_to_be_matched(latest, unmatched[i])}
  IN  IF flush \/ waits = {} THEN Len(unmatched) ELSE Min(waits) - 1

\* Mutant: an event that has begun is not put back.
requeue_clusters_Lost(e, rest) == rest

\* An event that more clusters could join is taken apart again.
unlessEmpty(c) == IF c.hits = <<>> THEN <<>> ELSE <<c>>
requeue_clusters(e, rest) == unlessEmpty(e.Y) \o unlessEmpty(e.X) \o rest

farther(e, c) == timeGap(e, c) > MaxMatchingTimeGap

\* The events that the first n clusters make, the last one still open.
joined(unmatched, n) ==
  FoldLeft(LAMBDA w, c :
             IF w.open # EmptyEvent /\ farther(w.open, c)
             THEN [open |-> addCluster(EmptyEvent, c), done |-> Append(w.done, w.open)]
             ELSE [w EXCEPT !.open = addCluster(@, c)],
           [open |-> EmptyEvent, done |-> <<>>], SubSeq(unmatched, 1, n))

\* The events done are checked; lost are those of which none is left.
stash(b, done, checked) ==
  LET lost == {i \in DOMAIN done : checked[i].events = <<>>}
  IN  [b EXCEPT
         !.events = @ \o FlattenSeq([i \in DOMAIN done |-> checked[i].events]),
         !.discarded = @ \cup UNION {ToSet(eventHits(done[i])) : i \in lost},
         !.stats = [c \in MatcherCounters |->
                      @[c] + (IF c = "MatchAttemptCount" THEN 1 ELSE 0)
                           + Cardinality({i \in DOMAIN done : c \in checked[i].counted})]]

\* w is what the first clusters make, rest the clusters after them.
finish(b, w, rest, flush) ==
  LET done == IF flush /\ w.open # EmptyEvent THEN Append(w.done, w.open) ELSE w.done
  IN  stash([b EXCEPT !.unmatched = IF flush THEN rest ELSE requeue_clusters(w.open, rest)],
            done, [i \in DOMAIN done |-> checkAndStash(done[i], b.split)])

matchFirst(b, unmatched, n, flush) ==
  finish(b, joined(unmatched, n), SubSeq(unmatched, n + 1, Len(unmatched)), flush)

matchSorted(b, unmatched, flush) ==
  matchFirst(b, unmatched, matchable(unmatched, b.latest, flush), flush)

match(b, flush) == matchSorted(b, sorted(b.unmatched, timeStart), flush)

\* flush(): the hits are clustered, the clusters matched.
flush(b, full) ==
  LET matched(w) ==
        match([b EXCEPT
                 !.hits = [p \in Planes |-> <<>>],
                 !.current = [p \in Planes |-> w[p].current],
                 !.unmatched = @ \o w[PlaneX].clusters \o w[PlaneY].clusters,
                 !.latest = [p \in Planes |-> received(@[p], w[p].clusters)]], full)
      ends(w) == IF full THEN flushed(w) ELSE w
  IN  matched([p \in Planes |-> ends(cluster(b.current[p], b.hits[p]))])
=============================================================================

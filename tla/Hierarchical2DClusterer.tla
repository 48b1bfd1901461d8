----------------------- MODULE Hierarchical2DClusterer -----------------------
(***************************************************************************)
(* From hits with two coordinates to clusters: first by gaps in time, then *)
(* by the distance from a first hit (src/common/reduction/clustering).     *)
(* The clusterer is flushed after each use, so that it keeps nothing and   *)
(* its operations are operators.                                           *)
(***************************************************************************)
EXTENDS Integers, Sequences, FiniteSets, SequencesExt

CONSTANTS MaxTimeGap, MaxCoordGap

\* Squares of gaps from 256 do not fit max_coord_gap_sqr_.
ASSUME ClustererAssumption == MaxTimeGap \in Nat /\ MaxCoordGap \in 0 .. 255

\* A hit has a time, two coordinates and a weight.
chronological(hits) ==
  \A i, j \in DOMAIN hits : i < j => hits[i].time <= hits[j].time

\* Mutant: the hits are taken as they came.
sort_chronologically_Not(hits) == {hits}

\* std::sort, which puts equals in any order.
sort_chronologically(hits) ==
  {s \in {[i \in DOMAIN hits |-> hits[p[i]]] : p \in Bijection(DOMAIN hits, DOMAIN hits)} :
     chronological(s)}

\* The difference is unsigned: a hit from before the last one is far from it.
farInTime(hit, last) == hit.time < last.time \/ hit.time - last.time > MaxTimeGap

\* insert() of the hits: the last sequence is current_time_cluster_.
timeClusters(hits) ==
  FoldLeft(LAMBDA ts, h :
             IF ts = <<>> \/ farInTime(h, Last(Last(ts)))
             THEN Append(ts, <<h>>)
             ELSE [ts EXCEPT ![Len(ts)] = Append(@, h)],
           <<>>, hits)

sqr(n) == n * n
near(g, h) == sqr(g.x - h.x) + sqr(g.y - h.y) < sqr(MaxCoordGap)

\* The hits not visited that start a cluster with hit i: near to i itself, it is
\* not enough to be near to another of them.
spaceCluster(hits, i, visited) ==
  {i} \cup {j \in i + 1 .. Len(hits) : j \notin visited /\ near(hits[i], hits[j])}

\* One round of the loop in cluster_by_x().
startCluster(hits, w, i) ==
  IF i \in w.visited THEN w
  ELSE [visited |-> w.visited \cup spaceCluster(hits, i, w.visited),
        clusters |-> Append(w.clusters, spaceCluster(hits, i, w.visited))]

\* Cluster2D of the members of hits, by insert() of one after the other.
Cluster2D(hits, members) ==
  LET total(f(_)) == FoldSet(LAMBDA i, n : n + f(hits[i]), 0, members)
      times == {hits[i].time : i \in members}
  IN  [hitCount |-> Cardinality(members),
       weightSum |-> total(LAMBDA h : h.weight),
       xCoordMass |-> total(LAMBDA h : h.weight * h.x),
       yCoordMass |-> total(LAMBDA h : h.weight * h.y),
       timeStart |-> Min(times),
       timeSpan |-> Max(times) - Min(times) + 1,
       hits |-> {hits[i] : i \in members}]

cluster_by_x(hits) ==
  LET w == FoldLeft(LAMBDA v, i : startCluster(hits, v, i),
                    [visited |-> {}, clusters |-> <<>>], [i \in DOMAIN hits |-> i])
  IN  [n \in DOMAIN w.clusters |-> Cluster2D(hits, w.clusters[n])]

\* cluster() and flush().
cluster(hits) ==
  FlattenSeq([n \in DOMAIN timeClusters(hits) |-> cluster_by_x(timeClusters(hits)[n])])
=============================================================================

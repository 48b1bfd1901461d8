------------------------- MODULE CompleteEventProofs -------------------------
(***************************************************************************)
(* The events of the VMM3 instruments are complete: whatever the packets,  *)
(* hits linked in time are in one event, and an event has no two parts far *)
(* from each other, if the gap within a cluster is at most the gap within  *)
(* an event, as the instruments are configured.                            *)
(***************************************************************************)
EXTENDS ReductionProofs

-----------------------------------------------------------------------------
\* The hits of a cluster are never farther from each other than those of an event
\* may be: so the instruments are configured.
GapsNested == MaxClusteringTimeGap <= MaxMatchingTimeGap

\* All of H are too long before all of G to be in one event with them.
Clear(H, G) == \A h \in H, g \in G : h.time + MaxMatchingTimeGap < g.time

\* From any time between hits of H the next hit of G is not far.
Dense(H, G) ==
  \A t \in Nat : \A a, b \in H :
    (a.time <= t /\ t < b.time) =>
       \E k \in G : t < k.time /\ k.time <= t + MaxMatchingTimeGap

LEMMA DenseInMore ==
  ASSUME NEW H, NEW G, NEW H_1 \in SUBSET H, NEW G_1, G \in SUBSET G_1, Dense(H, G)
  PROVE  Dense(H_1, G_1)
<1> SUFFICES ASSUME NEW t \in Nat, NEW a \in H_1, NEW b \in H_1, a.time <= t, t < b.time
             PROVE  \E k \in G_1 : t < k.time /\ k.time <= t + MaxMatchingTimeGap
  BY DEF Dense
<1>1. a \in H /\ b \in H OBVIOUS
<1>2. \E k \in G : t < k.time /\ k.time <= t + MaxMatchingTimeGap BY <1>1 DEF Dense
<1> QED BY <1>2

\* Hits sorted by time rise.
LEMMA TimesRise ==
  ASSUME NEW hs \in Seq(Hits)
  PROVE  \A i, j \in 1 .. Len(byTime(hs)) : i <= j => byTime(hs)[i].time <= byTime(hs)[j].time
<1> DEFINE n == Len(hs)
           k == [i \in 1 .. n |-> hs[i].time]
           r == [i \in DOMAIN hs |->
                   Cardinality({j \in DOMAIN hs : \/ hs[j].time < hs[i].time
                                                  \/ (hs[j].time = hs[i].time /\ j <= i)})]
           t == byTime(hs)
<1>1. DOMAIN hs = 1 .. n /\ n \in Nat /\ \A i \in 1 .. n : hs[i] \in Hits OBVIOUS
<1>2. \A i \in 1 .. n : k[i] \in Int /\ k[i] = hs[i].time
  BY <1>1, HitFields
<1>3. t = ranked(hs, r) BY DEF byTime, sorted, ranked
<1> HIDE DEF k, t, n
<1>4. r = rankBy(k, n)
  <2>1. \A i \in 1 .. n : {j \in DOMAIN hs : \/ hs[j].time < hs[i].time
                                              \/ (hs[j].time = hs[i].time /\ j <= i)}
             = notAfter(k, n, i)
    BY <1>1, <1>2 DEF notAfter
  <2> QED BY <1>1, <2>1 DEF rankBy
<1> HIDE DEF r
<1>5. InKeyOrder(t, hs, k) BY <1>2, <1>3, <1>4, RankedIsOrdered DEF n
<1>6. ASSUME NEW x \in 1 .. n, NEW y \in 1 .. n, x <= y PROVE t[x].time <= t[y].time
  <2>1. \E i, j \in 1 .. n : t[x] = hs[i] /\ t[y] = hs[j] /\ k[i] <= k[j]
    BY <1>5, <1>6 DEF InKeyOrder, n
  <2>2. PICK i \in 1 .. n, j \in 1 .. n : t[x] = hs[i] /\ t[y] = hs[j] /\ k[i] <= k[j] BY <2>1
  <2> QED BY <1>2, <2>2
<1>7. Len(t) = n
  <2>1. t \in Seq(Hits) /\ Reordered(hs, t) BY <1>2, <1>3, <1>4, OrderedIsReordered DEF n
  <2> QED BY <2>1 DEF Reordered, n
<1> QED BY <1>6, <1>7 DEF t

\* The cluster that grows rises to its last hit, without gaps.
Grown(s) ==
  /\ Dense(ToSet(s), ToSet(s))
  /\ s # <<>> => \A h \in ToSet(s) : h.time <= Last(s).time

\* No gap within a cluster is without a hit of H.
AllDense(cs, H) == \A c \in ToSet(cs) : Dense(ToSet(c.hits), H)

LEMMA LastIsThere ==
  ASSUME NEW s \in Seq(Hits), s # <<>>
  PROVE  Last(s) \in ToSet(s) /\ Last(s) \in Hits
<1>1. Len(s) \in DOMAIN s /\ Last(s) = s[Len(s)] BY DEF Last
<1> QED BY <1>1 DEF ToSet

LEMMA ElementsAreHits ==
  ASSUME NEW s \in Seq(Hits)
  PROVE  \A h \in ToSet(s) : h \in Hits /\ h.time \in Nat
<1>1. \A h \in ToSet(s) : h \in Hits BY DEF ToSet
<1> QED BY <1>1, HitFields

\* A hit is not far from those before it: the cluster grows.
LEMMA GrowsByOne ==
  ASSUME GapsNested, NEW s \in Seq(Hits), Grown(s), NEW h \in Hits, NEW v \in Seq(Hits),
         ToSet(v) = ToSet(s) \cup {h}, Last(v) = h,
         \A g \in ToSet(s) : g.time <= h.time,
         s = <<>> \/ ~apart(h, Last(s))
  PROVE  Grown(v)
<1>0. MaxClusteringTimeGap \in Nat /\ MaxMatchingTimeGap \in Nat BY BuilderAssumption
<1>1. h.time \in Nat /\ \A g \in ToSet(s) : g.time \in Nat BY HitFields, ElementsAreHits
<1>2. ASSUME NEW t \in Nat, NEW a \in ToSet(v), NEW b \in ToSet(v), a.time <= t, t < b.time
      PROVE  \E k \in ToSet(v) : t < k.time /\ k.time <= t + MaxMatchingTimeGap
  <2>1. a.time < b.time /\ a.time \in Nat /\ b.time \in Nat BY <1>1, <1>2
  <2>2. a \in ToSet(s) BY <1>1, <2>1
  <2>3. s # <<>>
    <3>1. s = <<>> => ToSet(s) = {} BY DEF ToSet
    <3> QED BY <2>2, <3>1
  <2> DEFINE l == Last(s)
  <2>4. l \in ToSet(s) /\ l.time \in Nat BY <1>1, <2>3, LastIsThere
  <2>5. h.time <= l.time + MaxClusteringTimeGap
    <3>1. ~(h.time < l.time \/ h.time - l.time > MaxClusteringTimeGap) BY <2>3 DEF apart
    <3> HIDE DEF l
    <3> QED BY <1>0, <1>1, <2>4, <3>1
  <2> HIDE DEF l
  <2>6. CASE t < l.time
    <3>1. \E k \in ToSet(s) : t < k.time /\ k.time <= t + MaxMatchingTimeGap
      BY <1>2, <2>2, <2>4, <2>6 DEF Grown, Dense
    <3> QED BY <3>1
  <2>7. CASE ~(t < l.time)
    <3>1. b = h
      <4>1. b \in ToSet(s) => b.time <= l.time BY <2>3 DEF Grown, l
      <4> QED BY <1>2, <2>1, <2>4, <2>7, <4>1
    <3>2. h.time <= t + MaxMatchingTimeGap BY <1>0, <1>1, <2>4, <2>5, <2>7 DEF GapsNested
    <3> QED BY <1>2, <3>1, <3>2
  <2> QED BY <2>6, <2>7
<1>3. \A g \in ToSet(v) : g.time <= h.time BY <1>1
<1> QED BY <1>2, <1>3 DEF Grown, Dense

LEMMA GrowsFromOne ==
  ASSUME NEW h \in Hits
  PROVE  Grown(<<h>>)
<1>1. ToSet(<<h>>) = {h} /\ Last(<<h>>) = h BY OneHit DEF Last
<1>2. h.time \in Nat BY HitFields
<1>3. \A t \in Nat : \A a, b \in {h} : ~(a.time <= t /\ t < b.time) BY <1>2
<1>4. \A g \in {h} : g.time <= h.time BY <1>2
<1> DEFINE one == <<h>>
<1> HIDE DEF one
<1>5. ToSet(one) = {h} /\ Last(one) = h BY <1>1 DEF one
<1>6. Grown(one) BY <1>3, <1>4, <1>5 DEF Grown, Dense
<1> QED BY <1>6 DEF one

LEMMA GrowsFromNone == Grown(<<>>)
<1>1. ToSet(<<>>) = {} BY DEF ToSet
<1> QED BY <1>1 DEF Grown, Dense

-----------------------------------------------------------------------------
\* H has what m makes of each element of s.
MadeOfEach(H, m, s) == H = UNION {ToSet(m[x]) : x \in ToSet(s)}

LEMMA FlatElements ==
  ASSUME NEW T, NEW U, NEW m \in [U -> Seq(T)], NEW s \in Seq(U)
  PROVE  MadeOfEach(ToSet(flat(m, s)), m, s)
<1> DEFINE t == spread(m, s)
<1>1. SpreadOf(t, m, s, T) BY SpreadTyped, Zenon
<1> HIDE DEF t
<1>0. DOMAIN s = 1 .. Len(s) OBVIOUS
<1>2. ToSet(s) = {s[i] : i \in 1 .. Len(s)} BY <1>0 DEF ToSet
<1>3. t \in Seq(Seq(T)) /\ Len(t) = Len(s) /\ \A i \in 1 .. Len(s) : t[i] = m[s[i]]
  BY <1>1 DEF SpreadOf
<1>4. ToSet(FlattenSeq(t)) = UNION {ToSet(t[i]) : i \in 1 .. Len(s)} BY <1>3, FlattenElements
<1>5. UNION {ToSet(t[i]) : i \in 1 .. Len(s)} = UNION {ToSet(m[x]) : x \in ToSet(s)}
  <2> DEFINE A == UNION {ToSet(t[i]) : i \in 1 .. Len(s)}  B == UNION {ToSet(m[x]) : x \in ToSet(s)}
  <2>1. ASSUME NEW y \in A PROVE y \in B
    <3>1. PICK i \in 1 .. Len(s) : y \in ToSet(t[i]) OBVIOUS
    <3>2. s[i] \in ToSet(s) /\ y \in ToSet(m[s[i]]) BY <1>2, <1>3, <3>1
    <3> QED BY <3>2
  <2>2. ASSUME NEW y \in B PROVE y \in A
    <3>1. PICK x \in ToSet(s) : y \in ToSet(m[x]) OBVIOUS
    <3>2. PICK i \in 1 .. Len(s) : x = s[i] BY <1>2
    <3>3. y \in ToSet(t[i]) BY <1>3, <3>1, <3>2
    <3> QED BY <3>3
  <2> HIDE DEF A, B
  <2>3. A = B BY <2>1, <2>2
  <2> QED BY <2>3 DEF A, B
<1> QED BY <1>4, <1>5 DEF flat, t, MadeOfEach

LEMMA HitsInElements ==
  ASSUME NEW cs \in Seq(Clusters)
  PROVE  ToSet(hitsIn(cs)) = UNION {ToSet(c.hits) : c \in ToSet(cs)}
<1>1. MadeOfEach(ToSet(flat(hitsOf, cs)), hitsOf, cs)
  BY HitsOfTyped, FlatElements, Zenon
<1>2. \A c \in ToSet(cs) : c \in Clusters BY DEF ToSet
<1>3. \A c \in ToSet(cs) : hitsOf[c] = c.hits BY <1>2, HitsOfTyped
<1>4. {ToSet(hitsOf[c]) : c \in ToSet(cs)} = {ToSet(c.hits) : c \in ToSet(cs)} BY <1>3
<1> QED BY <1>1, <1>4 DEF hitsIn, MadeOfEach

LEMMA HitsAmongElements ==
  ASSUME NEW es \in Seq(BuiltEvents)
  PROVE  ToSet(hitsAmong(es)) = UNION {ToSet(eventHits(e)) : e \in ToSet(es)}
<1>1. MadeOfEach(ToSet(flat(hitsOfEvent, es)), hitsOfEvent, es)
  BY HitsOfEventTyped, FlatElements, Zenon
<1>2. \A e \in ToSet(es) : e \in BuiltEvents BY DEF ToSet
<1>3. \A e \in ToSet(es) : hitsOfEvent[e] = eventHits(e) BY <1>2, HitsOfEventTyped
<1>4. {ToSet(hitsOfEvent[e]) : e \in ToSet(es)} = {ToSet(eventHits(e)) : e \in ToSet(es)} BY <1>3
<1> QED BY <1>1, <1>4 DEF hitsAmong, MadeOfEach

\* The hits are clustered in turn: what every round keeps, all of them keep.
LEMMA ClusteringInTurn ==
  ASSUME NEW base \in Clusterings, NEW hs \in Seq(Hits), NEW I, <<0, base>> \in I,
         \A m \in 1 .. Len(hs), w \in Clusterings :
           <<m - 1, w>> \in I => <<m, clustered(w, hs[m])>> \in I
  PROVE  <<Len(hs), FoldLeft(clustered, base, hs)>> \in I
<1> DEFINE n == Len(hs)  D == 1 .. n  S == Clusterings
           step == [q \in D \X S |-> clustered(q[2], hs[q[1]])]
           P(g) == g = [s \in SUBSET D |->
                          IF s = {} THEN base ELSE clustered(g[s \ {Max(s)}], hs[Max(s)])]
           iter == CHOOSE g : P(g)
<1>1. n \in Nat /\ DOMAIN hs = D /\ \A i \in D : hs[i] \in Hits
  OBVIOUS
<1>2. base \in S OBVIOUS
<1>3. ASSUME NEW w \in S, NEW h \in Hits PROVE clustered(w, h) \in S
  BY ClusteredAdds
<1>4. step \in [D \X S -> S]
  <2> HIDE DEF D, S
  <2>1. \A q \in D \X S : clustered(q[2], hs[q[1]]) \in S BY <1>1, <1>3
  <2> QED BY <2>1
<1>5. \A i \in D, w \in S : step[<<i, w>>] = clustered(w, hs[i])
  <2> HIDE DEF D, S
  <2> QED OBVIOUS
<1>6. \A s \in SUBSET D : s # {} => Max(s) \in D /\ s \ {Max(s)} \in SUBSET D
  <2> HIDE DEF n
  <2>1. \A s \in SUBSET D : s # {} => Max(s) \in s BY <1>1, MaxIsLargest
  <2> QED BY <2>1
<1>14. /\ <<0, base>> \in I
       /\ \A m \in D, w \in S : <<m - 1, w>> \in I => <<m, clustered(w, hs[m])>> \in I
  OBVIOUS
<1> HIDE DEF S, step
<1>7. PICK g \in [SUBSET D -> S] : FoldingLeft(g, n, base, step)
  <2> HIDE DEF n
  <2> QED BY ONLY <1>1, <1>2, <1>4, FoldsLeft
<1>8. P(g)
  <2>1. ASSUME NEW s \in SUBSET D
        PROVE  g[s] = IF s = {} THEN base ELSE clustered(g[s \ {Max(s)}], hs[Max(s)])
    <3>1. s # {} => step[<<Max(s), g[s \ {Max(s)}]>>] = clustered(g[s \ {Max(s)}], hs[Max(s)])
      <4> HIDE DEF D
      <4> QED BY <1>5, <1>6
    <3> QED BY <1>7, <3>1 DEF FoldingLeft
  <2> HIDE DEF D
  <2> QED BY <2>1
<1>9. P(iter)
  <2> HIDE DEF P
  <2> QED BY <1>8
<1>10. FoldLeft(clustered, base, hs) = iter[D]
  BY <1>1 DEF FoldLeft, MapThenFoldSet
<1>11. \A s \in SUBSET D :
          iter[s] = IF s = {} THEN base ELSE clustered(iter[s \ {Max(s)}], hs[Max(s)])
  <2> HIDE DEF iter, D
  <2> QED BY <1>9
<1> HIDE DEF iter
<1>12. FoldingLeftIn(iter, n, S, base, step)
  <2>1. iter[{}] = base
    <3>1. {} \in SUBSET D OBVIOUS
    <3> HIDE DEF D
    <3> QED BY <1>11, <3>1
  <2>2. ASSUME NEW s \in SUBSET D, s # {}, iter[s \ {Max(s)}] \in S
        PROVE  iter[s] = step[<<Max(s), iter[s \ {Max(s)}]>>]
    <3> HIDE DEF D
    <3> QED BY <1>5, <1>6, <1>11, <2>2
  <2> QED BY <2>1, <2>2 DEF FoldingLeftIn
<1>13. TakingInTurn(iter, n, S, base, step)
  <2> HIDE DEF n
  <2> QED BY ONLY <1>1, <1>2, <1>4, <1>12, FoldsLeftUp
<1>15. <<n, iter[1 .. n]>> \in I
  <2> HIDE DEF n
  <2>1. \A m \in 1 .. n, w \in S : <<m - 1, w>> \in I => <<m, step[<<m, w>>]>> \in I
    BY <1>5, <1>14
  <2> QED BY ONLY <1>1, <1>13, <1>14, <2>1, TakingKeeps
<1> QED BY <1>10, <1>15

\* A cluster that grew without gaps has none when it is closed.
LEMMA ClosedIsDense ==
  ASSUME NEW w \in Clusterings, Grown(w.current), AllDense(w.clusters, ToSet(hitsIn(w.clusters))),
         NEW v, v.clusters = w.clusters \o cluster_by_coordinate(w.current)
  PROVE  AllDense(v.clusters, ToSet(hitsIn(v.clusters)))
<1> DEFINE cs == w.clusters  ds == cluster_by_coordinate(w.current)  H == ToSet(hitsIn(v.clusters))
<1>1. /\ cs \in Seq(Filled) /\ w.current \in Seq(Hits)
      /\ ds \in Seq(Filled) /\ ds \in Seq(Clusters) /\ ToSet(hitsIn(ds)) = ToSet(w.current)
  BY ClusteringFields, ClusteredKeeps DEF Same
<1>2. H = ToSet(w.current) \cup ToSet(hitsIn(cs)) BY FlushedKeeps DEF clusteredHits
<1>3. ASSUME NEW c \in ToSet(ds) PROVE ToSet(c.hits) \in SUBSET ToSet(w.current)
  BY <1>1, HitsInElements
<1>4. ToSet(v.clusters) = ToSet(cs) \cup ToSet(ds) BY <1>1, ConcatElements
<1> HIDE DEF cs, ds, H
<1>5. ASSUME NEW c \in ToSet(v.clusters) PROVE Dense(ToSet(c.hits), H)
  <2>1. CASE c \in ToSet(cs)
    <3>1. Dense(ToSet(c.hits), ToSet(hitsIn(cs))) BY <2>1 DEF AllDense, cs
    <3> QED BY <1>2, <3>1, DenseInMore
  <2>2. CASE c \in ToSet(ds)
    <3>1. Dense(ToSet(w.current), ToSet(w.current)) BY DEF Grown
    <3> QED BY <1>2, <1>3, <2>2, <3>1, DenseInMore
  <2> QED BY <1>4, <1>5, <2>1, <2>2
<1> QED BY <1>5 DEF AllDense, H

-----------------------------------------------------------------------------
\* The cluster that grows comes after those that are closed, and none of them has
\* a gap.
Growing(w) ==
  /\ Grown(w.current) /\ AllDense(w.clusters, ToSet(hitsIn(w.clusters)))
  /\ \A h \in ToSet(hitsIn(w.clusters)), g \in ToSet(w.current) : h.time <= g.time
  /\ w.current = <<>> => w.clusters = <<>>

\* No hit of w comes after one of hs from the m-th on.
NoneAfter(w, hs, m) ==
  \A h \in clusteredHits(w), i \in m .. Len(hs) : h.time <= hs[i].time

LEMMA HitGrows ==
  ASSUME GapsNested, NEW w \in Clusterings, Growing(w), NEW h \in Hits,
         \A g \in clusteredHits(w) : g.time <= h.time
  PROVE  Growing(clustered(w, h))
<1> DEFINE v == clustered(w, h)  one == <<h>>  s == w.current  cs == w.clusters
<1>0. one \in Seq(Hits) /\ ToSet(one) = {h} /\ one # <<>> BY OneHit
<1>1. s \in Seq(Hits) /\ cs \in Seq(Filled) /\ cs \in Seq(Clusters) BY ClusteringFields
<1>2. w = [current |-> s, clusters |-> cs] BY DEF Clusterings
<1>3. (\A g \in ToSet(s) : g.time <= h.time) /\ \A g \in ToSet(hitsIn(cs)) : g.time <= h.time
  BY DEF clusteredHits
<1>4. CASE s # <<>> /\ apart(h, Last(s))
  <2>1. v = [current |-> one, clusters |-> cs \o cluster_by_coordinate(s)]
    BY <1>4 DEF clustered
  <2> HIDE DEF one, v
  <2>2. v.current = one /\ v.clusters = w.clusters \o cluster_by_coordinate(w.current) BY <2>1
  <2>3. AllDense(v.clusters, ToSet(hitsIn(v.clusters))) BY <2>2, ClosedIsDense DEF Growing
  <2>4. ToSet(hitsIn(v.clusters)) = clusteredHits(w) BY <2>2, FlushedKeeps
  <2>5. Grown(v.current) BY <2>2, GrowsFromOne DEF one
  <2>6. \A g \in ToSet(hitsIn(v.clusters)), k \in ToSet(v.current) : g.time <= k.time
    BY <1>0, <2>2, <2>4
  <2>7. v.current # <<>> BY <1>0, <2>2
  <2> QED BY <2>3, <2>5, <2>6, <2>7 DEF Growing, v
<1>5. CASE ~(s # <<>> /\ apart(h, Last(s)))
  <2> DEFINE c == Append(s, h)
  <2>1. v = [w EXCEPT !.current = c] BY <1>5 DEF clustered
  <2>2. c \in Seq(Hits) /\ c # <<>> /\ ToSet(c) = ToSet(s) \cup {h} /\ Last(c) = h
    <3>1. c \in Seq(Hits) /\ c = s \o one /\ Len(c) = Len(s) + 1 /\ c[Len(s) + 1] = h BY <1>1
    <3>2. ToSet(s \o one) = ToSet(s) \cup ToSet(one)
      <4> HIDE DEF s, one
      <4> QED BY <1>0, <1>1, ConcatElements
    <3>3. Last(c) = h BY <3>1 DEF Last
    <3>4. c # <<>> BY <1>1
    <3> HIDE DEF c, s, one
    <3> QED BY <1>0, <3>1, <3>2, <3>3, <3>4
  <2> HIDE DEF c, v
  <2>3. v = [current |-> c, clusters |-> cs] BY <1>2, <2>1
  <2>4. v.current = c /\ v.clusters = cs BY <2>3
  <2>5. Grown(c)
    <3>1. Grown(s) BY DEF Growing
    <3> HIDE DEF s
    <3> QED BY <1>1, <1>3, <1>5, <2>2, <3>1, GrowsByOne
  <2>6. \A g \in ToSet(hitsIn(cs)), k \in ToSet(c) : g.time <= k.time
    BY <1>3, <2>2 DEF Growing
  <2>7. AllDense(cs, ToSet(hitsIn(cs))) BY DEF Growing
  <2> HIDE DEF cs
  <2> QED BY <2>2, <2>4, <2>5, <2>6, <2>7 DEF Growing, v
<1> QED BY <1>4, <1>5

\* The clusterer is given hits that come after those it has.
LEMMA ClusterGrows ==
  ASSUME GapsNested, NEW current \in Seq(Hits), NEW hits_0 \in Seq(Hits), Grown(current),
         \A h \in ToSet(current), g \in ToSet(hits_0) : h.time <= g.time
  PROVE  Growing(cluster(current, hits_0))
<1> DEFINE hs == byTime(hits_0)  base == [current |-> current, clusters |-> <<>>]
           n == Len(hs)
           I == {p \in (0 .. n) \X Clusterings : Growing(p[2]) /\ NoneAfter(p[2], hs, p[1] + 1)}
<1>0. /\ hs \in Seq(Hits) /\ ToSet(hs) = ToSet(hits_0)
      /\ cluster(current, hits_0) = FoldLeft(clustered, base, hs)
  BY SortedByTime DEF cluster, clustered, Same
<1>1. \A i, j \in 1 .. n : i <= j => hs[i].time <= hs[j].time BY TimesRise
<1> HIDE DEF hs
<1>2. n \in Nat /\ DOMAIN hs = 1 .. n /\ \A i \in 1 .. n : hs[i] \in Hits BY <1>0
<1>3. \A i \in 1 .. n : hs[i] \in ToSet(hits_0) BY <1>0, <1>2 DEF ToSet
<1>4. base \in Clusterings /\ Growing(base) /\ clusteredHits(base) = ToSet(current)
  <2>1. <<>> \in Seq(Filled) /\ hitsIn(<<>>) = <<>> /\ ToSet(<<>>) = {}
    <3>1. ToSet(<<>>) = {} BY DEF ToSet
    <3>2. hitsIn(<<>>) = <<>> BY NoClusterTyped, HitsInFew
    <3>3. <<>> \in Seq(Filled) OBVIOUS
    <3> QED BY <3>1, <3>2, <3>3
  <2>2. base.current = current /\ base.clusters = <<>> OBVIOUS
  <2>3. base \in Clusterings BY <2>1, ClusteringFields
  <2> HIDE DEF base
  <2>4. Growing(base) BY <2>1, <2>2 DEF Growing, AllDense
  <2> QED BY <2>1, <2>2, <2>3, <2>4 DEF clusteredHits
<1> HIDE DEF base
<1>5. <<0, base>> \in I
  <2>1. NoneAfter(base, hs, 0 + 1) BY <1>3, <1>4 DEF NoneAfter
  <2>2. 0 \in 0 .. n BY <1>2
  <2> QED BY <1>4, <2>1, <2>2
<1>6. ASSUME NEW m \in 1 .. n, NEW w \in Clusterings, <<m - 1, w>> \in I
      PROVE  <<m, clustered(w, hs[m])>> \in I
  <2> DEFINE h == hs[m]  v == clustered(w, h)
  <2>1. m \in 0 .. n /\ m \in Nat /\ (m - 1) + 1 = m /\ h \in Hits BY <1>2
  <2>2. Growing(w) /\ NoneAfter(w, hs, m) BY <1>6, <2>1
  <2>3. \A g \in clusteredHits(w) : g.time <= h.time
    <3>1. m \in m .. n BY <1>2
    <3> QED BY <2>2, <3>1 DEF NoneAfter
  <2> HIDE DEF h
  <2>4. v \in Clusterings /\ clusteredHits(v) = clusteredHits(w) \cup {h}
    BY <2>1, ClusteredAdds
  <2>5. Growing(v) BY <2>1, <2>2, <2>3, HitGrows
  <2> HIDE DEF v
  <2>6. NoneAfter(v, hs, m + 1)
    <3> SUFFICES ASSUME NEW g \in clusteredHits(v), NEW i \in m + 1 .. n PROVE g.time <= hs[i].time
      BY DEF NoneAfter
    <3>1. i \in m .. n /\ i \in 1 .. n /\ m <= i BY <1>2, <2>1
    <3>2. CASE g \in clusteredHits(w) BY <2>2, <3>1, <3>2 DEF NoneAfter
    <3>3. CASE g = h BY <1>1, <3>1, <3>3 DEF h
    <3> QED BY <2>4, <3>2, <3>3
  <2>7. <<m, v>> \in I BY <2>1, <2>4, <2>5, <2>6
  <2> QED BY <2>7 DEF v, h
<1> HIDE DEF I
<1>7. <<n, FoldLeft(clustered, base, hs)>> \in I BY <1>0, <1>4, <1>5, <1>6, ClusteringInTurn
<1> QED BY <1>0, <1>7 DEF I

-----------------------------------------------------------------------------
\* The first and last times are those of hits.
LEMMA FirstAndLast ==
  ASSUME NEW c, c.hits \in Seq(Hits), c.hits # <<>>
  PROVE  /\ timeStart(c) \in Nat /\ timeEnd(c) \in Nat /\ timeStart(c) <= timeEnd(c)
         /\ \A h \in ToSet(c.hits) : h \in Hits /\ h.time \in Nat
                                     /\ timeStart(c) <= h.time /\ h.time <= timeEnd(c)
         /\ \E h \in ToSet(c.hits) : h.time = timeStart(c)
         /\ \E h \in ToSet(c.hits) : h.time = timeEnd(c)
<1>1. /\ times(c) \in SUBSET Nat
      /\ timeStart(c) \in times(c) /\ \A t \in times(c) : timeStart(c) <= t
      /\ timeEnd(c) \in times(c) /\ \A t \in times(c) : t <= timeEnd(c)
  BY TimesOfHits
<1>2. times(c) = {h.time : h \in ToSet(c.hits)} BY DEF times
<1>3. \A h \in ToSet(c.hits) : h \in Hits BY ElementsAreHits
<1> HIDE DEF times, timeStart, timeEnd
<1> QED BY <1>1, <1>2, <1>3

LEMMA TimesOfEvent ==
  ASSUME NEW e \in BuiltEvents, eventHits(e) # <<>>
  PROVE  LET E == asCluster(e)
         IN  /\ timeStart(E) \in Nat /\ timeEnd(E) \in Nat /\ timeStart(E) <= timeEnd(E)
             /\ \A h \in ToSet(eventHits(e)) : h \in Hits /\ h.time \in Nat
                                     /\ timeStart(E) <= h.time /\ h.time <= timeEnd(E)
             /\ \E h \in ToSet(eventHits(e)) : h.time = timeStart(E)
             /\ \E h \in ToSet(eventHits(e)) : h.time = timeEnd(E)
<1> DEFINE E == asCluster(e)
<1>1. E.hits = eventHits(e) /\ eventHits(e) \in Seq(Hits) BY EventHitsTyped DEF asCluster
<1> HIDE DEF E
<1>2. /\ timeStart(E) \in Nat /\ timeEnd(E) \in Nat /\ timeStart(E) <= timeEnd(E)
      /\ \A h \in ToSet(E.hits) : h \in Hits /\ h.time \in Nat
                                     /\ timeStart(E) <= h.time /\ h.time <= timeEnd(E)
      /\ \E h \in ToSet(E.hits) : h.time = timeStart(E)
      /\ \E h \in ToSet(E.hits) : h.time = timeEnd(E)
  BY <1>1, FirstAndLast
<1> QED BY <1>1, <1>2 DEF E

\* A cluster that begins after an event does is far from it when it begins long
\* after its end.
LEMMA GapToNext ==
  ASSUME NEW e \in BuiltEvents, eventHits(e) # <<>>, NEW c \in Filled,
         timeStart(asCluster(e)) <= timeStart(c)
  PROVE  farther(e, c) <=> timeEnd(asCluster(e)) + MaxMatchingTimeGap < timeStart(c)
<1> DEFINE E == asCluster(e)
           a == timeStart(E)  b == timeStart(c)  x == timeEnd(E)  y == timeEnd(c)
           l == Max({a, b})  f == Min({x, y})  g == Max({0, l - f})  gap == MaxMatchingTimeGap
<1>1. a \in Nat /\ b \in Nat /\ x \in Nat /\ y \in Nat /\ a <= x /\ b <= y /\ a <= b
  BY TimesOfEvent, TimesOfFilled
<1>2. farther(e, c) <=> g > gap BY DEF farther, timeGap
<1>3. gap \in Nat BY BuilderAssumption
<1> HIDE DEF a, b, x, y, gap
<1>4. l = b
  <2>1. \A n \in {a, b} : n <= b BY <1>1
  <2>2. l = CHOOSE n \in {a, b} : \A k \in {a, b} : n >= k BY DEF Max
  <2>3. \A n \in {a, b} : (\A k \in {a, b} : n >= k) => n = b BY <1>1
  <2>4. \E n \in {a, b} : \A k \in {a, b} : n >= k BY <1>1
  <2> HIDE DEF l
  <2> QED BY <2>2, <2>3, <2>4
<1>5. f = IF x <= y THEN x ELSE y
  <2>1. f = CHOOSE n \in {x, y} : \A k \in {x, y} : n <= k BY DEF Min
  <2>2. CASE x <= y
    <3>1. \A n \in {x, y} : (\A k \in {x, y} : n <= k) => n = x BY <1>1, <2>2
    <3>2. \E n \in {x, y} : \A k \in {x, y} : n <= k BY <1>1, <2>2
    <3> HIDE DEF f
    <3> QED BY <2>1, <2>2, <3>1, <3>2
  <2>3. CASE ~(x <= y)
    <3>1. \A n \in {x, y} : (\A k \in {x, y} : n <= k) => n = y BY <1>1, <2>3
    <3>2. \E n \in {x, y} : \A k \in {x, y} : n <= k BY <1>1, <2>3
    <3> HIDE DEF f
    <3> QED BY <2>1, <2>3, <3>1, <3>2
  <2> QED BY <2>2, <2>3
<1> HIDE DEF l, f
<1>6. l - f \in Int BY <1>1, <1>4, <1>5
<1>7. g = IF l - f > 0 THEN l - f ELSE 0
  <2> DEFINE d == l - f
  <2>1. d \in Int /\ g = CHOOSE n \in {0, d} : \A k \in {0, d} : n >= k BY <1>6 DEF Max
  <2> HIDE DEF d, g
  <2>2. CASE d > 0
    <3>1. \A n \in {0, d} : (\A k \in {0, d} : n >= k) => n = d BY <2>1, <2>2
    <3>2. \E n \in {0, d} : \A k \in {0, d} : n >= k BY <2>1, <2>2
    <3>3. g = d BY <2>1, <3>1, <3>2
    <3> QED BY <2>2, <3>3 DEF d
  <2>3. CASE ~(d > 0)
    <3>1. \A n \in {0, d} : (\A k \in {0, d} : n >= k) => n = 0 BY <2>1, <2>3
    <3>2. \E n \in {0, d} : \A k \in {0, d} : n >= k BY <2>1, <2>3
    <3>3. g = 0 BY <2>1, <3>1, <3>2
    <3> QED BY <2>3, <3>3 DEF d
  <2> QED BY <2>2, <2>3
<1> HIDE DEF g
<1>8. g > gap <=> x + gap < b BY <1>1, <1>3, <1>4, <1>5, <1>7
<1> QED BY <1>2, <1>8 DEF x, b, gap

-----------------------------------------------------------------------------
\* The clusters are joined in turn: what every round keeps, all of them keep.
LEMMA JoiningInTurn ==
  ASSUME NEW base \in Joinings, NEW hs \in Seq(Filled), NEW I, <<0, base>> \in I,
         \A m \in 1 .. Len(hs), w \in Joinings :
           <<m - 1, w>> \in I => <<m, joining(w, hs[m])>> \in I
  PROVE  <<Len(hs), FoldLeft(joining, base, hs)>> \in I
<1> DEFINE n == Len(hs)  D == 1 .. n  S == Joinings
           step == [q \in D \X S |-> joining(q[2], hs[q[1]])]
           P(g) == g = [s \in SUBSET D |->
                          IF s = {} THEN base ELSE joining(g[s \ {Max(s)}], hs[Max(s)])]
           iter == CHOOSE g : P(g)
<1>1. n \in Nat /\ DOMAIN hs = D /\ \A i \in D : hs[i] \in Filled
  OBVIOUS
<1>2. base \in S OBVIOUS
<1>3. ASSUME NEW w \in S, NEW h \in Filled PROVE joining(w, h) \in S
  <2>1. h \in Clusters BY DEF Filled
  <2> QED BY <2>1, JoiningAdds
<1>4. step \in [D \X S -> S]
  <2> HIDE DEF D, S
  <2>1. \A q \in D \X S : joining(q[2], hs[q[1]]) \in S BY <1>1, <1>3
  <2> QED BY <2>1
<1>5. \A i \in D, w \in S : step[<<i, w>>] = joining(w, hs[i])
  <2> HIDE DEF D, S
  <2> QED OBVIOUS
<1>6. \A s \in SUBSET D : s # {} => Max(s) \in D /\ s \ {Max(s)} \in SUBSET D
  <2> HIDE DEF n
  <2>1. \A s \in SUBSET D : s # {} => Max(s) \in s BY <1>1, MaxIsLargest
  <2> QED BY <2>1
<1>14. /\ <<0, base>> \in I
       /\ \A m \in D, w \in S : <<m - 1, w>> \in I => <<m, joining(w, hs[m])>> \in I
  OBVIOUS
<1> HIDE DEF S, step
<1>7. PICK g \in [SUBSET D -> S] : FoldingLeft(g, n, base, step)
  <2> HIDE DEF n
  <2> QED BY ONLY <1>1, <1>2, <1>4, FoldsLeft
<1>8. P(g)
  <2>1. ASSUME NEW s \in SUBSET D
        PROVE  g[s] = IF s = {} THEN base ELSE joining(g[s \ {Max(s)}], hs[Max(s)])
    <3>1. s # {} => step[<<Max(s), g[s \ {Max(s)}]>>] = joining(g[s \ {Max(s)}], hs[Max(s)])
      <4> HIDE DEF D
      <4> QED BY <1>5, <1>6
    <3> QED BY <1>7, <3>1 DEF FoldingLeft
  <2> HIDE DEF D
  <2> QED BY <2>1
<1>9. P(iter)
  <2> HIDE DEF P
  <2> QED BY <1>8
<1>10. FoldLeft(joining, base, hs) = iter[D]
  BY <1>1 DEF FoldLeft, MapThenFoldSet
<1>11. \A s \in SUBSET D :
          iter[s] = IF s = {} THEN base ELSE joining(iter[s \ {Max(s)}], hs[Max(s)])
  <2> HIDE DEF iter, D
  <2> QED BY <1>9
<1> HIDE DEF iter
<1>12. FoldingLeftIn(iter, n, S, base, step)
  <2>1. iter[{}] = base
    <3>1. {} \in SUBSET D OBVIOUS
    <3> HIDE DEF D
    <3> QED BY <1>11, <3>1
  <2>2. ASSUME NEW s \in SUBSET D, s # {}, iter[s \ {Max(s)}] \in S
        PROVE  iter[s] = step[<<Max(s), iter[s \ {Max(s)}]>>]
    <3> HIDE DEF D
    <3> QED BY <1>5, <1>6, <1>11, <2>2
  <2> QED BY <2>1, <2>2 DEF FoldingLeftIn
<1>13. TakingInTurn(iter, n, S, base, step)
  <2> HIDE DEF n
  <2> QED BY ONLY <1>1, <1>2, <1>4, <1>12, FoldsLeftUp
<1>15. <<n, iter[1 .. n]>> \in I
  <2> HIDE DEF n
  <2>1. \A m \in 1 .. n, w \in S : <<m - 1, w>> \in I => <<m, step[<<m, w>>]>> \in I
    BY <1>5, <1>14
  <2> QED BY ONLY <1>1, <1>13, <1>14, <2>1, TakingKeeps
<1> QED BY <1>10, <1>15

\* From any time between hits of H the next is not far, or the time is within a
\* cluster with hits of H only.
Bridged(H, cs) ==
  \A t \in Nat : \A a, b \in H :
    (a.time <= t /\ t < b.time) =>
      \/ \E k \in H : t < k.time /\ k.time <= t + MaxMatchingTimeGap
      \/ \E c \in ToSet(cs) :
           /\ ToSet(c.hits) \subseteq H
           /\ \E x, y \in ToSet(c.hits) : x.time <= t /\ t < y.time

LEMMA BridgedByNone ==
  ASSUME NEW c, NEW cs, c \in ToSet(cs)
  PROVE  Bridged({}, cs) /\ Bridged(ToSet(c.hits), cs)
<1>1. Bridged({}, cs) BY DEF Bridged
<1>2. Bridged(ToSet(c.hits), cs)
  <2> SUFFICES ASSUME NEW t \in Nat, NEW a \in ToSet(c.hits), NEW b \in ToSet(c.hits),
                      a.time <= t, t < b.time
               PROVE  \E d \in ToSet(cs) :
                        /\ ToSet(d.hits) \subseteq ToSet(c.hits)
                        /\ \E x, y \in ToSet(d.hits) : x.time <= t /\ t < y.time
    BY DEF Bridged
  <2> QED OBVIOUS
<1> QED BY <1>1, <1>2

\* An event and a cluster that begins after it does, and not far after its end.
LEMMA BridgedByOneMore ==
  ASSUME NEW e \in BuiltEvents, NEW c \in Filled, NEW cs, c \in ToSet(cs),
         Bridged(ToSet(eventHits(e)), cs), eventHits(e) # <<>>,
         timeStart(asCluster(e)) <= timeStart(c), ~farther(e, c)
  PROVE  Bridged(ToSet(eventHits(e)) \cup ToSet(c.hits), cs)
<1> DEFINE H == ToSet(eventHits(e))  C == ToSet(c.hits)  gap == MaxMatchingTimeGap
           first == timeStart(asCluster(e))  last == timeEnd(asCluster(e))  start == timeStart(c)
<1>1. /\ first \in Nat /\ last \in Nat
      /\ \A h \in H : h.time \in Nat /\ first <= h.time /\ h.time <= last
      /\ (\E h \in H : h.time = first) /\ \E h \in H : h.time = last
  BY TimesOfEvent
<1>2. c.hits \in Seq(Hits) /\ c.hits # <<>> BY ClusterFields DEF Filled
<1>3. /\ start \in Nat /\ (\A h \in C : h.time \in Nat /\ start <= h.time)
      /\ \E h \in C : h.time = start
  BY <1>2, FirstAndLast
<1>4. first <= start /\ start <= last + gap
  <2>1. ~(last + gap < start) BY GapToNext
  <2>2. gap \in Nat BY BuilderAssumption
  <2> HIDE DEF start, last, gap
  <2> QED BY <1>1, <1>3, <2>1, <2>2 DEF start
<1>5. gap \in Nat BY BuilderAssumption
<1>6. Bridged(H, cs) OBVIOUS
<1> HIDE DEF H, C, gap, first, last, start
<1> SUFFICES ASSUME NEW t \in Nat, NEW a \in H \cup C, NEW b \in H \cup C,
                    a.time <= t, t < b.time
             PROVE  \/ \E k \in H \cup C : t < k.time /\ k.time <= t + gap
                    \/ \E d \in ToSet(cs) :
                         /\ ToSet(d.hits) \subseteq H \cup C
                         /\ \E x, y \in ToSet(d.hits) : x.time <= t /\ t < y.time
  BY DEF Bridged, H, C, gap
<1>7. first <= t
  <2>1. a.time \in Nat /\ first <= a.time BY <1>1, <1>3, <1>4
  <2> QED BY <1>1, <2>1
<1>8. CASE t < last
  <2>1. PICK x \in H, y \in H : x.time <= t /\ t < y.time BY <1>1, <1>7, <1>8
  <2>2. \/ \E k \in H : t < k.time /\ k.time <= t + gap
        \/ \E d \in ToSet(cs) :
             /\ ToSet(d.hits) \subseteq H
             /\ \E p, q \in ToSet(d.hits) : p.time <= t /\ t < q.time
    BY <1>6, <2>1 DEF Bridged, gap
  <2>3. CASE \E k \in H : t < k.time /\ k.time <= t + gap BY <2>3
  <2>4. CASE \E d \in ToSet(cs) :
             /\ ToSet(d.hits) \subseteq H
             /\ \E p, q \in ToSet(d.hits) : p.time <= t /\ t < q.time
    <3>1. PICK d \in ToSet(cs) :
             /\ ToSet(d.hits) \subseteq H
             /\ \E p, q \in ToSet(d.hits) : p.time <= t /\ t < q.time
      BY <2>4
    <3>2. ToSet(d.hits) \subseteq H \cup C BY <3>1
    <3> QED BY <3>1, <3>2
  <2> QED BY <2>2, <2>3, <2>4
<1>9. CASE ~(t < last) /\ t < start
  <2>1. PICK k \in C : k.time = start BY <1>3
  <2>2. t < k.time /\ k.time <= t + gap BY <1>1, <1>3, <1>4, <1>5, <1>9, <2>1
  <2> QED BY <2>1, <2>2
<1>10. CASE ~(t < last) /\ ~(t < start)
  <2>1. b \in C BY <1>1, <1>10
  <2>2. PICK k \in C : k.time = start BY <1>3
  <2>3. k.time <= t BY <1>3, <1>10, <2>2
  <2>4. c \in ToSet(cs) /\ ToSet(c.hits) \subseteq H \cup C BY DEF C
  <2>5. \E x, y \in ToSet(c.hits) : x.time <= t /\ t < y.time BY <2>1, <2>2, <2>3 DEF C
  <2> QED BY <2>4, <2>5
<1> QED BY <1>8, <1>9, <1>10

-----------------------------------------------------------------------------
HitSets == SUBSET Hits

\* What is long before some hit is long before those after it.
LEMMA ClearOfLater ==
  ASSUME NEW D \in HitSets, NEW H \in HitSets, NEW G \in HitSets, Clear(D, H),
         NEW h \in H, \A g \in G : h.time <= g.time
  PROVE  Clear(D, G)
<1> SUFFICES ASSUME NEW d \in D, NEW g \in G PROVE d.time + MaxMatchingTimeGap < g.time
  BY DEF Clear
<1>1. d.time \in Nat /\ h.time \in Nat /\ g.time \in Nat BY HitFields DEF HitSets
<1>2. d.time + MaxMatchingTimeGap < h.time BY DEF Clear
<1>3. MaxMatchingTimeGap \in Nat BY BuilderAssumption
<1> QED BY <1>1, <1>2, <1>3

LEMMA ClearOfBoth ==
  ASSUME NEW D, NEW H, NEW G, Clear(D, H), Clear(D, G)
  PROVE  Clear(D, H \cup G)
BY DEF Clear

hitsOfOne(e) == ToSet(eventHits(e))

\* The events are in order, each long before the next.
InOrder(es) ==
  \A i, j \in DOMAIN es : i < j => Clear(hitsOfOne(es[i]), hitsOfOne(es[j]))

\* The events done are long before the open one, and no event has a gap outside the
\* clusters it is made of.
Joint(w, cs) ==
  /\ IF w.open = EmptyEvent THEN w.done = <<>> ELSE eventHits(w.open) # <<>>
  /\ Bridged(hitsOfOne(w.open), cs)
  /\ InOrder(w.done)
  /\ \A i \in DOMAIN w.done : /\ Clear(hitsOfOne(w.done[i]), hitsOfOne(w.open))
                              /\ Bridged(hitsOfOne(w.done[i]), cs)

\* The open event begins before c does.
Begun(w, c) == w.open # EmptyEvent => timeStart(asCluster(w.open)) <= timeStart(c)

LEMMA EventHitSets ==
  ASSUME NEW e \in BuiltEvents
  PROVE  hitsOfOne(e) \in HitSets /\ (eventHits(e) # <<>> <=> hitsOfOne(e) # {})
<1> DEFINE s == eventHits(e)
<1>1. s \in Seq(Hits) BY EventHitsTyped
<1> HIDE DEF s
<1>2. ToSet(s) \in SUBSET Hits BY <1>1, ElementsAreHits
<1>3. s # <<>> <=> ToSet(s) # {}
  <2>1. s # <<>> => 1 \in DOMAIN s BY <1>1
  <2>2. ToSet(<<>>) = {} BY DEF ToSet
  <2>3. 1 \in DOMAIN s => s[1] \in ToSet(s) BY DEF ToSet
  <2> QED BY <2>1, <2>2, <2>3
<1> QED BY <1>2, <1>3 DEF hitsOfOne, HitSets, s

LEMMA ClusterHitSets ==
  ASSUME NEW c \in Filled
  PROVE  /\ ToSet(c.hits) \in HitSets /\ ToSet(c.hits) # {} /\ c \in Clusters
         /\ \A h \in ToSet(c.hits) : timeStart(c) <= h.time
         /\ timeStart(c) \in Nat
<1>1. c.hits \in Seq(Hits) /\ c.hits # <<>> BY ClusterFields DEF Filled
<1>2. /\ \A h \in ToSet(c.hits) : h \in Hits /\ timeStart(c) <= h.time
      /\ timeStart(c) \in Nat
      /\ \E h \in ToSet(c.hits) : h.time = timeStart(c)
  BY <1>1, FirstAndLast
<1>3. c \in Clusters BY DEF Filled
<1> QED BY <1>2, <1>3 DEF HitSets

LEMMA JoinsOn ==
  ASSUME NEW cs, NEW w \in Joinings, Joint(w, cs), NEW c \in Filled, c \in ToSet(cs), Begun(w, c)
  PROVE  Joint(joining(w, c), cs) /\ Begun(joining(w, c), c) /\ joining(w, c).open # EmptyEvent
<1> DEFINE v == joining(w, c)  C == ToSet(c.hits)  H == hitsOfOne(w.open)  o == w.open  es == w.done
           start == timeStart(c)
<1>1. o \in BuiltEvents /\ es \in Seq(BuiltEvents) /\ w = [open |-> o, done |-> es]
  BY JoiningFields
<1>2. C \in HitSets /\ C # {} /\ c \in Clusters /\ start \in Nat /\ \A h \in C : start <= h.time
  BY ClusterHitSets
<1>3. H \in HitSets /\ (eventHits(o) # <<>> <=> H # {}) BY <1>1, EventHitSets
<1>4. \A i \in DOMAIN es : es[i] \in BuiltEvents BY <1>1
<1>5. \A i \in DOMAIN es : hitsOfOne(es[i]) \in HitSets BY <1>4, EventHitSets
<1>6. /\ IF o = EmptyEvent THEN es = <<>> ELSE eventHits(o) # <<>>
      /\ Bridged(H, cs) /\ InOrder(es)
      /\ \A i \in DOMAIN es : Clear(hitsOfOne(es[i]), H) /\ Bridged(hitsOfOne(es[i]), cs)
  BY DEF Joint
<1>7. ASSUME o # EmptyEvent PROVE \E h \in H : \A g \in C : h.time <= g.time
  <2>1. eventHits(o) # <<>> BY <1>6, <1>7
  <2>2. PICK h \in H : h.time = timeStart(asCluster(o)) BY <1>1, <2>1, TimesOfEvent DEF hitsOfOne
  <2>3. h.time <= start BY <1>7, <2>2 DEF Begun
  <2>4. h.time \in Nat /\ \A g \in C : g.time \in Nat BY <1>2, <1>3, HitFields DEF HitSets
  <2> HIDE DEF H, C, start
  <2>5. ASSUME NEW g \in C PROVE h.time <= g.time BY <1>2, <2>3, <2>4
  <2> QED BY <2>5
<1>8. ASSUME NEW i \in DOMAIN es PROVE Clear(hitsOfOne(es[i]), C)
  <2>1. o # EmptyEvent BY <1>6, <1>8
  <2>2. PICK h \in H : \A g \in C : h.time <= g.time BY <1>7, <2>1
  <2> HIDE DEF H, C
  <2> QED BY <1>2, <1>3, <1>5, <1>6, <1>8, <2>2, ClearOfLater
<1>9. ASSUME NEW e \in BuiltEvents, C \subseteq hitsOfOne(e)
      PROVE  eventHits(e) # <<>> /\ e # EmptyEvent /\ timeStart(asCluster(e)) <= start
  <2>1. eventHits(e) # <<>> BY <1>2, <1>9, EventHitSets
  <2>2. c.hits \in Seq(Hits) /\ c.hits # <<>> BY ClusterFields DEF Filled
  <2>3. PICK h \in C : h.time = start BY <2>2, FirstAndLast
  <2>4. timeStart(asCluster(e)) <= h.time BY <1>9, <2>1, TimesOfEvent DEF hitsOfOne
  <2> QED BY <2>1, <2>3, <2>4, EmptyEventTyped
<1>10. CASE o # EmptyEvent /\ farther(o, c)
  <2> DEFINE e == addCluster(EmptyEvent, c)  fs == Append(es, o)
  <2>1. v = [open |-> e, done |-> fs] BY <1>10 DEF joining
  <2>2. e \in BuiltEvents /\ hitsOfOne(e) = C
    <3>1. ToSet(eventHits(EmptyEvent)) = {} BY EmptyEventTyped DEF ToSet
    <3> QED BY <1>2, <3>1, EmptyEventTyped, AddClusterKeeps DEF hitsOfOne
  <2>3. Clear(H, C)
    <3>1. eventHits(o) # <<>> /\ timeStart(asCluster(o)) <= start BY <1>6, <1>10 DEF Begun
    <3> DEFINE last == timeEnd(asCluster(o))  gap == MaxMatchingTimeGap
    <3>2. last + gap < start BY <1>1, <1>10, <3>1, GapToNext
    <3>3. last \in Nat /\ \A h \in H : h.time \in Nat /\ h.time <= last
      BY <1>1, <3>1, TimesOfEvent DEF hitsOfOne
    <3>4. gap \in Nat BY BuilderAssumption
    <3>5. \A h \in C : h.time \in Nat BY <1>2, HitFields DEF HitSets
    <3> HIDE DEF H, C, start, last, gap
    <3>6. ASSUME NEW h \in H, NEW g \in C PROVE h.time + gap < g.time
      <4>1. h.time \in Nat /\ h.time <= last /\ g.time \in Nat /\ start <= g.time
        BY <1>2, <3>3, <3>5
      <4> QED BY <1>2, <3>2, <3>3, <3>4, <4>1
    <3> QED BY <3>6 DEF Clear, gap
  <2>4. Bridged(C, cs) BY BridgedByNone
  <2>5. /\ Len(fs) = Len(es) + 1 /\ DOMAIN fs = 1 .. Len(es) + 1 /\ DOMAIN es = 1 .. Len(es)
        /\ fs[Len(es) + 1] = o /\ \A i \in 1 .. Len(es) : fs[i] = es[i]
        /\ Len(es) \in Nat
    BY <1>1
  <2>6. v.open = e /\ v.done = fs
    <3> HIDE DEF v, e, fs
    <3> QED BY <2>1
  <2>7. eventHits(e) # <<>> /\ e # EmptyEvent /\ timeStart(asCluster(e)) <= start
    BY <1>9, <2>2
  <2> HIDE DEF v, e, fs, H, C, start, o, es
  <2>8. ASSUME NEW i \in DOMAIN fs
        PROVE  Clear(hitsOfOne(fs[i]), C) /\ Bridged(hitsOfOne(fs[i]), cs)
    <3>1. CASE i \in DOMAIN es BY <1>6, <1>8, <2>5, <3>1
    <3>2. CASE i = Len(es) + 1 BY <1>6, <2>3, <2>5, <3>2 DEF H, o
    <3> QED BY <2>5, <3>1, <3>2
  <2>9. InOrder(fs)
    <3> SUFFICES ASSUME NEW i \in DOMAIN fs, NEW j \in DOMAIN fs, i < j
                 PROVE  Clear(hitsOfOne(fs[i]), hitsOfOne(fs[j]))
      BY DEF InOrder
    <3>1. i \in DOMAIN es BY <2>5
    <3>2. CASE j \in DOMAIN es BY <1>6, <2>5, <3>1, <3>2 DEF InOrder
    <3>3. CASE j = Len(es) + 1 BY <1>6, <2>5, <3>1, <3>3 DEF H, o
    <3> QED BY <2>5, <3>2, <3>3
  <2>10. Joint(v, cs) BY <2>2, <2>4, <2>6, <2>7, <2>8, <2>9 DEF Joint
  <2>11. Begun(v, c) BY <2>6, <2>7 DEF Begun, start
  <2> QED BY <2>6, <2>7, <2>10, <2>11 DEF v
<1>11. CASE ~(o # EmptyEvent /\ farther(o, c))
  <2> DEFINE e == addCluster(o, c)
  <2>1. v = [w EXCEPT !.open = e] BY <1>11 DEF joining
  <2>2. e \in BuiltEvents /\ hitsOfOne(e) = H \cup C
    BY <1>1, <1>2, AddClusterKeeps DEF hitsOfOne
  <2>3. v.open = e /\ v.done = es
    <3> HIDE DEF v, e
    <3> QED BY <1>1, <2>1
  <2>4. eventHits(e) # <<>> /\ e # EmptyEvent /\ timeStart(asCluster(e)) <= start
    BY <1>9, <2>2
  <2>5. Bridged(H \cup C, cs)
    <3>1. CASE o = EmptyEvent
      <4>1. H = {} BY <3>1, EmptyEventTyped DEF hitsOfOne, ToSet
      <4>2. Bridged(C, cs) BY BridgedByNone
      <4>3. H \cup C = C BY <4>1
      <4> HIDE DEF H, C
      <4> QED BY <4>2, <4>3
    <3>2. CASE o # EmptyEvent
      <4>1. ~farther(o, c) /\ eventHits(o) # <<>> /\ timeStart(asCluster(o)) <= start
        BY <1>6, <1>11, <3>2 DEF Begun
      <4>2. Bridged(hitsOfOne(o) \cup ToSet(c.hits), cs)
        BY <1>1, <1>6, <4>1, BridgedByOneMore DEF hitsOfOne
      <4> QED BY <4>2
    <3> QED BY <3>1, <3>2
  <2> HIDE DEF v, e, H, C, start, o, es
  <2>6. ASSUME NEW i \in DOMAIN es
        PROVE  Clear(hitsOfOne(es[i]), hitsOfOne(e)) /\ Bridged(hitsOfOne(es[i]), cs)
    BY <1>6, <1>8, <2>2, <2>6, ClearOfBoth
  <2>7. Joint(v, cs) BY <1>6, <2>2, <2>3, <2>4, <2>5, <2>6 DEF Joint
  <2>8. Begun(v, c) BY <2>3, <2>4 DEF Begun, start
  <2> QED BY <2>3, <2>4, <2>7, <2>8 DEF v
<1> QED BY <1>10, <1>11

-----------------------------------------------------------------------------
LEMMA FirstOfSequence ==
  ASSUME NEW T, NEW s \in Seq(T), NEW k \in 0 .. Len(s)
  PROVE  /\ SubSeq(s, 1, k) \in Seq(T) /\ Len(SubSeq(s, 1, k)) = k
         /\ \A i \in 1 .. k : SubSeq(s, 1, k)[i] = s[i]
OBVIOUS

\* The events that the first clusters make, in the order of time.
LEMMA JoinedIsJoint ==
  ASSUME NEW cs \in Seq(Filled), InTime(cs), NEW k \in 0 .. Len(cs)
  PROVE  /\ Joint(joined(cs, k), SubSeq(cs, 1, k))
         /\ k > 0 => joined(cs, k).open # EmptyEvent
         /\ \A i \in k + 1 .. Len(cs) : Begun(joined(cs, k), cs[i])
<1> DEFINE hs == SubSeq(cs, 1, k)  base == [open |-> EmptyEvent, done |-> <<>>]
           n == Len(hs)
           I == {p \in (0 .. n) \X Joinings :
                   /\ Joint(p[2], hs)
                   /\ p[1] > 0 => p[2].open # EmptyEvent
                   /\ \A i \in p[1] + 1 .. Len(cs) : Begun(p[2], cs[i])}
<1>0. joined(cs, k) = FoldLeft(joining, base, hs) BY DEF joined, joining
<1>1. hs \in Seq(Filled) /\ n = k /\ k \in Nat /\ Len(cs) \in Nat /\ \A i \in 1 .. k : hs[i] = cs[i]
  <2> DEFINE U == Filled
  <2>1. cs \in Seq(U) /\ k \in 0 .. Len(cs) OBVIOUS
  <2> HIDE DEF U
  <2>2. hs \in Seq(U) /\ Len(hs) = k /\ \A i \in 1 .. k : hs[i] = cs[i] BY <2>1, FirstOfSequence
  <2> HIDE DEF hs
  <2>3. k \in Nat /\ Len(cs) \in Nat BY <2>1
  <2> QED BY <2>2, <2>3 DEF U
<1>2. \A i \in 1 .. Len(cs) : cs[i] \in Filled OBVIOUS
<1>3. ASSUME NEW i \in 1 .. Len(cs), NEW j \in 1 .. Len(cs), i <= j
      PROVE  timeStart(cs[i]) <= timeStart(cs[j])
  <2>1. i \in DOMAIN cs /\ j \in DOMAIN cs OBVIOUS
  <2> QED BY <1>3, <2>1 DEF InTime
<1> HIDE DEF hs
<1>4. base \in Joinings /\ base.open = EmptyEvent /\ base.done = <<>>
  <2>1. <<>> \in Seq(BuiltEvents) OBVIOUS
  <2> QED BY <2>1, EmptyEventTyped, JoiningFields
<1> HIDE DEF base
<1>5. <<0, base>> \in I
  <2>1. hitsOfOne(base.open) = {} BY <1>4, EmptyEventTyped DEF hitsOfOne, ToSet
  <2>2. Bridged({}, hs) BY DEF Bridged
  <2>3. InOrder(<<>>) BY DEF InOrder
  <2>4. Joint(base, hs) BY <1>4, <2>1, <2>2, <2>3 DEF Joint
  <2>5. \A i \in 0 + 1 .. Len(cs) : Begun(base, cs[i]) BY <1>4 DEF Begun
  <2>6. 0 \in 0 .. n BY <1>1
  <2> QED BY <1>4, <2>4, <2>5, <2>6
<1>6. ASSUME NEW m \in 1 .. n, NEW w \in Joinings, <<m - 1, w>> \in I
      PROVE  <<m, joining(w, hs[m])>> \in I
  <2> DEFINE c == hs[m]  v == joining(w, c)
  <2>1. /\ m \in 0 .. n /\ m \in Nat /\ m > 0 /\ (m - 1) + 1 = m /\ m \in 1 .. Len(cs) /\ m \in m .. Len(cs)
        /\ c = cs[m] /\ c \in Filled
    BY <1>1, <1>2
  <2>2. Joint(w, hs) /\ \A i \in m .. Len(cs) : Begun(w, cs[i]) BY <1>6, <2>1
  <2>3. c \in ToSet(hs)
    <3>1. m \in DOMAIN hs BY <1>1
    <3> QED BY <3>1 DEF ToSet
  <2> HIDE DEF c
  <2>4. Begun(w, c) BY <2>1, <2>2
  <2>5. Joint(v, hs) /\ Begun(v, c) /\ v.open # EmptyEvent BY <2>1, <2>2, <2>3, <2>4, JoinsOn
  <2>6. v \in Joinings BY <2>1, ClusterHitSets, JoiningAdds
  <2>7. ASSUME NEW i \in m + 1 .. Len(cs) PROVE Begun(v, cs[i])
    <3>1. i \in 1 .. Len(cs) /\ m <= i BY <1>1, <2>1
    <3>2. timeStart(c) <= timeStart(cs[i]) BY <1>3, <2>1, <3>1
    <3>3. timeStart(c) \in Nat /\ timeStart(cs[i]) \in Nat BY <1>2, <2>1, <3>1, ClusterHitSets
    <3>4. timeStart(asCluster(v.open)) \in Nat
      <4>1. v.open \in BuiltEvents /\ eventHits(v.open) # <<>> BY <2>5, <2>6, JoiningFields DEF Joint
      <4> QED BY <4>1, TimesOfEvent
    <3>5. timeStart(asCluster(v.open)) <= timeStart(c) BY <2>5 DEF Begun
    <3> DEFINE x == timeStart(asCluster(v.open))  y == timeStart(c)  z == timeStart(cs[i])
    <3>6. x \in Nat /\ y \in Nat /\ z \in Nat /\ x <= y /\ y <= z BY <3>2, <3>3, <3>4, <3>5
    <3> HIDE DEF x, y, z
    <3>7. x <= z BY <3>6
    <3> QED BY <3>7 DEF Begun, x, z
  <2> HIDE DEF v
  <2>8. <<m, v>> \in I BY <2>1, <2>5, <2>6, <2>7
  <2> QED BY <2>8 DEF v, c
<1> DEFINE result == FoldLeft(joining, base, hs)
<1> HIDE DEF I, result
<1>7. <<n, result>> \in I BY <1>1, <1>4, <1>5, <1>6, JoiningInTurn DEF result
<1>8. <<k, result>> \in I BY <1>1, <1>7
<1>9. joined(cs, k) = result BY <1>0 DEF result
<1>10. /\ Joint(result, hs)
       /\ k > 0 => result.open # EmptyEvent
       /\ \A i \in k + 1 .. Len(cs) : Begun(result, cs[i])
  BY <1>8 DEF I
<1> QED BY <1>9, <1>10 DEF hs

-----------------------------------------------------------------------------
\* Every hit there is belongs to V, or is long before or long after all of H.
Surrounded(H, V, W) == \A k \in W : k \in V \/ Clear({k}, H) \/ Clear(H, {k})

\* What is bridged by clusters without gaps has none.
LEMMA WholeAmongOthers ==
  ASSUME NEW H \in HitSets, NEW V \in HitSets, NEW W \in HitSets, H \subseteq V,
         NEW cs, Bridged(H, cs), AllDense(cs, W), Surrounded(H, V, W)
  PROVE  Dense(H, V)
<1> DEFINE gap == MaxMatchingTimeGap
<1>1. gap \in Nat BY BuilderAssumption
<1>2. /\ \A h \in H : h.time \in Nat
      /\ \A h \in V : h.time \in Nat
      /\ \A h \in W : h.time \in Nat
  BY HitFields DEF HitSets
<1> HIDE DEF gap
<1> SUFFICES ASSUME NEW t \in Nat, NEW a \in H, NEW b \in H, a.time <= t, t < b.time
             PROVE  \E k \in V : t < k.time /\ k.time <= t + gap
  BY DEF Dense, gap
<1>3. CASE \E k \in H : t < k.time /\ k.time <= t + gap BY <1>3
<1>4. CASE \E c \in ToSet(cs) : /\ ToSet(c.hits) \subseteq H
                                /\ \E x, y \in ToSet(c.hits) : x.time <= t /\ t < y.time
  <2>1. PICK c \in ToSet(cs) : /\ ToSet(c.hits) \subseteq H
                               /\ \E x, y \in ToSet(c.hits) : x.time <= t /\ t < y.time
    BY <1>4
  <2>2. PICK x \in ToSet(c.hits) : \E y \in ToSet(c.hits) : x.time <= t /\ t < y.time BY <2>1
  <2>3. PICK y \in ToSet(c.hits) : x.time <= t /\ t < y.time BY <2>2
  <2>4. Dense(ToSet(c.hits), W) BY DEF AllDense
  <2>5. PICK k \in W : t < k.time /\ k.time <= t + gap BY <2>3, <2>4 DEF Dense, gap
  <2>6. x \in H /\ y \in H /\ x.time \in Nat /\ y.time \in Nat /\ k.time \in Nat
    BY <1>2, <2>1
  <2>7. ~Clear({k}, H)
    <3>1. ~(k.time + gap < x.time) BY <1>1, <2>3, <2>5, <2>6
    <3> QED BY <2>6, <3>1 DEF Clear, gap
  <2>8. ~Clear(H, {k})
    <3>1. ~(y.time + gap < k.time) BY <1>1, <2>3, <2>5, <2>6
    <3> QED BY <2>6, <3>1 DEF Clear, gap
  <2>9. k \in V BY <2>7, <2>8 DEF Surrounded
  <2> QED BY <2>5, <2>9
<1> QED BY <1>3, <1>4 DEF Bridged, gap

\* What is clear of a set is clear of its elements.
LEMMA ClearOfEach ==
  ASSUME NEW H, NEW G, Clear(H, G)
  PROVE  (\A k \in G : Clear(H, {k})) /\ \A k \in H : Clear({k}, G)
BY DEF Clear

\* The events that the clusters cs make are whole, where the other hits come long
\* after those done.
LEMMA JointAreWhole ==
  ASSUME NEW w \in Joinings, NEW cs, Joint(w, cs), NEW L \in HitSets,
         \A i \in DOMAIN w.done : Clear(hitsOfOne(w.done[i]), L),
         AllDense(cs, joinedHits(w) \cup L)
  PROVE  /\ \A i \in DOMAIN w.done : Dense(hitsOfOne(w.done[i]), hitsOfOne(w.done[i]))
         /\ Dense(hitsOfOne(w.open), hitsOfOne(w.open) \cup L)
<1> DEFINE O == hitsOfOne(w.open)  es == w.done  W == joinedHits(w) \cup L
<1>1. w.open \in BuiltEvents /\ es \in Seq(BuiltEvents) BY JoiningFields
<1>2. \A i \in DOMAIN es : es[i] \in BuiltEvents BY <1>1
<1>3. O \in HitSets /\ \A i \in DOMAIN es : hitsOfOne(es[i]) \in HitSets BY <1>1, <1>2, EventHitSets
<1>4. joinedHits(w) = O \cup UNION {hitsOfOne(e) : e \in ToSet(es)}
  BY <1>1, HitsAmongElements DEF joinedHits, hitsOfOne
<1>5. ToSet(es) = {es[i] : i \in DOMAIN es} BY DEF ToSet
<1>6. /\ Bridged(O, cs) /\ InOrder(es)
      /\ \A i \in DOMAIN es : Clear(hitsOfOne(es[i]), O) /\ Bridged(hitsOfOne(es[i]), cs)
      /\ \A i \in DOMAIN es : Clear(hitsOfOne(es[i]), L)
  BY DEF Joint
<1>7. DOMAIN es = 1 .. Len(es) /\ Len(es) \in Nat BY <1>1
<1>8. \A k \in W : k \in O \/ k \in L \/ \E i \in DOMAIN es : k \in hitsOfOne(es[i])
  BY <1>4, <1>5
<1>9. W \in HitSets
  <2>1. \A k \in W : k \in Hits BY <1>3, <1>8 DEF HitSets
  <2> QED BY <2>1 DEF HitSets
<1>10. AllDense(cs, W) OBVIOUS
<1> HIDE DEF O, es, W
<1>11. ASSUME NEW i \in DOMAIN es PROVE Dense(hitsOfOne(es[i]), hitsOfOne(es[i]))
  <2> DEFINE D == hitsOfOne(es[i])
  <2>1. ASSUME NEW k \in W PROVE k \in D \/ Clear({k}, D) \/ Clear(D, {k})
    <3>1. CASE k \in O BY <1>6, <3>1, ClearOfEach
    <3>2. CASE k \in L BY <1>6, <3>2, ClearOfEach
    <3>3. CASE \E j \in DOMAIN es : k \in hitsOfOne(es[j])
      <4>1. PICK j \in DOMAIN es : k \in hitsOfOne(es[j]) BY <3>3
      <4>2. i = j \/ i < j \/ j < i BY <1>7
      <4>3. CASE i < j
        <5>1. Clear(D, hitsOfOne(es[j])) BY <1>6, <4>3 DEF InOrder
        <5> QED BY <4>1, <5>1, ClearOfEach
      <4>4. CASE j < i
        <5>1. Clear(hitsOfOne(es[j]), D) BY <1>6, <4>4 DEF InOrder
        <5> QED BY <4>1, <5>1, ClearOfEach
      <4> QED BY <4>1, <4>2, <4>3, <4>4
    <3> QED BY <1>8, <3>1, <3>2, <3>3
  <2>2. Surrounded(D, D, W) BY <2>1 DEF Surrounded
  <2>3. D \in HitSets /\ Bridged(D, cs) BY <1>3, <1>6
  <2> HIDE DEF D
  <2>4. Dense(D, D) BY <1>9, <1>10, <2>2, <2>3, WholeAmongOthers
  <2> QED BY <2>4 DEF D
<1>12. Dense(O, O \cup L)
  <2>1. ASSUME NEW k \in W PROVE k \in O \cup L \/ Clear({k}, O) \/ Clear(O, {k})
    <3>1. CASE \E j \in DOMAIN es : k \in hitsOfOne(es[j]) BY <1>6, <3>1, ClearOfEach
    <3> QED BY <1>8, <3>1
  <2>2. Surrounded(O, O \cup L, W) BY <2>1 DEF Surrounded
  <2>3. O \cup L \in HitSets BY <1>3 DEF HitSets
  <2> QED BY <1>3, <1>6, <1>9, <1>10, <2>2, <2>3, WholeAmongOthers
<1> QED BY <1>11, <1>12 DEF O, es

-----------------------------------------------------------------------------
\* A cluster that is ready ends before the latest of each plane.
LEMMA ReadyIsBefore ==
  ASSUME NEW c \in Filled, NEW latest \in LatestTimes, ready_to_be_matched(latest, c),
         NEW p \in Planes
  PROVE  timeEnd(c) < latest[p]
<1> DEFINE a == latest[PlaneX]  b == latest[PlaneY]  e == timeEnd(c)  m == Min({a, b})
<1>1. a \in Nat /\ b \in Nat /\ latest[p] \in {a, b}
  BY DEF LatestTimes, Planes, PlaneX, PlaneY
<1>2. e \in Nat /\ Latency \in Nat BY TimesOfFilled, BuilderAssumption
<1>3. {latest[q] : q \in Planes} = {a, b} BY DEF Planes, PlaneX, PlaneY
<1>4. m > e + Latency BY <1>3 DEF ready_to_be_matched
<1>m. m = Min({a, b}) OBVIOUS
<1> HIDE DEF a, b, e, m
<1>i. a \in Int /\ b \in Int BY <1>1
<1>5. m \in Int /\ m <= a /\ m <= b BY <1>i, <1>m, LargerAndSmaller
<1>6. e < a /\ e < b BY <1>1, <1>2, <1>4, <1>5
<1> QED BY <1>1, <1>6 DEF e

\* The clusters matched are ready, when not all of them are matched anyway.
LEMMA MatchableIsReady ==
  ASSUME NEW cs \in Seq(Filled), NEW latest, NEW full, ~full,
         NEW n, n = matchable(cs, latest, full), NEW i \in 1 .. n
  PROVE  i \in 1 .. Len(cs) /\ ready_to_be_matched(latest, cs[i])
<1> DEFINE m == Len(cs)  W == {j \in DOMAIN cs : ~ready_to_be_matched(latest, cs[j])}
<1>1. m \in Nat /\ DOMAIN cs = 1 .. m OBVIOUS
<1>2. n \in 0 .. m BY MatchableOf
<1>3. n = IF W = {} THEN m ELSE Min(W) - 1 BY DEF matchable
<1>4. i \in 1 .. m BY <1>1, <1>2
<1>5. i \notin W => ready_to_be_matched(latest, cs[i]) BY <1>1, <1>4
<1>6. W \in SUBSET Nat BY <1>1
<1> HIDE DEF W, m
<1>7. i \notin W
  <2>1. CASE W = {} BY <2>1
  <2>2. CASE W # {}
    <3>1. Min(W) \in W /\ \A j \in W : Min(W) <= j BY <1>6, <2>2, MinIsSmallest
    <3>2. Min(W) \in Nat /\ n = Min(W) - 1 BY <1>3, <1>6, <2>2, <3>1
    <3> DEFINE k == Min(W)
    <3>3. k \in Nat /\ n = k - 1 /\ \A j \in W : k <= j BY <3>1, <3>2
    <3> HIDE DEF k
    <3>4. i < k BY <3>3
    <3>5. i \in Nat OBVIOUS
    <3> QED BY <3>3, <3>4, <3>5
  <2> QED BY <2>1, <2>2
<1> QED BY <1>4, <1>5, <1>7 DEF m

\* What else there is comes long after the events that are done: the clusters of the
\* rest, that begin after the open event, and the hits that come after the latest of
\* some plane.
LEMMA DoneIsClear ==
  ASSUME NEW s \in Seq(Filled), InTime(s), NEW latest \in LatestTimes, NEW full \in BOOLEAN,
         NEW n, n = matchable(s, latest, full), NEW w, w = joined(s, n),
         NEW rest, rest = SubSeq(s, n + 1, Len(s)),
         NEW C \in HitSets, full => C = {},
         ~full => \A h \in C : \E p \in Planes : latest[p] <= h.time
  PROVE  /\ ToSet(hitsIn(rest)) \cup C \in HitSets
         /\ \A i \in DOMAIN w.done : Clear(hitsOfOne(w.done[i]), ToSet(hitsIn(rest)) \cup C)
<1> DEFINE first == SubSeq(s, 1, n)  O == hitsOfOne(w.open)  R == ToSet(hitsIn(rest))
<1>1. n \in 0 .. Len(s) /\ n \in Nat /\ Len(s) \in Nat BY MatchableOf
<1>2. first \in Seq(Filled) /\ rest \in Seq(Filled) BY <1>1, FirstAndRest
<1>3. w \in Joinings /\ joinedHits(w) = ToSet(hitsIn(first)) BY <1>1, JoinedKeeps
<1>4. /\ Joint(w, first) /\ \A i \in n + 1 .. Len(s) : Begun(w, s[i])
  BY <1>1, JoinedIsJoint
<1>5. \A i \in 1 .. Len(s) : s[i] \in Filled OBVIOUS
<1>6. ASSUME NEW c \in ToSet(first) PROVE \E i \in 1 .. n : c = s[i]
  <2> DEFINE U == Filled
  <2>1. s \in Seq(U) OBVIOUS
  <2> HIDE DEF U
  <2>2. Len(first) = n /\ first \in Seq(U) /\ \A i \in 1 .. n : first[i] = s[i]
    BY <1>1, <2>1, FirstOfSequence
  <2> HIDE DEF first
  <2>3. DOMAIN first = 1 .. n BY <2>2
  <2> QED BY <2>2, <2>3 DEF ToSet
<1>7. ASSUME NEW c \in ToSet(rest) PROVE \E i \in n + 1 .. Len(s) : c = s[i]
  <2> DEFINE U == Filled
  <2>1. s \in Seq(U) OBVIOUS
  <2> HIDE DEF U
  <2>2. /\ rest \in Seq(U) /\ Len(rest) = Len(s) - n
        /\ \A i \in 1 .. Len(s) - n : rest[i] = s[n + i]
    BY <1>1, <2>1
  <2>3. DOMAIN rest = 1 .. Len(s) - n BY <1>1, <2>2
  <2>4. PICK i \in 1 .. Len(s) - n : c = rest[i] BY <2>3 DEF ToSet
  <2>5. n + i \in n + 1 .. Len(s) BY <1>1
  <2> QED BY <2>2, <2>4, <2>5
<1> HIDE DEF first
<1>8. /\ ToSet(hitsIn(first)) = UNION {ToSet(c.hits) : c \in ToSet(first)}
      /\ R = UNION {ToSet(c.hits) : c \in ToSet(rest)}
  BY <1>2, FilledAreClusters, HitsInElements
<1>9. w.open \in BuiltEvents /\ w.done \in Seq(BuiltEvents) BY <1>3, JoiningFields
<1>10. \A i \in DOMAIN w.done : w.done[i] \in BuiltEvents BY <1>9
<1>11. O \in HitSets /\ \A i \in DOMAIN w.done : hitsOfOne(w.done[i]) \in HitSets
  BY <1>9, <1>10, EventHitSets
<1>12. R \in HitSets
  <2>1. hitsIn(rest) \in Seq(Hits) BY <1>2, FilledAreClusters, HitsInTyped
  <2> QED BY <2>1, ElementsAreHits DEF HitSets
<1>13. R \cup C \in HitSets BY <1>12 DEF HitSets
<1>14. O \subseteq joinedHits(w) BY DEF joinedHits, hitsOfOne
<1> HIDE DEF R, O
<1>15. ASSUME NEW i \in DOMAIN w.done PROVE Clear(hitsOfOne(w.done[i]), R \cup C)
  <2> DEFINE D == hitsOfOne(w.done[i])
  <2>1. D \in HitSets /\ Clear(D, O) BY <1>4, <1>11 DEF Joint, O
  <2>2. w.open # EmptyEvent /\ eventHits(w.open) # <<>>
    <3>1. w.done # <<>> OBVIOUS
    <3> QED BY <1>4, <3>1 DEF Joint
  <2>3. PICK h \in O : h.time = timeStart(asCluster(w.open))
    BY <1>9, <2>2, TimesOfEvent DEF hitsOfOne, O
  <2>4. h.time \in Nat BY <1>11, HitFields DEF HitSets
  <2>5. ASSUME NEW g \in R PROVE h.time <= g.time
    <3>1. PICK c \in ToSet(rest) : g \in ToSet(c.hits) BY <1>8
    <3>2. PICK j \in n + 1 .. Len(s) : c = s[j] BY <1>7
    <3>3. Begun(w, c) /\ c \in Filled
      <4>1. j \in 1 .. Len(s) BY <1>1
      <4> QED BY <1>4, <1>5, <3>2, <4>1
    <3>4. h.time <= timeStart(c) BY <2>2, <2>3, <3>3 DEF Begun
    <3>5. timeStart(c) <= g.time /\ timeStart(c) \in Nat BY <3>1, <3>3, ClusterHitSets
    <3>6. g.time \in Nat BY <1>12, HitFields DEF HitSets
    <3> DEFINE x == timeStart(c)
    <3>7. x \in Nat /\ h.time <= x /\ x <= g.time BY <3>4, <3>5
    <3> HIDE DEF x
    <3> QED BY <2>4, <3>6, <3>7
  <2>6. Clear(D, R) BY <1>11, <1>12, <2>1, <2>5, ClearOfLater
  <2>7. ASSUME NEW g \in C PROVE h.time <= g.time
    <3>1. ~full BY DEF HitSets
    <3>2. PICK p \in Planes : latest[p] <= g.time BY <3>1
    <3>3. PICK c \in ToSet(first) : h \in ToSet(c.hits) BY <1>3, <1>8, <1>14
    <3>4. PICK j \in 1 .. n : c = s[j] BY <1>6
    <3>5. c \in Filled /\ ready_to_be_matched(latest, c)
      BY <1>5, <3>1, <3>4, MatchableIsReady
    <3>6. timeEnd(c) < latest[p] BY <3>5, ReadyIsBefore
    <3>7. c.hits \in Seq(Hits) /\ c.hits # <<>> BY <3>5, ClusterFields DEF Filled
    <3>8. h.time <= timeEnd(c) /\ timeEnd(c) \in Nat BY <3>3, <3>7, FirstAndLast
    <3>9. latest[p] \in Nat /\ g.time \in Nat BY HitFields DEF LatestTimes, HitSets
    <3> DEFINE x == timeEnd(c)  y == latest[p]
    <3>10. x \in Nat /\ y \in Nat /\ h.time <= x /\ x < y /\ y <= g.time BY <3>2, <3>6, <3>8, <3>9
    <3> HIDE DEF x, y
    <3> QED BY <2>4, <3>9, <3>10
  <2>8. Clear(D, C) BY <1>11, <2>1, <2>7, ClearOfLater
  <2> QED BY <2>6, <2>8, ClearOfBoth
<1> QED BY <1>13, <1>15 DEF R

-----------------------------------------------------------------------------
\* Of the events S none has a gap, each two are long apart, and each is long before
\* what else there is: L.
WholeAmong(S, L) ==
  /\ \A e \in S : Dense(hitsOfOne(e), hitsOfOne(e)) /\ Clear(hitsOfOne(e), L)
  /\ \A e, f \in S :
       e = f \/ Clear(hitsOfOne(e), hitsOfOne(f)) \/ Clear(hitsOfOne(f), hitsOfOne(e))

Whole(es, L) == WholeAmong(ToSet(es), L)

\* Events that are not to be split stay what they are.
LEMMA UnsplitStays ==
  ASSUME NEW done \in Seq(BuiltEvents), NEW checked, checked = checkedOf(done, FALSE)
  PROVE  /\ ToSet(left(done, checked)) = ToSet(done)
         /\ gone(done, checked, Len(done)) = {}
<1> DEFINE n == Len(done)  B == BuiltEvents  S == Seq(BuiltEvents)
           seqs == [i \in DOMAIN done |-> checked[i].events]
<1>1. n \in Nat /\ DOMAIN done = 1 .. n /\ \A i \in 1 .. n : done[i] \in B
  OBVIOUS
<1>2. \A i \in 1 .. n : checked[i].events = <<done[i]>>
  <2>1. \A i \in 1 .. n : checked[i] = checkAndStash(done[i], FALSE) BY <1>1 DEF checkedOf
  <2>3. ASSUME NEW e PROVE checkAndStash(e, FALSE).events = <<e>>
    <3>1. checkAndStash(e, FALSE)
            = IF ~FALSE \/ (coordSpan(e.X) < MaxCoordSpan /\ coordSpan(e.Y) < MaxCoordSpan)
              THEN [events |-> <<e>>, counted |-> {}]
              ELSE splitInto(splitEvent(e))
      BY DEF checkAndStash
    <3>2. checkAndStash(e, FALSE) = [events |-> <<e>>, counted |-> {}] BY <3>1
    <3> DEFINE es == <<e>>  x == checkAndStash(e, FALSE)
    <3>3. x = [events |-> es, counted |-> {}] BY <3>2
    <3> HIDE DEF es, x
    <3>4. x.events = es BY ONLY <3>3
    <3> QED BY <3>4 DEF es, x
  <2> HIDE DEF n
  <2> QED BY <2>1, <2>3
<1>3. \A e \in B : <<e>> \in S /\ ToSet(<<e>>) = {e} /\ <<e>> # <<>> BY DEF ToSet
<1>4. seqs \in Seq(S) /\ Len(seqs) = n /\ \A i \in 1 .. n : seqs[i] = <<done[i]>>
  <2>1. \A i \in 1 .. n : checked[i].events \in S
    <3> HIDE DEF S, B, n
    <3> QED BY <1>1, <1>2, <1>3
  <2> HIDE DEF S, n
  <2>2. seqs \in [1 .. n -> S] BY <1>1, <2>1
  <2>3. \A i \in 1 .. n : seqs[i] = <<done[i]>> BY <1>1, <1>2
  <2> HIDE DEF seqs
  <2> QED BY <1>1, <2>2, <2>3, SequenceOf
<1>5. left(done, checked) = FlattenSeq(seqs) BY DEF left
<1> HIDE DEF seqs
<1>6. ToSet(FlattenSeq(seqs)) = UNION {ToSet(seqs[i]) : i \in 1 .. n}
  BY <1>4, FlattenElements
<1>7. ToSet(done) = {done[i] : i \in 1 .. n} BY <1>1 DEF ToSet
<1>8. gone(done, checked, n) = {}
  <2>1. {i \in 1 .. n : checked[i].events = <<>>} = {}
    <3> HIDE DEF n, B, S
    <3> QED BY <1>1, <1>2, <1>3
  <2> QED BY <2>1 DEF gone
<1> HIDE DEF n
<1>9. \A i \in 1 .. n : ToSet(seqs[i]) = {done[i]} BY <1>1, <1>3, <1>4
<1>10. UNION {ToSet(seqs[i]) : i \in 1 .. n} = {done[i] : i \in 1 .. n} BY <1>9
<1> QED BY <1>5, <1>6, <1>7, <1>8, <1>10 DEF n

\* One event more, when nothing else is left.
LEMMA WholeAndOne ==
  ASSUME NEW es \in Seq(BuiltEvents), NEW e \in BuiltEvents, NEW L, Whole(es, L),
         Dense(hitsOfOne(e), hitsOfOne(e)), hitsOfOne(e) \subseteq L
  PROVE  Whole(Append(es, e), {})
<1> DEFINE U == BuiltEvents  fs == Append(es, e)
<1>1. ToSet(fs) = ToSet(es) \cup {e}
  <2>1. es \in Seq(U) /\ e \in U OBVIOUS
  <2> HIDE DEF U
  <2>2. DOMAIN es = 1 .. Len(es) /\ DOMAIN fs = 1 .. Len(es) + 1 /\ Len(es) \in Nat BY <2>1
  <2>3. fs[Len(es) + 1] = e /\ \A i \in 1 .. Len(es) : fs[i] = es[i] BY <2>1
  <2> HIDE DEF fs
  <2> QED BY <2>2, <2>3 DEF ToSet
<1> HIDE DEF fs
<1>2. \A f \in ToSet(es) : Dense(hitsOfOne(f), hitsOfOne(f)) /\ Clear(hitsOfOne(f), hitsOfOne(e))
  <2> SUFFICES ASSUME NEW f \in ToSet(es)
               PROVE  Dense(hitsOfOne(f), hitsOfOne(f)) /\ Clear(hitsOfOne(f), hitsOfOne(e))
    OBVIOUS
  <2>1. Dense(hitsOfOne(f), hitsOfOne(f)) /\ Clear(hitsOfOne(f), L) BY DEF Whole, WholeAmong
  <2>2. Clear(hitsOfOne(f), hitsOfOne(e)) BY <2>1 DEF Clear
  <2> QED BY <2>1, <2>2
<1>3. \A f \in ToSet(fs) : Dense(hitsOfOne(f), hitsOfOne(f)) /\ Clear(hitsOfOne(f), {})
  <2>1. \A H : Clear(H, {}) BY DEF Clear
  <2> QED BY <1>1, <1>2, <2>1
<1>4. \A f, g \in ToSet(es) :
         f = g \/ Clear(hitsOfOne(f), hitsOfOne(g)) \/ Clear(hitsOfOne(g), hitsOfOne(f))
  BY DEF Whole, WholeAmong
<1>5. \A f, g \in ToSet(fs) :
         f = g \/ Clear(hitsOfOne(f), hitsOfOne(g)) \/ Clear(hitsOfOne(g), hitsOfOne(f))
  BY <1>1, <1>2, <1>4
<1> QED BY <1>3, <1>5 DEF Whole, WholeAmong, fs

\* The events done are whole, the one that is open and the clusters of the rest have
\* no gaps, and L is what there is besides.
DoneWhole(w, rest, L) ==
  /\ Whole(w.done, hitsOfOne(w.open) \cup L)
  /\ Dense(hitsOfOne(w.open), hitsOfOne(w.open) \cup L)
  /\ AllDense(rest, hitsOfOne(w.open) \cup L)
  /\ w.done # <<>> => hitsOfOne(w.open) # {}

\* What the first clusters make is whole among all the clusters and hits there are.
LEMMA DoneIsWhole ==
  ASSUME NEW s \in Seq(Filled), InTime(s), NEW latest \in LatestTimes, NEW full \in BOOLEAN,
         NEW n, n = matchable(s, latest, full), NEW w, w = joined(s, n),
         NEW rest, rest = SubSeq(s, n + 1, Len(s)),
         NEW C \in HitSets, full => C = {},
         ~full => \A h \in C : \E p \in Planes : latest[p] <= h.time,
         NEW L, L = ToSet(hitsIn(rest)) \cup C, AllDense(s, joinedHits(w) \cup L)
  PROVE  DoneWhole(w, rest, L)
<1> DEFINE first == SubSeq(s, 1, n)  O == hitsOfOne(w.open)  W == joinedHits(w) \cup L  es == w.done
<1>1. n \in 0 .. Len(s) BY MatchableOf
<1>2. first \in Seq(Filled) /\ rest \in Seq(Filled) /\ s = first \o rest BY <1>1, FirstAndRest
<1>3. w \in Joinings BY <1>1, JoinedKeeps
<1>4. Joint(w, first) BY <1>1, JoinedIsJoint
<1>5. L \in HitSets /\ \A i \in DOMAIN es : Clear(hitsOfOne(es[i]), L) BY DoneIsClear
<1>6. ToSet(s) = ToSet(first) \cup ToSet(rest)
  <2> DEFINE U == Filled
  <2>1. first \in Seq(U) /\ rest \in Seq(U) BY <1>2
  <2> HIDE DEF U, first
  <2>2. ToSet(first \o rest) = ToSet(first) \cup ToSet(rest) BY ONLY <2>1, ConcatElements
  <2> QED BY <1>2, <2>2
<1> HIDE DEF first
<1>7. AllDense(first, W) /\ AllDense(rest, W) BY <1>6 DEF AllDense
<1>8. /\ \A i \in DOMAIN es : Dense(hitsOfOne(es[i]), hitsOfOne(es[i]))
      /\ Dense(O, O \cup L)
  BY <1>3, <1>4, <1>5, <1>7, JointAreWhole
<1>9. w.open \in BuiltEvents /\ es \in Seq(BuiltEvents) BY <1>3, JoiningFields
<1>10. \A i \in DOMAIN es : es[i] \in BuiltEvents BY <1>9
<1>11. O \in HitSets /\ \A i \in DOMAIN es : hitsOfOne(es[i]) \in HitSets BY <1>9, <1>10, EventHitSets
<1>12. ToSet(es) = {es[i] : i \in DOMAIN es} BY DEF ToSet
<1>13. DOMAIN es = 1 .. Len(es) /\ Len(es) \in Nat BY <1>9
<1>14. joinedHits(w) = O \cup UNION {hitsOfOne(e) : e \in ToSet(es)}
  BY <1>9, HitsAmongElements DEF joinedHits, hitsOfOne
<1>15. \A k \in W : k \in O \/ k \in L \/ \E i \in DOMAIN es : k \in hitsOfOne(es[i])
  BY <1>12, <1>14
<1>16. W \in HitSets
  <2>1. \A k \in W : k \in Hits BY <1>5, <1>11, <1>15 DEF HitSets
  <2> QED BY <2>1 DEF HitSets
<1>17. /\ IF w.open = EmptyEvent THEN es = <<>> ELSE eventHits(w.open) # <<>>
       /\ InOrder(es) /\ \A i \in DOMAIN es : Clear(hitsOfOne(es[i]), O)
  BY <1>4 DEF Joint
<1>18. es # <<>> => O # {} BY <1>9, <1>17, EventHitSets
<1> HIDE DEF W, es, O
<1>19. Whole(es, O \cup L)
  <2>1. \A i \in DOMAIN es : Clear(hitsOfOne(es[i]), O \cup L) BY <1>5, <1>17, ClearOfBoth
  <2>2. \A e \in ToSet(es) : Dense(hitsOfOne(e), hitsOfOne(e)) /\ Clear(hitsOfOne(e), O \cup L)
    BY <1>8, <1>12, <2>1
  <2>3. \A e, f \in ToSet(es) :
          e = f \/ Clear(hitsOfOne(e), hitsOfOne(f)) \/ Clear(hitsOfOne(f), hitsOfOne(e))
    <3> SUFFICES ASSUME NEW e \in ToSet(es), NEW f \in ToSet(es)
                 PROVE  e = f \/ Clear(hitsOfOne(e), hitsOfOne(f)) \/ Clear(hitsOfOne(f), hitsOfOne(e))
      OBVIOUS
    <3>1. PICK i \in DOMAIN es : e = es[i] BY <1>12
    <3>2. PICK j \in DOMAIN es : f = es[j] BY <1>12
    <3>3. i = j \/ i < j \/ j < i BY <1>13
    <3>4. /\ i < j => Clear(hitsOfOne(es[i]), hitsOfOne(es[j]))
          /\ j < i => Clear(hitsOfOne(es[j]), hitsOfOne(es[i]))
      BY <1>17 DEF InOrder
    <3> QED BY <3>1, <3>2, <3>3, <3>4
  <2> QED BY <2>2, <2>3 DEF Whole, WholeAmong
<1>20. ASSUME NEW c \in ToSet(rest) PROVE Dense(ToSet(c.hits), O \cup L)
  <2> DEFINE H == ToSet(c.hits)
  <2>1. c \in Filled
    <3> DEFINE U == Filled
    <3>1. rest \in Seq(U) BY <1>2
    <3> HIDE DEF U
    <3>2. c \in U BY <3>1 DEF ToSet
    <3> QED BY <3>2 DEF U
  <2>2. H \in HitSets BY <2>1, ClusterHitSets
  <2>3. H \subseteq L
    <3>1. ToSet(hitsIn(rest)) = UNION {ToSet(d.hits) : d \in ToSet(rest)}
      BY <1>2, FilledAreClusters, HitsInElements
    <3> QED BY <3>1
  <2>4. Bridged(H, rest) BY BridgedByNone
  <2> HIDE DEF H
  <2>5. ASSUME NEW k \in W PROVE k \in O \cup L \/ Clear({k}, H) \/ Clear(H, {k})
    <3>1. CASE \E i \in DOMAIN es : k \in hitsOfOne(es[i])
      <4>1. PICK i \in DOMAIN es : k \in hitsOfOne(es[i]) BY <3>1
      <4>2. Clear(hitsOfOne(es[i]), L) BY <1>5 DEF es
      <4>3. Clear({k}, L) BY <4>1, <4>2, ClearOfEach
      <4>4. Clear({k}, H) BY <2>3, <4>3 DEF Clear
      <4> QED BY <4>4
    <3> QED BY <1>15, <3>1
  <2>6. Surrounded(H, O \cup L, W) BY <2>5 DEF Surrounded
  <2>7. O \cup L \in HitSets /\ H \subseteq O \cup L BY <1>5, <1>11, <2>3 DEF HitSets
  <2>8. Dense(H, O \cup L) BY <1>7, <1>16, <2>2, <2>4, <2>6, <2>7, WholeAmongOthers
  <2> QED BY <2>8 DEF H
<1>21. AllDense(rest, O \cup L) BY <1>20 DEF AllDense
<1> QED BY <1>8, <1>18, <1>19, <1>21 DEF DoneWhole, O, es

-----------------------------------------------------------------------------
\* v got the events done, and has nothing more to discard than b.
Finished(v, b, done) ==
  /\ v.split = FALSE /\ v.discarded = b.discarded
  /\ ToSet(v.events) = ToSet(done) /\ done \in Seq(BuiltEvents)

\* A builder that does not split: what the matcher has done becomes its events.
LEMMA FinishUnsplit ==
  ASSUME NEW b \in Builders, b.split = FALSE, b.events = <<>>, NEW w \in Joinings,
         NEW rest \in Seq(Filled), NEW full, NEW v, v = finish(b, w, rest, full),
         NEW done, done = IF full /\ w.open # EmptyEvent THEN Append(w.done, w.open) ELSE w.done
  PROVE  Finished(v, b, done)
<1> DEFINE cs == IF full THEN rest ELSE requeue_clusters(w.open, rest)
           checked == [i \in DOMAIN done |-> checkAndStash(done[i], b.split)]
           c == [b EXCEPT !.unmatched = cs]
           es == left(done, checked)
<1>1. w.open \in BuiltEvents /\ w.done \in Seq(BuiltEvents) BY JoiningFields
<1>2. Append(w.done, w.open) \in Seq(BuiltEvents) BY <1>1, HitsAmongMore
<1>3. done \in Seq(BuiltEvents) BY <1>1, <1>2
<1>4. requeue_clusters(w.open, rest) \in Seq(Filled) BY <1>1, RequeuedKeeps
<1>5. cs \in Seq(Filled) BY <1>4
<1>6. v = stash(c, done, checked) BY DEF finish
<1> HIDE DEF cs
<1>7. /\ b.split \in BOOLEAN /\ b.hits \in HitsByPlane /\ b.current \in HitsByPlane
      /\ b.unmatched \in Seq(Filled) /\ b.latest \in LatestTimes /\ b.events \in Seq(BuiltEvents)
      /\ b.discarded \in FiniteHits /\ b.stats \in MatcherStats
      /\ b = [split |-> b.split, hits |-> b.hits, current |-> b.current,
              unmatched |-> b.unmatched, latest |-> b.latest, events |-> b.events,
              discarded |-> b.discarded, stats |-> b.stats]
  BY BuilderFields
<1>8. c = [split |-> b.split, hits |-> b.hits, current |-> b.current,
           unmatched |-> cs, latest |-> b.latest, events |-> b.events,
           discarded |-> b.discarded, stats |-> b.stats]
  BY <1>7
<1>9. c \in Builders BY <1>5, <1>7, <1>8, BuilderFields
<1>10. c.split = b.split /\ c.events = b.events /\ c.discarded = b.discarded BY <1>8
<1>11. checked = checkedOf(done, b.split) BY DEF checkedOf
<1> HIDE DEF checked, c
<1>12. Stashed(v, c, done, checked)
  <2>1. checked = checkedOf(done, c.split) BY <1>10, <1>11
  <2> QED BY ONLY <1>3, <1>6, <1>9, <2>1, StashFields, Zenon
<1>13. checked = checkedOf(done, FALSE) BY <1>11
<1>14. ToSet(es) = ToSet(done) /\ gone(done, checked, Len(done)) = {}
  BY <1>3, <1>13, UnsplitStays
<1>15. es \in Seq(BuiltEvents) BY <1>3, <1>13, StashedKeeps
<1> HIDE DEF es
<1>16. v.events = es
  <2>1. v.events = c.events \o es BY <1>12 DEF Stashed, es
  <2> DEFINE U == BuiltEvents
  <2>2. es \in Seq(U) BY <1>15
  <2> HIDE DEF U
  <2>3. <<>> \o es = es BY <2>2
  <2> QED BY <1>10, <2>1, <2>3
<1>17. v.discarded = b.discarded BY <1>10, <1>12, <1>14 DEF Stashed
<1>18. v.split = b.split BY FinishIsClean DEF StaysClean
<1> QED BY <1>3, <1>14, <1>16, <1>17, <1>18 DEF Finished

\* The hits that wait in a builder, to be clustered and to be matched.
waiting(b) ==
  ToSet(hitsIn(b.unmatched)) \cup (ToSet(b.current[PlaneX]) \cup ToSet(b.current[PlaneY]))

\* v formed whole events, and what it put back has no gaps.
FormedWhole(v, full) ==
  /\ Whole(v.events, waiting(v)) /\ AllDense(v.unmatched, waiting(v))
  /\ full => waiting(v) = {}
  /\ ~full => (v.events # <<>> => waiting(v) # {})

LEMMA WholeOfLess ==
  ASSUME NEW es, NEW fs, NEW L, NEW M, Whole(es, L), M \subseteq L, ToSet(fs) = ToSet(es)
  PROVE  Whole(fs, M)
<1>1. \A H : Clear(H, L) => Clear(H, M) BY DEF Clear
<1> QED BY <1>1 DEF Whole, WholeAmong

\* The clusters put back are without gaps among what waits.
LEMMA PutBackDense ==
  ASSUME NEW e \in BuiltEvents, NEW rest \in Seq(Filled), NEW cs, cs = requeue_clusters(e, rest),
         NEW L, Dense(hitsOfOne(e), L), AllDense(rest, L)
  PROVE  AllDense(cs, L)
<1>1. OpenAndRest(cs, e, rest) BY PutBack
<1>2. PICK l \in Nat : /\ DOMAIN cs = 1 .. (l + Len(rest))
                       /\ \A i \in 1 .. l : cs[i] \in Filled /\ cs[i] \in {e.X, e.Y}
                       /\ \A i \in 1 .. Len(rest) : cs[l + i] = rest[i] /\ rest[i] \in Filled
  BY <1>1 DEF OpenAndRest
<1>3. ToSet(e.X.hits) \subseteq hitsOfOne(e) /\ ToSet(e.Y.hits) \subseteq hitsOfOne(e)
  BY EventHitsTyped DEF hitsOfOne
<1>4. Len(rest) \in Nat /\ DOMAIN rest = 1 .. Len(rest) OBVIOUS
<1>5. ASSUME NEW i \in DOMAIN cs PROVE Dense(ToSet(cs[i].hits), L)
  <2>1. CASE i \in 1 .. l
    <3>1. ToSet(cs[i].hits) \subseteq hitsOfOne(e) BY <1>2, <1>3, <2>1
    <3> QED BY <3>1, DenseInMore
  <2>2. CASE i \notin 1 .. l
    <3> DEFINE j == i - l  n == Len(rest)
    <3>1. i \in 1 .. l + n BY <1>2
    <3> HIDE DEF n
    <3>2. j \in 1 .. n /\ i = l + j
      <4>1. n \in Nat BY <1>4 DEF n
      <4> QED BY <1>2, <2>2, <3>1, <4>1
    <3> HIDE DEF j
    <3>3. cs[i] = rest[j] BY <1>2, <3>2 DEF n
    <3>4. rest[j] \in ToSet(rest) BY <1>4, <3>2 DEF n, ToSet
    <3> QED BY <3>3, <3>4 DEF AllDense
  <2> QED BY <2>1, <2>2
<1>6. ToSet(cs) = {cs[i] : i \in DOMAIN cs} BY DEF ToSet
<1> QED BY <1>5, <1>6 DEF AllDense

-----------------------------------------------------------------------------
\* The builder holds back hits from the latest of their plane on, unless it keeps none.
Behind(b, full) ==
  /\ full => b.current = NoHits
  /\ ~full => \A p \in Planes : \A h \in ToSet(b.current[p]) : b.latest[p] <= h.time

\* What the matcher makes of clusters without gaps is whole.
LEMMA MatchIsWhole ==
  ASSUME NEW b \in Builders, b.split = FALSE, b.events = <<>>, NEW full \in BOOLEAN,
         AllDense(b.unmatched, waiting(b)), Behind(b, full),
         NEW v, v = match(b, full)
  PROVE  /\ v.split = FALSE /\ v.discarded = b.discarded
         /\ v.latest = b.latest /\ v.current = b.current
         /\ FormedWhole(v, full)
<1> DEFINE u == b.unmatched  s == sorted(u, timeStart)  n == matchable(s, b.latest, full)
           first == SubSeq(s, 1, n)  rest == SubSeq(s, n + 1, Len(s))  w == joined(s, n)
           C == ToSet(b.current[PlaneX]) \cup ToSet(b.current[PlaneY])
           done == IF full /\ w.open # EmptyEvent THEN Append(w.done, w.open) ELSE w.done
           O == hitsOfOne(w.open)  L == ToSet(hitsIn(rest)) \cup C
<1>1. u \in Seq(Filled) BY BuilderFields
<1>2. s \in Seq(Filled) /\ Reordered(u, s) /\ InTime(s) BY <1>1, SortedClusters
<1>3. n \in 0 .. Len(s) BY <1>2, MatchableOf
<1>4. v = finish(b, w, rest, full) BY DEF match, matchSorted, matchFirst
<1>13. n = matchable(s, b.latest, full) /\ rest = SubSeq(s, n + 1, Len(s)) /\ w = joined(s, n)
  OBVIOUS
<1>w. waiting(b) = ToSet(hitsIn(u)) \cup C BY DEF waiting
<1>a. AllDense(u, waiting(b)) OBVIOUS
<1> HIDE DEF s, n, u
<1>5. first \in Seq(Filled) /\ rest \in Seq(Filled) /\ s = first \o rest
  BY <1>2, <1>3, FirstAndRest
<1>6. w \in Joinings /\ joinedHits(w) = ToSet(hitsIn(first))
  BY <1>2, <1>3, JoinedKeeps
<1>d. done = IF full /\ w.open # EmptyEvent THEN Append(w.done, w.open) ELSE w.done OBVIOUS
<1> HIDE DEF first, rest, w, done
<1>7. ToSet(hitsIn(s)) = ToSet(hitsIn(first)) \cup ToSet(hitsIn(rest))
  BY <1>5, FilledAreClusters, HitsInConcat
<1>8. Same(hitsIn(s), hitsIn(u)) BY <1>1, <1>2, FilledAreClusters, HitsInReordered
<1>9. ToSet(s) = ToSet(u)
  <2> DEFINE U == Filled
  <2>1. s \in Seq(U) /\ u \in Seq(U) BY <1>1, <1>2
  <2> HIDE DEF U
  <2>2. Same(s, u) BY ONLY <2>1, <1>2, ReorderedElements
  <2> QED BY <2>2 DEF Same
<1>10. waiting(b) = joinedHits(w) \cup L
  BY <1>6, <1>7, <1>8, <1>w DEF Same
<1>11. AllDense(s, joinedHits(w) \cup L) BY <1>9, <1>10, <1>a DEF AllDense
<1>12. b.latest \in LatestTimes /\ b.current \in HitsByPlane BY BuilderFields
<1>14. b.current[PlaneX] \in Seq(Hits) /\ b.current[PlaneY] \in Seq(Hits) BY <1>12, PlanesOf
<1>15. C \in HitSets BY <1>14, ElementsAreHits DEF HitSets
<1>16. full => C = {}
  <2>1. NoHits[PlaneX] = <<>> /\ NoHits[PlaneY] = <<>> BY DEF NoHits, Planes
  <2>2. ToSet(<<>>) = {} BY DEF ToSet
  <2> QED BY <2>1, <2>2 DEF Behind
<1>17. ~full => \A h \in C : \E p \in Planes : b.latest[p] <= h.time
  BY DEF Behind, Planes
<1>l. L = ToSet(hitsIn(rest)) \cup C OBVIOUS
<1>v. v.current = b.current => waiting(v) = ToSet(hitsIn(v.unmatched)) \cup C BY DEF waiting
<1> HIDE DEF C, L
<1>18. /\ Whole(w.done, O \cup L) /\ Dense(O, O \cup L) /\ AllDense(rest, O \cup L)
       /\ w.done # <<>> => O # {}
  <2>1. full \in BOOLEAN OBVIOUS
  <2>2. s \in Seq(Filled) /\ InTime(s) BY <1>2
  <2>3. b.latest \in LatestTimes BY <1>12
  <2> DEFINE A == joinedHits(w) \cup L
  <2>4. AllDense(s, A) BY <1>11
  <2>o. O = hitsOfOne(w.open) OBVIOUS
  <2> HIDE DEF O
  <2>5. DoneWhole(w, rest, L)
    BY ONLY <1>13, <1>15, <1>16, <1>17, <1>l, <2>1, <2>2, <2>3, <2>4, DoneIsWhole, Zenon
  <2> QED BY <2>o, <2>5 DEF DoneWhole
<1>19. /\ v \in Builders /\ v.hits = b.hits /\ v.current = b.current /\ v.latest = b.latest
       /\ Unmatched(v, w.open, rest, full)
  <2>1. b \in Builders /\ w \in Joinings /\ rest \in Seq(Filled) BY <1>5, <1>6
  <2>2. Unmatched(v, w.open, rest, full) BY ONLY <1>4, <2>1, FinishKeeps, Zenon
  <2>3. v \in Builders /\ v.hits = b.hits /\ v.current = b.current /\ v.latest = b.latest
    BY ONLY <1>4, <2>1, FinishKeeps
  <2> QED BY <2>2, <2>3
<1>20. /\ v.split = FALSE /\ v.discarded = b.discarded
       /\ ToSet(v.events) = ToSet(done) /\ done \in Seq(BuiltEvents)
  <2>1. b \in Builders /\ w \in Joinings /\ rest \in Seq(Filled) BY <1>5, <1>6
  <2>2. b.split = FALSE /\ b.events = <<>> OBVIOUS
  <2>3. Finished(v, b, done) BY ONLY <1>4, <1>d, <2>1, <2>2, FinishUnsplit, Zenon
  <2> QED BY <2>3 DEF Finished
<1>21. w.open \in BuiltEvents /\ w.done \in Seq(BuiltEvents) BY <1>6, JoiningFields
<1>22. waiting(v) = ToSet(hitsIn(v.unmatched)) \cup C BY <1>19, <1>v
<1>23. CASE full
  <2>1. rest = <<>> BY <1>2, <1>13, <1>23, RestWaits
  <2>2. v.unmatched = <<>> BY <1>19, <1>23, <2>1 DEF Unmatched
  <2>3. hitsIn(<<>>) = <<>> BY NoClusterTyped, HitsInFew
  <2>4. ToSet(<<>>) = {} BY DEF ToSet
  <2>5. waiting(v) = {} /\ L = {} BY <1>16, <1>22, <1>23, <1>l, <2>1, <2>2, <2>3, <2>4
  <2>6. AllDense(v.unmatched, waiting(v)) BY <2>2, <2>4 DEF AllDense
  <2>7. Whole(done, {})
    <3>1. CASE w.open # EmptyEvent
      <4>1. done = Append(w.done, w.open) BY <1>23, <1>d, <3>1
      <4>2. O \cup L = O BY <2>5
      <4>3. Dense(O, O) /\ Whole(w.done, O) BY <1>18, <4>2
      <4> QED BY <1>21, <4>1, <4>3, WholeAndOne DEF O
    <3>2. CASE w.open = EmptyEvent
      <4>1. done = w.done BY <1>d, <3>2
      <4>2. {} \subseteq O \cup L OBVIOUS
      <4> QED BY <1>18, <4>1, <4>2, WholeOfLess
    <3> QED BY <3>1, <3>2
  <2>8. Whole(v.events, {})
    <3>1. {} \subseteq {} OBVIOUS
    <3>2. ToSet(v.events) = ToSet(done) BY <1>20
    <3> QED BY ONLY <2>7, <3>1, <3>2, WholeOfLess, Zenon
  <2> QED BY <1>19, <1>20, <1>23, <2>5, <2>6, <2>8 DEF FormedWhole
<1>24. CASE ~full
  <2>1. done = w.done BY <1>24, <1>d
  <2>2. v.unmatched = requeue_clusters(w.open, rest) BY <1>19, <1>24 DEF Unmatched
  <2>3. ToSet(hitsIn(v.unmatched)) = O \cup ToSet(hitsIn(rest))
    BY <1>5, <1>21, <2>2, RequeuedKeeps DEF O, hitsOfOne
  <2>4. waiting(v) = O \cup L BY <1>22, <1>l, <2>3
  <2>5. Whole(v.events, waiting(v))
    <3>1. waiting(v) \subseteq O \cup L BY <2>4
    <3>2. ToSet(v.events) = ToSet(w.done) BY <1>20, <2>1
    <3>3. Whole(w.done, O \cup L) BY <1>18
    <3> QED BY ONLY <3>1, <3>2, <3>3, WholeOfLess, Zenon
  <2>6. AllDense(v.unmatched, waiting(v))
    <3>1. Dense(hitsOfOne(w.open), O \cup L) BY <1>18 DEF O
    <3> QED BY <1>5, <1>18, <1>21, <2>2, <2>4, <3>1, PutBackDense
  <2>7. v.events # <<>> => waiting(v) # {}
    <3>1. v.events \in Seq(BuiltEvents) BY <1>19, BuilderFields
    <3> DEFINE U == BuiltEvents  es == v.events
    <3>2. es \in Seq(U) BY <3>1
    <3> HIDE DEF U, es
    <3>3. es # <<>> => ToSet(es) # {}
      <4>1. DOMAIN es = 1 .. Len(es) /\ Len(es) \in Nat BY <3>2
      <4>2. es # <<>> => Len(es) > 0 BY <3>2
      <4>3. es # <<>> => 1 \in DOMAIN es BY <4>1, <4>2
      <4> QED BY <4>3 DEF ToSet
    <3>4. ToSet(<<>>) = {} BY DEF ToSet
    <3>5. es # <<>> => w.done # <<>> BY <1>20, <2>1, <3>3, <3>4 DEF es
    <3> QED BY <1>18, <2>4, <3>5 DEF es
  <2> QED BY <1>19, <1>20, <1>24, <2>5, <2>6, <2>7 DEF FormedWhole
<1> QED BY <1>23, <1>24

-----------------------------------------------------------------------------
\* What the clusterer of a plane leaves, flushed fully or not: clusters without gaps,
\* and one that grows after them.
Clustered(x, full) ==
  /\ Grown(x.current) /\ AllDense(x.clusters, ToSet(hitsIn(x.clusters)))
  /\ full => x.current = <<>>
  /\ ~full => /\ \A h \in ToSet(hitsIn(x.clusters)), g \in ToSet(x.current) : h.time <= g.time
              /\ x.current = <<>> => x.clusters = <<>>

LEMMA ClusteredUpGrows ==
  ASSUME GapsNested, NEW current \in Seq(Hits), NEW hs \in Seq(Hits), Grown(current),
         \A h \in ToSet(current), g \in ToSet(hs) : h.time <= g.time,
         NEW full \in BOOLEAN, NEW x, x = clusteredUp(current, hs, full)
  PROVE  Clustered(x, full)
<1> DEFINE w == cluster(current, hs)
<1>1. w \in Clusterings BY ClusterKeeps
<1>2. Growing(w) BY ClusterGrows
<1>3. x = IF full THEN flushed(w) ELSE w BY DEF clusteredUp
<1> HIDE DEF w
<1>4. CASE ~full BY <1>2, <1>3, <1>4 DEF Growing, Clustered
<1>5. CASE full
  <2> DEFINE cs == w.clusters \o cluster_by_coordinate(w.current)
  <2>1. x = [current |-> <<>>, clusters |-> cs] BY <1>3, <1>5 DEF flushed
  <2>2. x.current = <<>> /\ x.clusters = cs
    <3> HIDE DEF cs
    <3> QED BY <2>1
  <2>3. Grown(w.current) /\ AllDense(w.clusters, ToSet(hitsIn(w.clusters))) BY <1>2 DEF Growing
  <2>4. AllDense(x.clusters, ToSet(hitsIn(x.clusters))) BY <1>1, <2>2, <2>3, ClosedIsDense
  <2>5. Grown(x.current) BY <2>2, GrowsFromNone
  <2> QED BY <1>5, <2>2, <2>4, <2>5 DEF Clustered
<1> QED BY <1>4, <1>5

\* The latest of a plane is no later than what is still clustered there.
LatestIn(latest, current) ==
  /\ \A h \in ToSet(current) : latest <= h.time
  /\ current = <<>> => latest = 0

LEMMA LatestBehind ==
  ASSUME NEW latest \in Nat, NEW current \in Seq(Hits), NEW hs \in Seq(Hits),
         LatestIn(latest, current),
         \A h \in ToSet(current), g \in ToSet(hs) : h.time <= g.time,
         NEW x \in Clusterings, Clustered(x, FALSE),
         clusteredHits(x) = ToSet(current) \cup ToSet(hs)
  PROVE  LatestIn(received(latest, x.clusters), x.current)
<1> DEFINE cs == x.clusters  cur == x.current  new == received(latest, cs)
<1>1. cur \in Seq(Hits) /\ cs \in Seq(Filled) BY ClusteringFields
<1>2. \A h \in ToSet(current) \cup ToSet(hs) : h.time \in Nat BY ElementsAreHits
<1>3. \A h \in ToSet(hs) : latest <= h.time
  <2>1. CASE current = <<>> BY <1>2, <2>1 DEF LatestIn
  <2>2. CASE current # <<>>
    <3>1. Last(current) \in ToSet(current) BY <2>2, LastIsThere
    <3> DEFINE t == Last(current).time
    <3>2. t \in Nat /\ latest <= t BY <1>2, <3>1 DEF LatestIn
    <3>3. \A g \in ToSet(hs) : t <= g.time BY <3>1
    <3> HIDE DEF t
    <3> QED BY <1>2, <3>2, <3>3
  <2> QED BY <2>1, <2>2
<1>4. \A h \in ToSet(cur) : latest <= h.time BY <1>3 DEF clusteredHits, LatestIn
<1>5. \A h \in ToSet(cur) : h.time \in Nat BY <1>1, ElementsAreHits
<1>6. /\ \A h \in ToSet(hitsIn(cs)), g \in ToSet(cur) : h.time <= g.time
      /\ cur = <<>> => cs = <<>>
  BY DEF Clustered
<1>7. ToSet(<<>>) = {} /\ hitsIn(<<>>) = <<>>
  <2>1. ToSet(<<>>) = {} BY DEF ToSet
  <2>2. hitsIn(<<>>) = <<>> BY NoClusterTyped, HitsInFew
  <2> QED BY <2>1, <2>2
<1>8. cur = <<>> => current = <<>>
  <2> SUFFICES ASSUME cur = <<>> PROVE current = <<>> OBVIOUS
  <2>1. clusteredHits(x) = {} BY <1>6, <1>7 DEF clusteredHits
  <2>2. ToSet(current) = {} BY <2>1
  <2> QED BY <2>2, LastIsThere
<1>9. CASE cs = <<>>
  <2>1. new = latest BY <1>9 DEF received
  <2> QED BY <1>4, <1>8, <2>1 DEF LatestIn
<1>10. CASE cs # <<>>
  <2> DEFINE c == Last(cs)  t == timeStart(c)
  <2>1. c \in Filled /\ c \in ToSet(cs)
    <3> DEFINE U == Filled
    <3>1. cs \in Seq(U) /\ cs # <<>> BY <1>1, <1>10
    <3> HIDE DEF U, cs
    <3>2. DOMAIN cs = 1 .. Len(cs) /\ Len(cs) \in Nat /\ Len(cs) > 0 BY <3>1
    <3>3. c = cs[Len(cs)] /\ Len(cs) \in DOMAIN cs BY <3>2 DEF Last
    <3>4. c \in U BY <3>1, <3>2, <3>3
    <3> QED BY <3>3, <3>4 DEF ToSet, U
  <2>2. new = Max({latest, t}) BY <1>10 DEF received
  <2> HIDE DEF c, cs, cur
  <2>3. t \in Nat BY <2>1, TimesOfFilled
  <2>4. PICK h \in ToSet(c.hits) : h.time = t
    <3>1. c.hits \in Seq(Hits) /\ c.hits # <<>> BY <2>1, ClusterFields DEF Filled
    <3> QED BY <3>1, FirstAndLast
  <2>5. h \in ToSet(hitsIn(cs))
    <3>1. ToSet(hitsIn(cs)) = UNION {ToSet(d.hits) : d \in ToSet(cs)}
      BY <1>1, FilledAreClusters, HitsInElements
    <3> QED BY <2>1, <2>4, <3>1
  <2>6. \A g \in ToSet(cur) : t <= g.time BY <1>6, <2>4, <2>5
  <2>7. new = latest \/ new = t
    <3> HIDE DEF t, new
    <3>1. \E y \in {latest, t} : \A z \in {latest, t} : y >= z BY <2>3
    <3> QED BY <2>2, <2>3, <3>1 DEF Max
  <2>8. \A g \in ToSet(cur) : new <= g.time BY <1>4, <2>6, <2>7
  <2>9. cur # <<>> BY <1>6, <1>10
  <2> QED BY <2>8, <2>9 DEF LatestIn, cur, cs
<1> QED BY <1>9, <1>10

-----------------------------------------------------------------------------
\* Between two packets: what is clustered grows without gaps, and so did what waits
\* to be matched.
Calm(b, full) ==
  /\ \A p \in Planes : Grown(b.current[p])
  /\ AllDense(b.unmatched, waiting(b))
  /\ IF full THEN b.current = NoHits ELSE \A p \in Planes : LatestIn(b.latest[p], b.current[p])

\* The hits inserted come no earlier than those that are clustered.
Timely(b) ==
  \A p \in Planes : \A h \in ToSet(b.current[p]), g \in ToSet(b.hits[p]) : h.time <= g.time

LEMMA DenseInAll ==
  ASSUME NEW cs, NEW H, NEW G, AllDense(cs, H), H \subseteq G
  PROVE  AllDense(cs, G)
<1>1. \A c \in ToSet(cs) : ToSet(c.hits) \subseteq ToSet(c.hits) OBVIOUS
<1> QED BY <1>1, DenseInMore DEF AllDense

\* The clusters of both planes join those that wait.
LEMMA ClusteredBuilderCalm ==
  ASSUME NEW b \in Builders, NEW x \in Clusterings, NEW y \in Clusterings, NEW full \in BOOLEAN,
         AllDense(b.unmatched, waiting(b)), Clustered(x, full), Clustered(y, full),
         ToSet(b.current[PlaneX]) \subseteq clusteredHits(x),
         ToSet(b.current[PlaneY]) \subseteq clusteredHits(y),
         ~full => /\ LatestIn(received(b.latest[PlaneX], x.clusters), x.current)
                  /\ LatestIn(received(b.latest[PlaneY], y.clusters), y.current),
         NEW c, c = clusteredBuilder(b, x, y)
  PROVE  Calm(c, full)
<1> DEFINE u == b.unmatched  A == ToSet(hitsIn(u))
           X == ToSet(hitsIn(x.clusters))  Y == ToSet(hitsIn(y.clusters))
           W == waiting(c)
           cur == [p \in Planes |-> IF p = PlaneX THEN x.current ELSE y.current]
           lat == [p \in Planes |-> received(b.latest[p], IF p = PlaneX THEN x.clusters ELSE y.clusters)]
           un == (u \o x.clusters) \o y.clusters
<1>1. c = [split |-> b.split, hits |-> NoHits, current |-> cur, unmatched |-> un, latest |-> lat,
           events |-> b.events, discarded |-> b.discarded, stats |-> b.stats]
  BY DEF clusteredBuilder
<1>2. /\ PlaneX \in Planes /\ PlaneY \in Planes /\ PlaneX # PlaneY
      /\ \A p \in Planes : p = PlaneX \/ p = PlaneY
  BY DEF Planes, PlaneX, PlaneY
<1>3. cur[PlaneX] = x.current /\ cur[PlaneY] = y.current BY <1>2
<1>4. /\ lat[PlaneX] = received(b.latest[PlaneX], x.clusters)
      /\ lat[PlaneY] = received(b.latest[PlaneY], y.clusters)
  BY <1>2
<1>n. x.current = <<>> /\ y.current = <<>> => cur = NoHits BY DEF NoHits
<1> HIDE DEF cur, lat, un, u
<1>5. c.current = cur /\ c.unmatched = un /\ c.latest = lat BY <1>1
<1>6. /\ u \in Seq(Filled) /\ x.clusters \in Seq(Filled) /\ y.clusters \in Seq(Filled)
      /\ u \o x.clusters \in Seq(Filled)
  BY BuilderFields, ClusteringFields, FilledConcat DEF u
<1>7. ToSet(hitsIn(un)) = (A \cup X) \cup Y
  <2>1. ToSet(hitsIn(u \o x.clusters)) = A \cup X BY <1>6, FilledAreClusters, HitsInConcat
  <2>2. ToSet(hitsIn(un)) = ToSet(hitsIn(u \o x.clusters)) \cup Y
    BY <1>6, FilledAreClusters, HitsInConcat DEF un
  <2> QED BY <2>1, <2>2
<1>8. ToSet(un) = (ToSet(u) \cup ToSet(x.clusters)) \cup ToSet(y.clusters)
  <2> DEFINE U == Filled  cs == x.clusters  ds == y.clusters
  <2>1. u \in Seq(U) /\ cs \in Seq(U) /\ ds \in Seq(U) /\ u \o cs \in Seq(U) BY <1>6
  <2>2. un = (u \o cs) \o ds BY DEF un
  <2> HIDE DEF U, cs, ds
  <2>3. ToSet(u \o cs) = ToSet(u) \cup ToSet(cs) BY ONLY <2>1, ConcatElements
  <2>4. ToSet((u \o cs) \o ds) = ToSet(u \o cs) \cup ToSet(ds) BY ONLY <2>1, ConcatElements
  <2> QED BY <2>2, <2>3, <2>4 DEF cs, ds
<1>9. W = ((A \cup X) \cup Y) \cup (ToSet(x.current) \cup ToSet(y.current))
  BY <1>3, <1>5, <1>7 DEF waiting
<1>10. waiting(b) \subseteq W
  <2>1. waiting(b) = A \cup (ToSet(b.current[PlaneX]) \cup ToSet(b.current[PlaneY]))
    BY DEF waiting, u
  <2>2. clusteredHits(x) = ToSet(x.current) \cup X /\ clusteredHits(y) = ToSet(y.current) \cup Y
    BY DEF clusteredHits
  <2> QED BY <1>9, <2>1, <2>2
<1>11. X \subseteq W /\ Y \subseteq W BY <1>9
<1>12. AllDense(x.clusters, X) /\ AllDense(y.clusters, Y) BY DEF Clustered
<1>a. AllDense(u, waiting(b)) BY DEF u
<1> HIDE DEF A, X, Y, W
<1>13. AllDense(u, W) /\ AllDense(x.clusters, W) /\ AllDense(y.clusters, W)
  BY <1>10, <1>11, <1>12, <1>a, DenseInAll
<1>14. AllDense(un, W) BY <1>8, <1>13 DEF AllDense
<1>15. \A p \in Planes : Grown(c.current[p]) BY <1>2, <1>3, <1>5 DEF Clustered
<1>16. CASE full
  <2>1. c.current = NoHits BY <1>5, <1>16, <1>n DEF Clustered
  <2> QED BY <1>5, <1>14, <1>15, <1>16, <2>1 DEF Calm, W
<1>17. CASE ~full
  <2>1. \A p \in Planes : LatestIn(c.latest[p], c.current[p]) BY <1>2, <1>3, <1>4, <1>5, <1>17
  <2> QED BY <1>5, <1>14, <1>15, <1>17, <2>1 DEF Calm, W
<1> QED BY <1>16, <1>17

\* A flushed builder that does not split has formed whole events.
LEMMA FlushIsWhole ==
  ASSUME GapsNested, NEW b \in Builders, b.split = FALSE, b.events = <<>>, NEW full \in BOOLEAN,
         Calm(b, full), Timely(b), NEW v, v = flush(b, full)
  PROVE  /\ v.split = FALSE /\ v.discarded = b.discarded
         /\ FormedWhole(v, full) /\ Calm(v, full)
<1> DEFINE x == clusteredUp(b.current[PlaneX], b.hits[PlaneX], full)
           y == clusteredUp(b.current[PlaneY], b.hits[PlaneY], full)
           c == clusteredBuilder(b, x, y)
           hx == b.hits[PlaneX]  hy == b.hits[PlaneY]
           cx == b.current[PlaneX]  cy == b.current[PlaneY]
           lx == b.latest[PlaneX]  ly == b.latest[PlaneY]
<1>1. v = match(c, full) BY FlushOf
<1>2. hx \in Seq(Hits) /\ hy \in Seq(Hits) /\ cx \in Seq(Hits) /\ cy \in Seq(Hits)
  BY BuilderFields, PlanesOf
<1>3. x = clusteredUp(cx, hx, full) /\ y = clusteredUp(cy, hy, full) OBVIOUS
<1>4. PlaneX \in Planes /\ PlaneY \in Planes BY DEF Planes
<1>5. Grown(cx) /\ Grown(cy) BY <1>4 DEF Calm
<1>6. /\ \A h \in ToSet(cx), g \in ToSet(hx) : h.time <= g.time
      /\ \A h \in ToSet(cy), g \in ToSet(hy) : h.time <= g.time
  BY <1>4 DEF Timely
<1>7. ~full => LatestIn(lx, cx) /\ LatestIn(ly, cy) BY <1>4 DEF Calm
<1>8. lx \in Nat /\ ly \in Nat
  <2>1. b.latest \in LatestTimes BY BuilderFields
  <2> QED BY <1>4, <2>1 DEF LatestTimes
<1>c. c = clusteredBuilder(b, x, y) OBVIOUS
<1> HIDE DEF x, y, c
<1>9. x \in Clusterings /\ y \in Clusterings
      /\ clusteredHits(x) = ToSet(cx) \cup ToSet(hx) /\ clusteredHits(y) = ToSet(cy) \cup ToSet(hy)
  BY <1>2, <1>3, ClusteredUpKeeps
<1>10. Clustered(x, full) BY <1>2, <1>3, <1>5, <1>6, ClusteredUpGrows
<1>11. Clustered(y, full) BY <1>2, <1>3, <1>5, <1>6, ClusteredUpGrows
<1>12. ~full => /\ LatestIn(received(lx, x.clusters), x.current)
                /\ LatestIn(received(ly, y.clusters), y.current)
  <2> SUFFICES ASSUME ~full
               PROVE  /\ LatestIn(received(lx, x.clusters), x.current)
                      /\ LatestIn(received(ly, y.clusters), y.current)
    OBVIOUS
  <2>1. Clustered(x, FALSE) /\ Clustered(y, FALSE) BY <1>10, <1>11
  <2> HIDE DEF lx, ly, cx, cy, hx, hy
  <2>2. LatestIn(received(lx, x.clusters), x.current)
    BY <1>2, <1>6, <1>7, <1>8, <1>9, <2>1, LatestBehind
  <2>3. LatestIn(received(ly, y.clusters), y.current)
    BY <1>2, <1>6, <1>7, <1>8, <1>9, <2>1, LatestBehind
  <2> QED BY <2>2, <2>3
<1>13. c \in Builders BY <1>9, <1>c, ClusteredBuilderKeeps
<1>14. Calm(c, full)
  <2>1. AllDense(b.unmatched, waiting(b)) BY DEF Calm
  <2>2. ToSet(b.current[PlaneX]) \subseteq clusteredHits(x) /\ ToSet(b.current[PlaneY]) \subseteq clusteredHits(y)
    BY <1>9
  <2> QED BY <1>9, <1>10, <1>11, <1>12, <1>c, <2>1, <2>2, ClusteredBuilderCalm
<1>15. c.split = FALSE /\ c.events = <<>> /\ c.discarded = b.discarded
  BY <1>c DEF clusteredBuilder
<1>16. Behind(c, full) BY <1>14 DEF Calm, Behind, LatestIn
<1>17. AllDense(c.unmatched, waiting(c)) BY <1>14 DEF Calm
<1>18. /\ v.split = FALSE /\ v.discarded = c.discarded
       /\ v.latest = c.latest /\ v.current = c.current
       /\ FormedWhole(v, full)
  BY <1>1, <1>13, <1>15, <1>16, <1>17, MatchIsWhole
<1>19. Calm(v, full) BY <1>14, <1>18 DEF Calm, FormedWhole
<1> QED BY <1>15, <1>18, <1>19

-----------------------------------------------------------------------------
\* The hits hs, and after them those of packet q.
Extended(ms, hs, q) ==
  /\ Len(hs) \in Nat /\ Len(ms) \in Nat /\ Len(hs) <= Len(ms)
  /\ \A i \in 1 .. Len(hs) : ms[i] = hs[i]
  /\ \A i \in 1 .. Len(ms) : i > Len(hs) => ms[i].packet = q

\* The hits H are those of builder b, known by their id.
Belong(H, b, ms) == \A h \in H : h.id \in 1 .. Len(ms) /\ ms[h.id].hit = h /\ ms[h.id].builder = b

\* u differs from b in the hits inserted only.
OnlyInserted(u, b) ==
  /\ u.split = b.split /\ u.current = b.current /\ u.unmatched = b.unmatched
  /\ u.latest = b.latest /\ u.events = b.events /\ u.discarded = b.discarded

\* The hits inserted into u are those after the first n, and of builder b.
Fresh(u, b, ms, n) ==
  \A p \in Planes : /\ Belong(ToSet(u.hits[p]), b, ms)
                    /\ \A h \in ToSet(u.hits[p]) : h.id > n

\* What the readouts of packet q make of the builders and hits of base.
Marked(w, base, D, q) ==
  /\ Extended(w.hits, base.hits, q)
  /\ \A b \in D : /\ OnlyInserted(w.builders[b], base.builders[b])
                  /\ Fresh(w.builders[b], b, w.hits, Len(base.hits))

LEMMA BelongToMore ==
  ASSUME NEW H, NEW b, NEW ms, NEW hs, NEW q, Extended(ms, hs, q), Belong(H, b, hs)
  PROVE  Belong(H, b, ms)
<1>1. \A i \in 1 .. Len(hs) : i \in 1 .. Len(ms) /\ ms[i] = hs[i] BY DEF Extended
<1> QED BY <1>1 DEF Belong

\* A hit inserted, of its plane.
LEMMA InsertOnly ==
  ASSUME NEW b \in Builders, NEW h \in Hits, NEW v, v = insert(b, h)
  PROVE  /\ OnlyInserted(v, b)
         /\ \A p \in Planes : \A x \in ToSet(v.hits[p]) : x = h \/ x \in ToSet(b.hits[p])
<1> DEFINE s == b.hits[h.plane]  t == Append(s, h)  hs == [b.hits EXCEPT ![h.plane] = t]
<1>1. h.plane \in Planes BY HitFields
<1>2. b.hits \in HitsByPlane /\ s \in Seq(Hits)
  BY <1>1, BuilderFields DEF HitsByPlane
<1>3. v = [b EXCEPT !.hits = hs] BY DEF insert
<1>s. s = b.hits[h.plane] OBVIOUS
<1> HIDE DEF s
<1>4. ToSet(t) = ToSet(s) \cup {h}
  <2> DEFINE o == <<h>>
  <2>1. t = s \o o BY <1>2
  <2>2. o \in Seq(Hits) /\ ToSet(o) = {h} BY OneHit
  <2> HIDE DEF t, o
  <2>3. ToSet(s \o o) = ToSet(s) \cup ToSet(o) BY <1>2, <2>2, ConcatElements
  <2> QED BY <2>1, <2>2, <2>3
<1> HIDE DEF t
<1>5. hs[h.plane] = t /\ \A p \in Planes \ {h.plane} : hs[p] = b.hits[p]
  BY <1>1, <1>2 DEF HitsByPlane
<1> HIDE DEF hs
<1>6. b = [split |-> b.split, hits |-> b.hits, current |-> b.current,
           unmatched |-> b.unmatched, latest |-> b.latest, events |-> b.events,
           discarded |-> b.discarded, stats |-> b.stats]
  BY BuilderFields
<1>7. v = [split |-> b.split, hits |-> hs, current |-> b.current,
           unmatched |-> b.unmatched, latest |-> b.latest, events |-> b.events,
           discarded |-> b.discarded, stats |-> b.stats]
  BY <1>3, <1>6
<1>8. /\ v.hits = hs /\ v.split = b.split /\ v.current = b.current /\ v.unmatched = b.unmatched
      /\ v.latest = b.latest /\ v.events = b.events /\ v.discarded = b.discarded
  BY <1>7
<1>9. ASSUME NEW p \in Planes, NEW x \in ToSet(v.hits[p]) PROVE x = h \/ x \in ToSet(b.hits[p])
  BY <1>4, <1>5, <1>8, <1>9, <1>s
<1> QED BY <1>8, <1>9 DEF OnlyInserted

\* One readout inserts one hit or none.
LEMMA ReadoutMarks ==
  ASSUME packets \in Nat, NEW D, D = BuildersOf(instrument), NEW base \in Rounds(D),
         NEW w \in Rounds(D), Marked(w, base, D, packets + 1), NEW r \in Readouts,
         NEW v, v = processReadout(w, r)
  PROVE  Marked(v, base, D, packets + 1)
<1> DEFINE b == builderOf(r)  bs == w.builders  hs == w.hits  n == Len(hs)  q == packets + 1
           h == [id |-> n + 1, plane |-> r.plane, time |-> r.time,
                 coord |-> r.coord, weight |-> r.weight]
           mark == [hit |-> h, builder |-> b, packet |-> q, from |-> <<r.ring, r.fen>>]
           vs == [bs EXCEPT ![b] = insert(@, h)]
           c == increment(w.counters, hitCounters(r))
           d == increment(w.counters, faultCounters(r))
           ms == Append(hs, mark)  m == Len(base.hits)
<1>1. /\ bs \in [D -> Builders] /\ hs \in Seq(Marks(D))
      /\ w = [builders |-> bs, counters |-> w.counters, hits |-> hs]
  BY RoundFields
<1>2. v = IF r.fault \in Faults[instrument] THEN [w EXCEPT !.counters = d]
          ELSE [builders |-> vs, counters |-> c, hits |-> ms]
  BY Zenon DEF processReadout
<1>3. b \in D BY BuilderOfTyped
<1>5. n \in Nat
  <2> DEFINE M == Marks(D)
  <2>1. hs \in Seq(M) BY <1>1
  <2> HIDE DEF M, hs
  <2> QED BY <2>1
<1>6. h \in Hits /\ h.id = n + 1
  <2> HIDE DEF n
  <2> QED BY <1>5, ReadoutFields DEF Hits
<1>m. mark.hit = h /\ mark.builder = b /\ mark.packet = q
  <2> HIDE DEF h, b, q
  <2> QED OBVIOUS
<1> HIDE DEF mark
<1>8. Len(ms) = n + 1 /\ ms[n + 1] = mark /\ \A i \in 1 .. n : ms[i] = hs[i]
  <2> DEFINE M == Marks(D) \cup {mark}
  <2>1. hs \in Seq(Marks(D)) BY <1>1
  <2>2. hs \in Seq(M) /\ mark \in M
    <3> DEFINE K == Marks(D)
    <3>1. hs \in Seq(K) BY <2>1
    <3> HIDE DEF K, hs
    <3>2. hs \in Seq(K \cup {mark}) BY <3>1
    <3> QED BY <3>2 DEF K
  <2> HIDE DEF M, hs
  <2> QED BY <2>2
<1> HIDE DEF b, h, c, d, ms, vs, n, bs, hs, q, m
<1>9. CASE r.fault \in Faults[instrument]
  <2>1. v = [builders |-> bs, counters |-> d, hits |-> hs] BY <1>1, <1>2, <1>9
  <2>2. v.builders = bs /\ v.hits = hs BY <2>1
  <2> QED BY <2>2 DEF Marked, bs, hs
<1>10. CASE r.fault \notin Faults[instrument]
  <2>1. v = [builders |-> vs, counters |-> c, hits |-> ms] BY <1>2, <1>10
  <2>2. v.builders = vs /\ v.hits = ms BY <2>1
  <2>3. /\ Extended(hs, base.hits, q)
        /\ \A a \in D : OnlyInserted(bs[a], base.builders[a]) /\ Fresh(bs[a], a, hs, m)
    BY DEF Marked, bs, hs, q, m
  <2>4. m \in Nat /\ m <= n BY <2>3 DEF Extended, m, n
  <2>5. Len(ms) = n + 1 /\ Len(hs) = n BY <1>8 DEF n
  <2>6. Extended(ms, base.hits, q)
    <3>1. \A i \in 1 .. m : ms[i] = base.hits[i]
      <4>1. \A i \in 1 .. m : i \in 1 .. n /\ hs[i] = base.hits[i] BY <1>5, <2>3, <2>4 DEF Extended, m
      <4> QED BY <1>8, <4>1
    <3>2. \A i \in 1 .. n : i > m => ms[i].packet = q BY <1>8, <2>3, <2>5 DEF Extended, m
    <3>3. \A i \in 1 .. n + 1 : i \in 1 .. n \/ i = n + 1 BY <1>5
    <3>4. \A i \in 1 .. n + 1 : i > m => ms[i].packet = q BY <1>8, <1>m, <3>2, <3>3
    <3>5. Len(base.hits) = m BY DEF m
    <3>6. m <= n + 1 /\ n + 1 \in Nat BY <1>5, <2>4
    <3> QED BY <2>4, <2>5, <3>1, <3>4, <3>5, <3>6 DEF Extended
  <2>7. ASSUME NEW H, NEW a, Belong(H, a, hs) PROVE Belong(H, a, ms)
    <3>1. \A i \in 1 .. n : i \in 1 .. n + 1 BY <1>5
    <3> QED BY <1>8, <2>5, <2>7, <3>1 DEF Belong
  <2>8. ASSUME NEW a \in D
        PROVE  OnlyInserted(vs[a], base.builders[a]) /\ Fresh(vs[a], a, ms, m)
    <3>1. OnlyInserted(bs[a], base.builders[a]) /\ Fresh(bs[a], a, hs, m) BY <2>3
    <3>2. Fresh(bs[a], a, ms, m) BY <2>7, <3>1 DEF Fresh
    <3>3. CASE a # b
      <4>1. vs[a] = bs[a] BY <1>1, <3>3 DEF vs
      <4> QED BY <3>1, <3>2, <4>1
    <3>4. CASE a = b
      <4> DEFINE u == bs[a]  x == vs[a]
      <4>1. u \in Builders BY <1>1
      <4>2. x = insert(u, h) BY <1>1, <3>4 DEF vs
      <4> HIDE DEF u, x
      <4>3. /\ OnlyInserted(x, u)
            /\ \A p \in Planes : \A y \in ToSet(x.hits[p]) : y = h \/ y \in ToSet(u.hits[p])
        BY <1>6, <4>1, <4>2, InsertOnly
      <4>4. OnlyInserted(x, base.builders[a]) BY <3>1, <4>3 DEF OnlyInserted, u
      <4>5. h.id \in 1 .. Len(ms) /\ ms[h.id].hit = h /\ ms[h.id].builder = a /\ h.id > m
        BY <1>5, <1>6, <1>8, <1>m, <2>4, <2>5, <3>4
      <4>6. Fresh(u, a, ms, m) BY <3>2 DEF u
      <4>7. Fresh(x, a, ms, m) BY <4>3, <4>5, <4>6 DEF Fresh, Belong
      <4> QED BY <4>4, <4>7 DEF x
    <3> QED BY <3>3, <3>4
  <2> QED BY <2>2, <2>6, <2>8 DEF Marked, m, q
<1> QED BY <1>9, <1>10

LEMMA ReadoutsMark ==
  ASSUME packets \in Nat, NEW D, D = BuildersOf(instrument), NEW number \in Int, NEW named,
         NEW base \in Rounds(D), Kept(base.builders, base.hits, D, number, named),
         Marked(base, base, D, packets + 1),
         NEW hs \in Seq(Readouts), NEW v, v = FoldLeft(processReadout, base, hs)
  PROVE  v \in Rounds(D) /\ Marked(v, base, D, packets + 1)
<1> DEFINE n == Len(hs)  q == packets + 1
<1>1. n \in Nat /\ \A i \in 1 .. n : hs[i] \in Readouts
  <2> DEFINE U == Readouts
  <2>1. hs \in Seq(U) OBVIOUS
  <2> HIDE DEF U
  <2>2. n \in Nat /\ \A i \in 1 .. n : hs[i] \in U BY <2>1
  <2> QED BY <2>2 DEF U
<1>2. KeptInTurn(v, D, number, named, base, hs) BY ReadoutsInTurn, Zenon
<1> HIDE DEF n
<1>3. PICK g : /\ InTurn(g, base, hs) /\ v = g[1 .. n] /\ \A k \in 0 .. n : g[1 .. k] \in Rounds(D)
  BY <1>2 DEF KeptInTurn, n
<1> DEFINE F == {k \in 0 .. n : Marked(g[1 .. k], base, D, q)}
<1>4. 0 \in F
  <2>1. g[1 .. 0] = base BY <1>3 DEF InTurn
  <2> QED BY <1>1, <2>1
<1>5. ASSUME NEW k \in F, k < n PROVE k + 1 \in F
  <2> DEFINE u == g[1 .. k]  x == g[1 .. (k + 1)]
  <2>1. k \in 0 .. n /\ k + 1 \in 0 .. n /\ k + 1 \in 1 .. n /\ Marked(u, base, D, q)
    BY <1>1, <1>5
  <2>2. u \in Rounds(D) /\ hs[k + 1] \in Readouts BY <1>1, <1>3, <2>1
  <2>3. x = processReadout(u, hs[k + 1]) BY <1>3, <1>5, <2>1 DEF InTurn, n
  <2> HIDE DEF u, x
  <2>4. Marked(x, base, D, q) BY <2>1, <2>2, <2>3, ReadoutMarks
  <2> QED BY <2>1, <2>4 DEF x
<1>6. F \in SUBSET (0 .. n) OBVIOUS
<1> HIDE DEF F
<1>7. F = 0 .. n BY <1>1, <1>4, <1>5, <1>6, NumbersUpTo
<1>8. n \in F /\ n \in 0 .. n BY <1>1, <1>7
<1> QED BY <1>3, <1>8 DEF F

-----------------------------------------------------------------------------
\* Old events and new, when all that is new comes long after the old.
LEMMA WholeGrows ==
  ASSUME NEW S, NEW T, NEW W, NEW N, NEW L, L \subseteq W \cup N,
         \A e \in T : hitsOfOne(e) \subseteq W \cup N,
         WholeAmong(S, W), WholeAmong(T, L), \A e \in S : Clear(hitsOfOne(e), N)
  PROVE  WholeAmong(S \cup T, L)
<1>1. ASSUME NEW e \in S PROVE Clear(hitsOfOne(e), W \cup N)
  <2>1. Clear(hitsOfOne(e), W) /\ Clear(hitsOfOne(e), N) BY DEF WholeAmong
  <2> QED BY <2>1, ClearOfBoth
<1>2. ASSUME NEW H, NEW G, NEW K, Clear(H, G), K \subseteq G PROVE Clear(H, K)
  BY <1>2 DEF Clear
<1>3. \A e \in S : /\ Dense(hitsOfOne(e), hitsOfOne(e)) /\ Clear(hitsOfOne(e), L)
                   /\ \A f \in T : Clear(hitsOfOne(e), hitsOfOne(f))
  BY <1>1, <1>2 DEF WholeAmong
<1>4. \A e \in T : Dense(hitsOfOne(e), hitsOfOne(e)) /\ Clear(hitsOfOne(e), L) BY DEF WholeAmong
<1>5. \A e, f \in S :
        e = f \/ Clear(hitsOfOne(e), hitsOfOne(f)) \/ Clear(hitsOfOne(f), hitsOfOne(e))
  BY DEF WholeAmong
<1>6. \A e, f \in T :
        e = f \/ Clear(hitsOfOne(e), hitsOfOne(f)) \/ Clear(hitsOfOne(f), hitsOfOne(e))
  BY DEF WholeAmong
<1> QED BY <1>3, <1>4, <1>5, <1>6 DEF WholeAmong

LEMMA WholeOfFewer ==
  ASSUME NEW S, NEW T, NEW L, NEW M, WholeAmong(S, L), T \subseteq S, M \subseteq L
  PROVE  WholeAmong(T, M)
<1>1. ASSUME NEW H, Clear(H, L) PROVE Clear(H, M) BY <1>1 DEF Clear
<1> QED BY <1>1 DEF WholeAmong

\* The hits inserted into a builder since the last packet.
inserted(u) == ToSet(u.hits[PlaneX]) \cup ToSet(u.hits[PlaneY])

LEMMA InsideOfInserted ==
  ASSUME NEW v, v.hits = NoHits, NEW u, OnlyInserted(u, v)
  PROVE  insideHits(u) = inserted(u) \cup insideHits(v)
<1>1. v.hits[PlaneX] = <<>> /\ v.hits[PlaneY] = <<>> BY DEF NoHits, Planes, PlaneX, PlaneY
<1>2. ToSet(<<>>) = {} BY DEF ToSet
<1> DEFINE C == ToSet(v.current[PlaneX]) \cup ToSet(v.current[PlaneY])
<1>3. insideHits(v) = (({} \cup {}) \cup C) \cup queuedHits(v) BY <1>1, <1>2 DEF insideHits
<1>4. u.current = v.current /\ u.unmatched = v.unmatched /\ u.events = v.events
      /\ u.discarded = v.discarded
  BY DEF OnlyInserted
<1>5. queuedHits(u) = queuedHits(v) BY <1>4 DEF queuedHits
<1>6. insideHits(u) = (inserted(u) \cup C) \cup queuedHits(v)
  BY <1>4, <1>5 DEF insideHits, inserted
<1> HIDE DEF C
<1> QED BY <1>3, <1>6

LEMMA FreshBelong ==
  ASSUME NEW u, NEW b, NEW ms, NEW n, Fresh(u, b, ms, n)
  PROVE  Belong(inserted(u), b, ms) /\ \A h \in inserted(u) : h.id > n
<1>1. PlaneX \in Planes /\ PlaneY \in Planes BY DEF Planes, PlaneX, PlaneY
<1> QED BY <1>1 DEF Fresh, Belong, inserted

\* What waits in a builder, and the hits of its events, are in it.
LEMMA WaitingInside ==
  ASSUME NEW b \in Builders
  PROVE  /\ waiting(b) \subseteq insideHits(b)
         /\ \A e \in ToSet(b.events) : hitsOfOne(e) \subseteq insideHits(b)
         /\ (b.hits = NoHits /\ b.events = <<>> /\ b.discarded = {} => insideHits(b) = waiting(b))
<1>1. waiting(b) \subseteq insideHits(b) BY DEF waiting, insideHits, queuedHits
<1>2. ToSet(hitsAmong(b.events)) \subseteq insideHits(b) BY DEF insideHits, queuedHits
<1>3. ToSet(hitsAmong(b.events)) = UNION {ToSet(eventHits(e)) : e \in ToSet(b.events)}
  BY BuilderFields, HitsAmongElements
<1>4. \A e \in ToSet(b.events) : hitsOfOne(e) \subseteq insideHits(b)
  BY <1>2, <1>3 DEF hitsOfOne
<1>5. ASSUME b.hits = NoHits, b.events = <<>>, b.discarded = {} PROVE insideHits(b) = waiting(b)
  <2>1. b.hits[PlaneX] = <<>> /\ b.hits[PlaneY] = <<>>
    BY <1>5 DEF NoHits, Planes, PlaneX, PlaneY
  <2>2. ToSet(<<>>) = {} BY DEF ToSet
  <2>3. {e \in {} : TRUE} = {} OBVIOUS
  <2>4. ToSet(hitsAmong(b.events)) = {} BY <1>3, <1>5, <2>2
  <2>5. queuedHits(b) = (ToSet(hitsIn(b.unmatched)) \cup {}) \cup {}
    BY <1>5, <2>4 DEF queuedHits
  <2> DEFINE C == ToSet(b.current[PlaneX]) \cup ToSet(b.current[PlaneY])
             U == ToSet(hitsIn(b.unmatched))
  <2>6. insideHits(b) = (({} \cup {}) \cup C) \cup queuedHits(b) BY <2>1, <2>2 DEF insideHits
  <2>7. waiting(b) = U \cup C BY DEF waiting
  <2>8. queuedHits(b) = (U \cup {}) \cup {} BY <2>5
  <2> HIDE DEF C, U
  <2> QED BY <2>6, <2>7, <2>8
<1> QED BY <1>1, <1>4, <1>5

\* The events leave a builder, and nothing else of it changes.
LEMMA EmptiedOnly ==
  ASSUME NEW u \in Builders, NEW y, y = emptied(u)
  PROVE  /\ y.split = u.split /\ y.current = u.current /\ y.unmatched = u.unmatched
         /\ y.latest = u.latest /\ y.discarded = u.discarded /\ waiting(y) = waiting(u)
         /\ \A full : Calm(u, full) => Calm(y, full)
<1> DEFINE e == <<>>
<1>1. y = [u EXCEPT !.events = e] BY DEF emptied
<1> HIDE DEF e
<1>2. u = [split |-> u.split, hits |-> u.hits, current |-> u.current,
           unmatched |-> u.unmatched, latest |-> u.latest, events |-> u.events,
           discarded |-> u.discarded, stats |-> u.stats]
  BY BuilderFields
<1>3. y = [split |-> u.split, hits |-> u.hits, current |-> u.current,
           unmatched |-> u.unmatched, latest |-> u.latest, events |-> e,
           discarded |-> u.discarded, stats |-> u.stats]
  BY <1>1, <1>2
<1>4. /\ y.split = u.split /\ y.current = u.current /\ y.unmatched = u.unmatched
      /\ y.latest = u.latest /\ y.discarded = u.discarded
  BY <1>3
<1>5. waiting(y) = waiting(u) BY <1>4 DEF waiting
<1>6. \A full : Calm(u, full) => Calm(y, full) BY <1>4, <1>5 DEF Calm
<1> QED BY <1>4, <1>5, <1>6

-----------------------------------------------------------------------------
\* What chronological says, of builder b and the hits hs.
InTurnOfTime(b, hs) ==
  \A i, j \in 1 .. Len(hs) :
    hs[i].builder = b /\ hs[j].builder = b /\ hs[i].packet < hs[j].packet
      => hs[i].hit.time <= hs[j].hit.time

\* The packets whose events are to be whole together: each alone, or all.
Spans(full) == IF full THEN {{q} : q \in Nat} ELSE {Nat}

\* The events formed with a hit of builder b, in the packets Q.
eventsWith(fs, hs, b, Q) ==
  {e.event : e \in {f \in ToSet(fs) : f.packet \in Q /\ \E i \in f.ids : hs[i].builder = b}}

\* A builder that does not split: its events are whole, with what waits in it; each is
\* of one packet, or long before a hit that there is of the builder.
BuilderWhole(v, b, hs, fs, full) ==
  /\ v.discarded = {} /\ Calm(v, full)
  /\ full => waiting(v) = {}
  /\ \A Q \in Spans(full) : WholeAmong(eventsWith(fs, hs, b, Q), waiting(v))
  /\ full => \A e \in ToSet(fs) : \A i \in e.ids : hs[i].builder = b => hs[i].packet = e.packet
  /\ ~full => \A E \in eventsWith(fs, hs, b, Nat) :
                \E m \in 1 .. Len(hs) : hs[m].builder = b /\ Clear(hitsOfOne(E), {hs[m].hit})

\* The events formed, of n packets, have hits of a builder each.
Tagged(fs, hs, D, n) ==
  \A e \in ToSet(fs) :
    /\ e.packet \in Nat /\ e.packet <= n /\ e.event \in BuiltEvents
    /\ e.ids = idsOf(hitsOfOne(e.event))
    /\ \E b \in D : Belong(hitsOfOne(e.event), b, hs)
Numbered(hs, n) == \A i \in 1 .. Len(hs) : hs[i].packet \in Nat /\ hs[i].packet <= n

\* The events gs of packet q, of which es are those with hits of builder b.
FormedBy(gs, es, ms, b, q) ==
  \A e \in ToSet(gs) :
    /\ e.packet = q /\ e.ids = idsOf(hitsOfOne(e.event))
    /\ (\E i \in e.ids : ms[i].builder = b) => e.event \in ToSet(es)

\* An event formed before knows its hits as they are now.
LEMMA OldHits ==
  ASSUME NEW fs, NEW hs, NEW D, NEW n, Tagged(fs, hs, D, n), NEW ms, NEW q, Extended(ms, hs, q),
         NEW e \in ToSet(fs), NEW i \in e.ids
  PROVE  i \in 1 .. Len(hs) /\ ms[i] = hs[i]
<1>1. PICK b \in D : Belong(hitsOfOne(e.event), b, hs) BY DEF Tagged
<1>2. PICK h \in hitsOfOne(e.event) : i = h.id BY DEF Tagged, idsOf
<1>3. i \in 1 .. Len(hs) BY <1>1, <1>2 DEF Belong
<1> QED BY <1>3 DEF Extended

\* The events with hits of a builder are those there were, or those just formed.
LEMMA EventsWithMore ==
  ASSUME NEW fs, NEW hs, NEW D, NEW n \in Nat, Tagged(fs, hs, D, n), NEW ms, NEW q, q = n + 1,
         Extended(ms, hs, q), NEW gs, NEW es, NEW b, FormedBy(gs, es, ms, b, q),
         NEW ts, ToSet(ts) = ToSet(fs) \cup ToSet(gs), NEW Q
  PROVE  /\ eventsWith(ts, ms, b, Q)
              \subseteq eventsWith(fs, hs, b, Q) \cup (IF q \in Q THEN ToSet(es) ELSE {})
         /\ Q = {q} => eventsWith(fs, hs, b, Q) = {}
<1>1. ASSUME NEW E \in eventsWith(ts, ms, b, Q), E \notin eventsWith(fs, hs, b, Q)
      PROVE  q \in Q /\ E \in ToSet(es)
  <2>1. PICK e \in ToSet(ts) : /\ e.packet \in Q /\ e.event = E
                               /\ \E i \in e.ids : ms[i].builder = b
    BY <1>1 DEF eventsWith
  <2>2. CASE e \in ToSet(gs) BY <2>1, <2>2 DEF FormedBy
  <2>3. CASE e \in ToSet(fs)
    <3>1. PICK i \in e.ids : ms[i].builder = b BY <2>1
    <3>2. ms[i] = hs[i] BY <2>3, OldHits
    <3>3. E \in eventsWith(fs, hs, b, Q) BY <2>1, <2>3, <3>1, <3>2 DEF eventsWith
    <3> QED BY <1>1, <3>3
  <2> QED BY <2>1, <2>2, <2>3
<1>2. ASSUME Q = {q} PROVE eventsWith(fs, hs, b, Q) = {}
  <2>1. \A e \in ToSet(fs) : e.packet \in Nat /\ e.packet <= n BY DEF Tagged
  <2>2. \A e \in ToSet(fs) : e.packet \notin Q BY <1>2, <2>1
  <2> QED BY <2>2 DEF eventsWith
<1> QED BY <1>1, <1>2

\* A builder between two packets, and with the hits of the next inserted.
Prepared(v, b, hs, n) ==
  /\ v \in Builders /\ v.hits = NoHits /\ v.events = <<>> /\ v.discarded = {}
  /\ n \in Nat /\ Numbered(hs, n) /\ Belong(insideHits(v), b, hs)
Arrived(u, v, b, hs, ms, q, full) ==
  /\ Extended(ms, hs, q) /\ (full \/ InTurnOfTime(b, ms))
  /\ OnlyInserted(u, v) /\ Fresh(u, b, ms, Len(hs))

\* u is ready to be flushed, and waits for what v does.
Ready(u, v, full) == Calm(u, full) /\ Timely(u) /\ waiting(u) = waiting(v)

\* Before a packet is flushed: the builder with the hits inserted.
LEMMA InsertedIsCalm ==
  ASSUME NEW v, NEW b, NEW hs, NEW n, Prepared(v, b, hs, n), NEW full,
         Calm(v, full), NEW ms, NEW u, NEW q, q = n + 1, Arrived(u, v, b, hs, ms, q, full)
  PROVE  Ready(u, v, full)
<1>a. /\ v \in Builders /\ v.hits = NoHits /\ v.events = <<>> /\ v.discarded = {}
      /\ n \in Nat /\ Numbered(hs, n) /\ Belong(insideHits(v), b, hs)
  BY DEF Prepared
<1>b. /\ Extended(ms, hs, q) /\ (full \/ InTurnOfTime(b, ms))
      /\ OnlyInserted(u, v) /\ Fresh(u, b, ms, Len(hs))
  BY DEF Arrived
<1>1. /\ u.current = v.current /\ u.unmatched = v.unmatched /\ u.latest = v.latest
  BY <1>b DEF OnlyInserted
<1>2. waiting(u) = waiting(v) BY <1>1 DEF waiting
<1>3. Calm(u, full) BY <1>1, <1>2 DEF Calm
<1>4. ASSUME NEW p \in Planes, NEW h \in ToSet(u.current[p]), NEW g \in ToSet(u.hits[p])
      PROVE  h.time <= g.time
  <2>1. p = PlaneX \/ p = PlaneY BY DEF Planes, PlaneX, PlaneY
  <2>2. h \in waiting(v) BY <1>1, <2>1 DEF waiting
  <2>3. h \in insideHits(v) BY <1>a, <2>2, WaitingInside
  <2>4. h.id \in 1 .. Len(hs) /\ hs[h.id].hit = h /\ hs[h.id].builder = b
    BY <1>a, <2>3 DEF Belong
  <2>5. ~full
    <3>1. ASSUME full PROVE FALSE
      <4>1. v.current[p] = <<>> BY <3>1 DEF Calm, NoHits
      <4>2. ToSet(<<>>) = {} BY DEF ToSet
      <4> QED BY <1>1, <4>1, <4>2
    <3> QED BY <3>1
  <2>6. h.id \in 1 .. Len(ms) /\ ms[h.id] = hs[h.id] BY <1>b, <2>4 DEF Extended
  <2>7. ms[h.id].packet \in Nat /\ ms[h.id].packet <= n BY <1>a, <2>4, <2>6 DEF Numbered
  <2>8. g.id \in 1 .. Len(ms) /\ g.id > Len(hs) /\ ms[g.id].hit = g /\ ms[g.id].builder = b
    BY <1>b DEF Fresh, Belong
  <2>9. ms[g.id].packet = q BY <1>b, <2>8 DEF Extended
  <2>10. ms[h.id].packet < ms[g.id].packet BY <1>a, <2>7, <2>9
  <2>11. ms[h.id].hit.time <= ms[g.id].hit.time
    BY <1>b, <2>4, <2>5, <2>6, <2>8, <2>10 DEF InTurnOfTime
  <2> QED BY <2>4, <2>6, <2>8, <2>11
<1> QED BY <1>2, <1>3, <1>4 DEF Timely, Ready

-----------------------------------------------------------------------------
LEMMA MarkFields ==
  ASSUME NEW D, NEW hs \in Seq(Marks(D))
  PROVE  \A i \in 1 .. Len(hs) : /\ hs[i].hit \in Hits /\ hs[i].builder \in D
                                 /\ hs[i].packet \in Nat
<1> DEFINE M == Marks(D)
<1>1. hs \in Seq(M) OBVIOUS
<1>2. \A m \in M : m.hit \in Hits /\ m.builder \in D /\ m.packet \in Nat BY DEF Marks
<1> HIDE DEF M
<1> QED BY <1>1, <1>2

\* What comes with a packet comes long after the events formed before it: a hit of
\* the builder that they are long before came with an earlier packet.
LEMMA OldAreClear ==
  ASSUME NEW D, NEW hs \in Seq(Marks(D)), NEW n \in Nat, Numbered(hs, n),
         NEW b, NEW ms \in Seq(Marks(D)), NEW q, q = n + 1, Extended(ms, hs, q),
         InTurnOfTime(b, ms),
         NEW N \in HitSets, Belong(N, b, ms), \A h \in N : h.id > Len(hs),
         NEW H \in HitSets, NEW m \in 1 .. Len(hs), hs[m].builder = b, Clear(H, {hs[m].hit})
  PROVE  Clear(H, N)
<1>1. m \in 1 .. Len(ms) /\ ms[m] = hs[m] BY DEF Extended
<1>2. hs[m].packet \in Nat /\ hs[m].packet <= n BY DEF Numbered
<1> DEFINE k == hs[m].hit
<1>3. ASSUME NEW g \in N PROVE k.time <= g.time
  <2>1. g.id \in 1 .. Len(ms) /\ ms[g.id].hit = g /\ ms[g.id].builder = b /\ g.id > Len(hs)
    BY DEF Belong
  <2>2. ms[g.id].packet = q BY <2>1 DEF Extended
  <2>3. ms[m].packet < ms[g.id].packet BY <1>1, <1>2, <2>2
  <2>4. ms[m].hit.time <= ms[g.id].hit.time BY <1>1, <2>1, <2>3 DEF InTurnOfTime
  <2> QED BY <1>1, <2>1, <2>4
<1>4. k \in Hits BY MarkFields
<1>5. Clear(H, {k}) OBVIOUS
<1> HIDE DEF k
<1>6. {k} \in HitSets /\ k \in {k} BY <1>4 DEF HitSets
<1> QED BY <1>3, <1>5, <1>6, ClearOfLater

\* A builder stays whole when a packet is processed.
LEMMA BuilderStep ==
  ASSUME GapsNested,
         NEW v \in Builders, v.split = FALSE, v.hits = NoHits, v.events = <<>>,
         NEW full \in BOOLEAN, NEW D, NEW hs \in Seq(Marks(D)), NEW fs, NEW n \in Nat,
         Numbered(hs, n), Tagged(fs, hs, D, n),
         NEW b, BuilderWhole(v, b, hs, fs, full), Belong(insideHits(v), b, hs),
         NEW ms \in Seq(Marks(D)), NEW q, q = n + 1, Extended(ms, hs, q),
         full \/ InTurnOfTime(b, ms),
         NEW u \in Builders, OnlyInserted(u, v), Fresh(u, b, ms, Len(hs)),
         NEW x, x = flush(u, full), NEW y, y = emptied(x),
         NEW gs, FormedBy(gs, x.events, ms, b, q),
         NEW ts, ToSet(ts) = ToSet(fs) \cup ToSet(gs)
  PROVE  BuilderWhole(y, b, ms, ts, full)
<1> DEFINE N == inserted(u)  W == waiting(v)  L == waiting(y)  T == ToSet(x.events)
<1>1. /\ v.discarded = {} /\ Calm(v, full) /\ (full => W = {})
      /\ \A Q \in Spans(full) : WholeAmong(eventsWith(fs, hs, b, Q), W)
      /\ full => \A e \in ToSet(fs) : \A i \in e.ids : hs[i].builder = b => hs[i].packet = e.packet
      /\ ~full => \A E \in eventsWith(fs, hs, b, Nat) :
                    \E m \in 1 .. Len(hs) : hs[m].builder = b /\ Clear(hitsOfOne(E), {hs[m].hit})
  BY Zenon DEF BuilderWhole
<1>2. Calm(u, full) /\ Timely(u) /\ waiting(u) = W
  <2>1. v.discarded = {} /\ Calm(v, full) BY <1>1
  <2>2. Prepared(v, b, hs, n) BY <2>1 DEF Prepared
  <2>3. Arrived(u, v, b, hs, ms, q, full) BY DEF Arrived
  <2>4. q = n + 1 /\ full \in BOOLEAN OBVIOUS
  <2> HIDE DEF W
  <2>5. Ready(u, v, full)
    BY ONLY <2>1, <2>2, <2>3, <2>4, InsertedIsCalm, Zenon
  <2> QED BY <2>5 DEF Ready, W
<1>3. u.split = FALSE /\ u.events = <<>> /\ u.discarded = {} BY <1>1 DEF OnlyInserted
<1>4. /\ x.split = FALSE /\ x.discarded = u.discarded
      /\ FormedWhole(x, full) /\ Calm(x, full)
  BY <1>2, <1>3, FlushIsWhole
<1>5. x \in Builders /\ insideHits(x) = insideHits(u) BY FlushKeeps
<1>6. y.discarded = {} /\ L = waiting(x) /\ Calm(y, full)
  BY <1>3, <1>4, <1>5, EmptiedOnly
<1>7. insideHits(x) = N \cup W
  <2>1. insideHits(v) = W BY <1>1, WaitingInside
  <2> QED BY <1>5, <2>1, InsideOfInserted
<1>8. /\ L \subseteq N \cup W /\ \A e \in T : hitsOfOne(e) \subseteq N \cup W
  BY <1>5, <1>6, <1>7, WaitingInside
<1>9. /\ Belong(N, b, ms) /\ \A h \in N : h.id > Len(hs) BY FreshBelong
<1>10. Belong(N \cup W, b, ms)
  <2>1. Belong(W, b, hs) BY WaitingInside DEF Belong
  <2>2. Belong(W, b, ms) BY <2>1, BelongToMore
  <2> QED BY <1>9, <2>2 DEF Belong
<1>11. /\ WholeAmong(T, L) /\ (full => L = {})
       /\ ~full => (x.events # <<>> => L # {})
  BY <1>4, <1>6 DEF FormedWhole, Whole
<1>12. \A Q : /\ eventsWith(ts, ms, b, Q)
                   \subseteq eventsWith(fs, hs, b, Q) \cup (IF q \in Q THEN T ELSE {})
              /\ Q = {q} => eventsWith(fs, hs, b, Q) = {}
  BY EventsWithMore
<1>13. N \in HitSets
  <2>1. u.hits[PlaneX] \in Seq(Hits) /\ u.hits[PlaneY] \in Seq(Hits) BY BuilderFields, PlanesOf
  <2>2. \A s \in Seq(Hits) : ToSet(s) \subseteq Hits BY ElementsAreHits
  <2> QED BY <2>1, <2>2 DEF HitSets, inserted
<1>14. \A E \in eventsWith(fs, hs, b, Nat) : hitsOfOne(E) \in HitSets
  BY EventHitSets DEF eventsWith, Tagged
<1>t. \A e \in T : T # {} /\ x.events # <<>>
  <2>1. ToSet(<<>>) = {} BY DEF ToSet
  <2> QED BY <2>1
<1> HIDE DEF N, W, L, T
<1>15. CASE full
  <2>1. L = {} /\ W = {} BY <1>1, <1>11, <1>15
  <2>2. ASSUME NEW r \in Nat PROVE WholeAmong(eventsWith(ts, ms, b, {r}), L)
    <3>1. CASE r = q
      <4>1. eventsWith(ts, ms, b, {r}) \subseteq T BY <1>12, <3>1
      <4>2. WholeAmong(T, L) /\ L \subseteq L BY <1>11
      <4> QED BY ONLY <4>1, <4>2, WholeOfFewer, Zenon
    <3>2. CASE r # q
      <4>1. eventsWith(ts, ms, b, {r}) \subseteq eventsWith(fs, hs, b, {r}) BY <1>12, <3>2
      <4>2. {r} \in Spans(full) BY <1>15 DEF Spans
      <4>3. WholeAmong(eventsWith(fs, hs, b, {r}), W) BY <1>1, <4>2
      <4>4. L \subseteq W BY <2>1
      <4> QED BY <4>1, <4>3, <4>4, WholeOfFewer
    <3> QED BY <3>1, <3>2
  <2>3. \A Q \in Spans(full) : WholeAmong(eventsWith(ts, ms, b, Q), L)
    BY <1>15, <2>2 DEF Spans
  <2>4. ASSUME NEW e \in ToSet(ts), NEW i \in e.ids, ms[i].builder = b
        PROVE  ms[i].packet = e.packet
    <3>1. CASE e \in ToSet(fs)
      <4>1. ms[i] = hs[i] BY <3>1, OldHits
      <4> QED BY <1>1, <1>15, <2>4, <3>1, <4>1
    <3>2. CASE e \in ToSet(gs)
      <4>1. e.packet = q /\ e.ids = idsOf(hitsOfOne(e.event)) /\ e.event \in T
        BY <2>4, <3>2 DEF FormedBy, T
      <4>2. PICK h \in hitsOfOne(e.event) : i = h.id BY <4>1 DEF idsOf
      <4>3. h \in N BY <1>8, <2>1, <4>1, <4>2
      <4>4. i \in 1 .. Len(ms) /\ i > Len(hs) BY <1>9, <4>2, <4>3 DEF Belong
      <4> QED BY <4>1, <4>4 DEF Extended
    <3> QED BY <3>1, <3>2
  <2> QED BY <1>6, <1>15, <2>1, <2>3, <2>4 DEF BuilderWhole, L
<1>16. CASE ~full
  <2> DEFINE S == eventsWith(fs, hs, b, Nat)  S_1 == eventsWith(ts, ms, b, Nat)
  <2>1. InTurnOfTime(b, ms) BY <1>16
  <2>2. \A E \in S : \E m \in 1 .. Len(hs) : hs[m].builder = b /\ Clear(hitsOfOne(E), {hs[m].hit})
    BY <1>1, <1>16
  <2>3. WholeAmong(S, W) BY <1>1, <1>16 DEF Spans
  <2>4. S_1 \subseteq S \cup T
    <3>1. q \in Nat OBVIOUS
    <3> QED BY <1>12, <3>1
  <2>5. \A E \in S : hitsOfOne(E) \in HitSets BY <1>14
  <2> HIDE DEF S, S_1
  <2>6. ASSUME NEW E \in S PROVE Clear(hitsOfOne(E), N)
    <3>1. PICK m \in 1 .. Len(hs) : hs[m].builder = b /\ Clear(hitsOfOne(E), {hs[m].hit})
      BY <2>2
    <3>2. hitsOfOne(E) \in HitSets BY <2>5
    <3> QED BY <1>9, <1>13, <2>1, <3>1, <3>2, OldAreClear
  <2>7. WholeAmong(S \cup T, L)
    <3>1. L \subseteq W \cup N /\ \A e \in T : hitsOfOne(e) \subseteq W \cup N BY <1>8
    <3> QED BY <1>11, <2>3, <2>6, <3>1, WholeGrows
  <2>8. WholeAmong(S_1, L) BY <2>4, <2>7, WholeOfFewer
  <2>9. \A Q \in Spans(full) : WholeAmong(eventsWith(ts, ms, b, Q), L)
    BY <1>16, <2>8 DEF Spans, S_1
  <2>10. ASSUME NEW E \in S_1
         PROVE  \E m \in 1 .. Len(ms) : ms[m].builder = b /\ Clear(hitsOfOne(E), {ms[m].hit})
    <3>1. CASE E \in S
      <4>1. PICK m \in 1 .. Len(hs) : hs[m].builder = b /\ Clear(hitsOfOne(E), {hs[m].hit})
        BY <2>2, <3>1
      <4>2. m \in 1 .. Len(ms) /\ ms[m] = hs[m] BY DEF Extended
      <4> QED BY <4>1, <4>2
    <3>2. CASE E \in T
      <4>1. PICK k \in L : TRUE BY <1>11, <1>16, <1>t, <3>2
      <4>2. k.id \in 1 .. Len(ms) /\ ms[k.id].hit = k /\ ms[k.id].builder = b
        BY <1>8, <1>10 DEF Belong
      <4>3. Clear(hitsOfOne(E), L) BY <1>11, <3>2 DEF WholeAmong
      <4>4. Clear(hitsOfOne(E), {k}) BY <4>3, ClearOfEach
      <4> QED BY <4>2, <4>4
    <3> QED BY <2>4, <3>1, <3>2
  <2> QED BY <1>6, <1>16, <2>9, <2>10 DEF BuilderWhole, L, S_1
<1> QED BY <1>15, <1>16

-----------------------------------------------------------------------------
\* The readouts of packet q, inserted into the builders bs: us, and the hits with
\* theirs: ms.
Came(us, bs, ms, hs, D, q) ==
  /\ Extended(ms, hs, q) /\ ms \in Seq(Marks(D))
  /\ \A b \in D : /\ us[b] \in Builders /\ OnlyInserted(us[b], bs[b])
                  /\ Fresh(us[b], b, ms, Len(hs))

\* What the builders us form when they are flushed.
Became(gs, us, D, q, full) ==
  \A e \in ToSet(gs) :
    /\ e.packet = q /\ e.event \in BuiltEvents /\ e.ids = idsOf(hitsOfOne(e.event))
    /\ \E b \in D : e.event \in ToSet(flush(us[b], full).events)

\* Every hit is known by its id, in the builders and in the events.
Known(bs, hs, fs, D, n) ==
  /\ Numbered(hs, n) /\ Tagged(fs, hs, D, n)
  /\ \A b \in D : Belong(insideHits(bs[b]), b, hs)

LEMMA ComeInside ==
  ASSUME NEW us, NEW bs, NEW ms, NEW hs, NEW D, NEW q, Came(us, bs, ms, hs, D, q),
         NEW b \in D, bs[b].hits = NoHits, Belong(insideHits(bs[b]), b, hs), NEW full
  PROVE  /\ Belong(insideHits(us[b]), b, ms)
         /\ Belong(insideHits(emptied(flush(us[b], full))), b, ms)
         /\ \A e \in ToSet(flush(us[b], full).events) : Belong(hitsOfOne(e), b, ms)
<1> DEFINE u == us[b]  x == flush(u, full)  y == emptied(x)
<1>1. /\ Extended(ms, hs, q) /\ u \in Builders /\ OnlyInserted(u, bs[b])
      /\ Fresh(u, b, ms, Len(hs))
  BY DEF Came
<1>2. Belong(insideHits(bs[b]), b, ms) BY <1>1, BelongToMore
<1>3. Belong(inserted(u), b, ms) BY <1>1, FreshBelong
<1>4. insideHits(u) = inserted(u) \cup insideHits(bs[b]) BY <1>1, InsideOfInserted
<1>5. Belong(insideHits(u), b, ms) BY <1>2, <1>3, <1>4 DEF Belong
<1>6. x \in Builders /\ insideHits(x) = insideHits(u) BY <1>1, FlushKeeps
<1> HIDE DEF x
<1>7. insideHits(y) \subseteq insideHits(x) BY <1>6, EmptiedKeeps
<1>8. \A e \in ToSet(x.events) : hitsOfOne(e) \subseteq insideHits(x) BY <1>6, WaitingInside
<1>9. ASSUME NEW H, H \subseteq insideHits(u) PROVE Belong(H, b, ms)
  BY <1>5, <1>9 DEF Belong
<1>10. Belong(insideHits(y), b, ms) BY <1>6, <1>7, <1>9
<1>11. \A e \in ToSet(x.events) : Belong(hitsOfOne(e), b, ms) BY <1>6, <1>8, <1>9
<1> QED BY <1>5, <1>10, <1>11 DEF x

LEMMA StaysKnown ==
  ASSUME NEW D, NEW bs, \A b \in D : bs[b].hits = NoHits,
         NEW hs, NEW fs, NEW n \in Nat, Known(bs, hs, fs, D, n), NEW q, q = n + 1,
         NEW us, NEW ms, Came(us, bs, ms, hs, D, q),
         NEW full, NEW gs, Became(gs, us, D, q, full),
         NEW ts, ToSet(ts) = ToSet(fs) \cup ToSet(gs),
         NEW cs, \A b \in D : cs[b] = emptied(flush(us[b], full))
  PROVE  Known(cs, ms, ts, D, q)
<1>1. Numbered(hs, n) /\ Tagged(fs, hs, D, n) /\ \A b \in D : Belong(insideHits(bs[b]), b, hs)
  BY DEF Known
<1>2. Extended(ms, hs, q) BY DEF Came
<1>3. Numbered(ms, q)
  <2>1. ASSUME NEW i \in 1 .. Len(ms) PROVE ms[i].packet \in Nat /\ ms[i].packet <= q
    <3>1. CASE i > Len(hs) BY <1>2, <3>1 DEF Extended
    <3>2. CASE ~(i > Len(hs))
      <4>1. i \in 1 .. Len(hs) BY <1>2, <3>2 DEF Extended
      <4>2. ms[i] = hs[i] BY <1>2, <4>1 DEF Extended
      <4>3. hs[i].packet \in Nat /\ hs[i].packet <= n BY <1>1, <4>1 DEF Numbered
      <4> QED BY <4>2, <4>3
    <3> QED BY <3>1, <3>2
  <2> QED BY <2>1 DEF Numbered
<1>4. \A b \in D : Belong(insideHits(cs[b]), b, ms) BY <1>1, ComeInside
<1>5. ASSUME NEW e \in ToSet(ts)
      PROVE  /\ e.packet \in Nat /\ e.packet <= q /\ e.event \in BuiltEvents
             /\ e.ids = idsOf(hitsOfOne(e.event))
             /\ \E b \in D : Belong(hitsOfOne(e.event), b, ms)
  <2>1. CASE e \in ToSet(fs)
    <3>1. /\ e.packet \in Nat /\ e.packet <= n /\ e.event \in BuiltEvents
          /\ e.ids = idsOf(hitsOfOne(e.event))
          /\ \E b \in D : Belong(hitsOfOne(e.event), b, hs)
      BY <1>1, <2>1 DEF Tagged
    <3>2. e.packet <= q BY <3>1
    <3> QED BY <1>2, <3>1, <3>2, BelongToMore
  <2>2. CASE e \in ToSet(gs)
    <3>1. /\ e.packet = q /\ e.event \in BuiltEvents /\ e.ids = idsOf(hitsOfOne(e.event))
          /\ \E b \in D : e.event \in ToSet(flush(us[b], full).events)
      BY <2>2 DEF Became
    <3>2. PICK b \in D : e.event \in ToSet(flush(us[b], full).events) BY <3>1
    <3>3. Belong(hitsOfOne(e.event), b, ms) BY <1>1, <3>2, ComeInside
    <3>4. e.packet \in Nat /\ e.packet <= q BY <3>1
    <3> QED BY <3>1, <3>3, <3>4
  <2> QED BY <2>1, <2>2
<1> QED BY <1>3, <1>4, <1>5 DEF Known, Tagged

\* The events of all builders are whole, where they do not split and hits come in the
\* order that the instrument needs.
AllWhole(bs, hs, fs, D, full) ==
  \A b \in D : bs[b].split = FALSE /\ (full \/ InTurnOfTime(b, hs))
                 => BuilderWhole(bs[b], b, hs, fs, full)

LEMMA FormedByOne ==
  ASSUME NEW D, NEW bs, \A b \in D : bs[b].hits = NoHits,
         NEW hs, \A b \in D : Belong(insideHits(bs[b]), b, hs), NEW q,
         NEW us, NEW ms, Came(us, bs, ms, hs, D, q),
         NEW full, NEW gs, Became(gs, us, D, q, full), NEW b \in D
  PROVE  FormedBy(gs, flush(us[b], full).events, ms, b, q)
<1>1. ASSUME NEW e \in ToSet(gs)
      PROVE  /\ e.packet = q /\ e.ids = idsOf(hitsOfOne(e.event))
             /\ (\E i \in e.ids : ms[i].builder = b) => e.event \in ToSet(flush(us[b], full).events)
  <2>1. /\ e.packet = q /\ e.ids = idsOf(hitsOfOne(e.event))
        /\ \E a \in D : e.event \in ToSet(flush(us[a], full).events)
    BY DEF Became
  <2>2. PICK a \in D : e.event \in ToSet(flush(us[a], full).events) BY <2>1
  <2>3. Belong(hitsOfOne(e.event), a, ms) BY <2>2, ComeInside
  <2>4. \A i \in e.ids : ms[i].builder = a BY <2>1, <2>3 DEF Belong, idsOf
  <2> QED BY <2>1, <2>2, <2>4
<1> QED BY <1>1 DEF FormedBy

\* Builders between two packets; and how a packet passes: us are the builders with its
\* readouts, gs what they form, and cs, ms and ts what there is afterwards.
Between(bs, hs, D) ==
  /\ bs \in [D -> Builders] /\ hs \in Seq(Marks(D))
  /\ \A b \in D : bs[b].hits = NoHits /\ bs[b].events = <<>>
Passed(us, gs, bs, cs, hs, ms, fs, ts, D, q, full) ==
  /\ full \in BOOLEAN /\ Came(us, bs, ms, hs, D, q) /\ Became(gs, us, D, q, full)
  /\ ToSet(ts) = ToSet(fs) \cup ToSet(gs)
  /\ \A b \in D : cs[b] = emptied(flush(us[b], full))

LEMMA StaysWhole ==
  ASSUME GapsNested, NEW D, NEW bs, NEW hs, Between(bs, hs, D), NEW fs, NEW n \in Nat,
         Known(bs, hs, fs, D, n), NEW q, q = n + 1, NEW full,
         NEW us, NEW gs, NEW cs, NEW ms, NEW ts,
         Passed(us, gs, bs, cs, hs, ms, fs, ts, D, q, full),
         AllWhole(bs, hs, fs, D, full)
  PROVE  AllWhole(cs, ms, ts, D, full)
<1>a. /\ bs \in [D -> Builders] /\ hs \in Seq(Marks(D))
      /\ \A b \in D : bs[b].hits = NoHits /\ bs[b].events = <<>>
  BY DEF Between
<1>b. /\ full \in BOOLEAN /\ Came(us, bs, ms, hs, D, q) /\ Became(gs, us, D, q, full)
      /\ ToSet(ts) = ToSet(fs) \cup ToSet(gs)
      /\ \A b \in D : cs[b] = emptied(flush(us[b], full))
  BY DEF Passed
<1>1. Numbered(hs, n) /\ Tagged(fs, hs, D, n) /\ \A b \in D : Belong(insideHits(bs[b]), b, hs)
  BY DEF Known
<1>2. Extended(ms, hs, q) /\ ms \in Seq(Marks(D)) BY <1>b DEF Came
<1> SUFFICES ASSUME NEW b \in D, cs[b].split = FALSE, full \/ InTurnOfTime(b, ms)
             PROVE  BuilderWhole(cs[b], b, ms, ts, full)
  BY DEF AllWhole
<1> DEFINE v == bs[b]  u == us[b]  x == flush(u, full)  y == emptied(x)
<1>3. /\ u \in Builders /\ OnlyInserted(u, v) /\ Fresh(u, b, ms, Len(hs)) BY <1>b DEF Came
<1>4. cs[b] = y BY <1>b
<1>5. v \in Builders /\ v.hits = NoHits /\ v.events = <<>> BY <1>a
<1>6. x \in Builders /\ x.split = u.split BY <1>3, FlushKeeps, FlushIsClean DEF StaysClean
<1>7. x = flush(u, full) /\ y = emptied(x) OBVIOUS
<1>8. FormedBy(gs, x.events, ms, b, q) BY <1>1, <1>a, <1>b, FormedByOne
<1>9. Belong(insideHits(v), b, hs) BY <1>1
<1> HIDE DEF v, u, x, y
<1>10. v.split = FALSE
  <2>1. y.split = x.split BY <1>6, <1>7, EmptiedOnly
  <2> QED BY <1>3, <1>4, <1>6, <2>1 DEF OnlyInserted
<1>11. BuilderWhole(v, b, hs, fs, full)
  <2>1. full \/ InTurnOfTime(b, hs)
    <3>1. ASSUME InTurnOfTime(b, ms) PROVE InTurnOfTime(b, hs)
      <4>1. \A i \in 1 .. Len(hs) : i \in 1 .. Len(ms) /\ ms[i] = hs[i] BY <1>2 DEF Extended
      <4> QED BY <3>1, <4>1 DEF InTurnOfTime
    <3> QED BY <3>1
  <2> QED BY <1>10, <2>1 DEF AllWhole, v
<1>12. BuilderWhole(y, b, ms, ts, full)
  BY <1>1, <1>2, <1>3, <1>a, <1>b, <1>5, <1>7, <1>8, <1>9, <1>10, <1>11, BuilderStep
<1> QED BY <1>4, <1>12

-----------------------------------------------------------------------------
LEMMA NoneInserted ==
  ASSUME NEW D, NEW base \in Rounds(D), \A b \in D : base.builders[b].hits = NoHits, NEW q
  PROVE  Marked(base, base, D, q)
<1>1. Len(base.hits) \in Nat
  <2> DEFINE M == Marks(D)  hs == base.hits
  <2>1. hs \in Seq(M) BY RoundFields
  <2> HIDE DEF M, hs
  <2>2. Len(hs) \in Nat BY <2>1
  <2> QED BY <2>2 DEF hs
<1>2. Extended(base.hits, base.hits, q) BY <1>1 DEF Extended
<1>3. ASSUME NEW b \in D
      PROVE  Fresh(base.builders[b], b, base.hits, Len(base.hits))
  <2>1. \A p \in Planes : base.builders[b].hits[p] = <<>> BY DEF NoHits
  <2>2. ToSet(<<>>) = {} BY DEF ToSet
  <2> QED BY <2>1, <2>2 DEF Fresh, Belong
<1> QED BY <1>2, <1>3 DEF Marked, OnlyInserted

\* What generateEvents makes of the builders' events.
LEMMA GeneratedBecome ==
  ASSUME packets \in Nat, NEW n \in Nat, NEW full, NEW us, NEW ws \in [0 .. n - 1 -> Builders],
         \A b \in 0 .. n - 1 : ws[b] = flush(us[b], full),
         NEW es, es = allEvents(ws), NEW reference, NEW gs, gs = generateEvents(es, reference)
  PROVE  Became(gs, us, 0 .. n - 1, packets + 1, full)
<1> DEFINE ss == eventsOf(ws, n)
<1>1. es = FlattenSeq(ss) /\ es \in Seq(BuiltEvents) BY AllEventsOf
<1>2. \A i \in 1 .. n : i - 1 \in 0 .. n - 1 /\ ss[i] = ws[i - 1].events BY DEF eventsOf
<1>3. ss \in Seq(Seq(BuiltEvents)) /\ Len(ss) = n
  <2> DEFINE V == Seq(BuiltEvents)
  <2>1. \A b \in 0 .. n - 1 : ws[b].events \in V BY BuilderFields
  <2>2. \A i \in 1 .. n : ss[i] \in V BY <1>2, <2>1
  <2>3. ss = [i \in 1 .. n |-> ss[i]] BY DEF eventsOf
  <2> HIDE DEF V, ss
  <2>4. ss \in [1 .. n -> V] BY <2>2, <2>3
  <2>5. ss \in Seq(V) /\ Len(ss) = n BY <2>4, SequenceOf
  <2> QED BY <2>5 DEF V
<1> HIDE DEF ss
<1>4. ToSet(FlattenSeq(ss)) = UNION {ToSet(ss[i]) : i \in 1 .. Len(ss)} BY <1>3, FlattenElements
<1>5. \A e \in ToSet(es) : \E i \in 1 .. n : e \in ToSet(ss[i]) BY <1>1, <1>3, <1>4
<1>6. \A e \in ToSet(es) : \E b \in 0 .. n - 1 : e \in ToSet(flush(us[b], full).events)
  BY <1>2, <1>5
<1>7. DOMAIN gs = DOMAIN es
      /\ \A i \in DOMAIN es : /\ gs[i].event = es[i] /\ gs[i].packet = packets + 1
                              /\ gs[i].ids = ids(eventHits(es[i]))
  BY DEF generateEvents
<1>8. \A i \in DOMAIN es : es[i] \in BuiltEvents /\ es[i] \in ToSet(es) BY <1>1 DEF ToSet
<1>9. \A e \in BuiltEvents : ids(eventHits(e)) = idsOf(hitsOfOne(e))
  BY EventHitsTyped, IdsAtMost DEF hitsOfOne
<1>10. \A i \in DOMAIN gs :
         /\ gs[i].packet = packets + 1 /\ gs[i].event \in BuiltEvents
         /\ gs[i].ids = idsOf(hitsOfOne(gs[i].event))
         /\ \E b \in 0 .. n - 1 : gs[i].event \in ToSet(flush(us[b], full).events)
  BY <1>6, <1>7, <1>8, <1>9
<1>11. \A e \in ToSet(gs) : \E i \in DOMAIN gs : e = gs[i] BY DEF ToSet
<1> QED BY <1>10, <1>11 DEF Became

\* A packet processed: its readouts come, and the builders flushed form events.
Taken(us, gs, D, q, full) ==
  /\ Came(us, builders, hits', hits, D, q) /\ Became(gs, us, D, q, full)
  /\ ToSet(formed') = ToSet(formed) \cup ToSet(gs)
  /\ \A b \in D : builders'[b] = emptied(flush(us[b], full))

LEMMA PacketTaken ==
  ASSUME VmmInv(instrument, builders, counters, packets, hits, formed), VmmNext,
         NEW D, D = BuildersOf(instrument)
  PROVE  \E us, gs : Taken(us, gs, D, packets + 1, fullFlush)
<1> DEFINE number == sizeFormed(formed)  named == idsFormed(formed)  q == packets + 1
<1>1. /\ instrument \in Instruments /\ builders \in [D -> Builders]
      /\ counters \in Counts /\ packets \in 0 .. MaxPackets /\ hits \in Seq(Marks(D))
      /\ FormedEvents(formed) /\ Kept(builders, hits, D, number, named)
      /\ \A b \in D : builders[b].hits = NoHits
  BY DEF VmmInv
<1>2. D = BuildersOf(instrument) OBVIOUS
<1>3. /\ packets \in Nat
      /\ \E p, w, es, g :
           /\ Processed(p, D, w, es, g)
           /\ \A b \in D : w.builders[b].hits = NoHits
           /\ Kept(w.builders, w.hits, D, number, named)
  BY <1>2, PacketProcessed
<1>4. PICK p, w, es, g : Processed(p, D, w, es, g) BY <1>3
<1> DEFINE reference == [time |-> p.time, prev |-> p.prev]
<1>5. /\ p.data \in Seq(Readouts)
      /\ w = processReadouts(p, parsed(p)) /\ es = allEvents(w.builders) /\ w \in Rounds(D)
      /\ g = generateEvents(es, reference) /\ hits' = w.hits
      /\ builders' = [b \in D |-> emptied(w.builders[b])] /\ formed' = formed \o g
  BY <1>4 DEF Processed
<1> HIDE DEF reference
<1> DEFINE base == [builders |-> builders, counters |-> parsed(p), hits |-> hits]
           v == FoldLeft(processReadout, base, parse(p))
<1>7. number \in Int BY <1>1, FormedTyped
<1>8. v \in Rounds(D) /\ Marked(v, base, D, q)
  <2>1. base \in Rounds(D)
    <3>1. parsed(p) \in Counts BY <1>1, <1>5, ParsedTyped
    <3> QED BY <1>1, <3>1, RoundFields
  <2>2. Kept(base.builders, base.hits, D, number, named) BY <1>1
  <2>3. parse(p) \in Seq(Readouts) BY <1>5, ParseTyped
  <2>4. v = FoldLeft(processReadout, base, parse(p)) OBVIOUS
  <2>5. \A b \in D : base.builders[b].hits = NoHits BY <1>1
  <2> HIDE DEF base, v, number, named
  <2>6. Marked(base, base, D, packets + 1) BY <2>1, <2>5, NoneInserted
  <2> QED BY ONLY <1>2, <1>3, <1>7, <2>1, <2>2, <2>3, <2>4, <2>6, ReadoutsMark, Zenon DEF q
<1>9. w = [v EXCEPT !.builders = [b \in DOMAIN @ |-> flush(@[b], fullFlush)]]
  BY <1>5 DEF processReadouts
<1>b. base.builders = builders /\ base.hits = hits OBVIOUS
<1> HIDE DEF v, base
<1> DEFINE us == v.builders  ws == w.builders
<1>10. us \in [D -> Builders] /\ v.hits \in Seq(Marks(D)) BY <1>8, RoundFields
<1>11. w.hits = v.hits /\ \A b \in D : ws[b] = flush(us[b], fullFlush)
  <2> DEFINE bs == [b \in DOMAIN v.builders |-> flush(v.builders[b], fullFlush)]
  <2>1. w = [v EXCEPT !.builders = bs] BY <1>9
  <2>2. v = [builders |-> v.builders, counters |-> v.counters, hits |-> v.hits]
    BY <1>8, RoundFields
  <2>3. DOMAIN bs = D /\ \A b \in D : bs[b] = flush(v.builders[b], fullFlush) BY <1>10
  <2> HIDE DEF bs
  <2>4. w.builders = bs /\ w.hits = v.hits BY <2>1, <2>2
  <2> QED BY <2>3, <2>4
<1>12. Came(us, builders, hits', hits, D, q)
  <2>1. /\ Extended(v.hits, hits, q)
        /\ \A b \in D : OnlyInserted(us[b], builders[b]) /\ Fresh(us[b], b, v.hits, Len(hits))
    BY <1>8, <1>b DEF Marked
  <2>2. hits' = v.hits BY <1>5, <1>11
  <2>3. \A b \in D : us[b] \in Builders BY <1>10
  <2>4. hits' \in Seq(Marks(D)) BY <1>10, <2>2
  <2> HIDE DEF us
  <2> QED BY <2>1, <2>2, <2>3, <2>4 DEF Came
<1> DEFINE n == numberOf(instrument)
<1>13. D = 0 .. n - 1 /\ n \in Nat BY <1>2, NumberTyped DEF BuildersOf
<1> HIDE DEF us, ws, n
<1>14. ws \in [0 .. n - 1 -> Builders]
  <2>1. ws \in [D -> Builders] BY <1>5, RoundFields DEF ws
  <2> QED BY <1>13, <2>1
<1>15. Became(g, us, D, q, fullFlush)
  <2>1. \A b \in 0 .. n - 1 : ws[b] = flush(us[b], fullFlush) BY <1>11, <1>13
  <2>2. es = allEvents(ws) BY <1>5 DEF ws
  <2>3. Became(g, us, 0 .. n - 1, packets + 1, fullFlush)
    BY <1>3, <1>5, <1>13, <1>14, <2>1, <2>2, GeneratedBecome
  <2> QED BY <1>13, <2>3 DEF q
<1>16. ToSet(formed') = ToSet(formed) \cup ToSet(g)
  <2> DEFINE A == ToSet(formed)  B == ToSet(g)  T == A \cup B
  <2>1. es \in Seq(BuiltEvents) BY <1>5, <1>13, <1>14, AllEventsOf DEF ws
  <2>2. FormedEvents(g) BY <1>5, <2>1, GeneratedKeep
  <2>3. formed \in Seq(T) /\ g \in Seq(T)
    <3>1. formed \in Seq(A) /\ g \in Seq(B) BY <1>1, <2>2 DEF FormedEvents
    <3> HIDE DEF A, B
    <3> QED BY <3>1
  <2> HIDE DEF T
  <2>4. ToSet(formed \o g) = ToSet(formed) \cup ToSet(g) BY <2>3, ConcatElements
  <2> QED BY <1>5, <2>4
<1>17. \A b \in D : builders'[b] = emptied(flush(us[b], fullFlush)) BY <1>5, <1>11 DEF ws
<1> QED BY <1>12, <1>15, <1>16, <1>17 DEF Taken

-----------------------------------------------------------------------------
LEMMA NewIsWhole ==
  ASSUME NEW v, v = NewBuilder(FALSE), NEW b, NEW full \in BOOLEAN
  PROVE  BuilderWhole(v, b, <<>>, <<>>, full)
<1>1. /\ v \in Builders /\ insideHits(v) = {} BY NewBuilderEmpty
<1>2. waiting(v) = {}
  <2>1. waiting(v) \subseteq insideHits(v) BY <1>1, WaitingInside
  <2> QED BY <1>1, <2>1
<1>3. /\ v.discarded = {} /\ v.unmatched = <<>> /\ v.current = NoHits
      /\ \A p \in Planes : v.latest[p] = 0 /\ v.current[p] = <<>>
  BY DEF NewBuilder, NoHits
<1>4. ToSet(<<>>) = {} BY DEF ToSet
<1>5. Calm(v, full)
  <2>1. \A p \in Planes : Grown(v.current[p]) BY <1>3, GrowsFromNone
  <2>2. AllDense(v.unmatched, waiting(v)) BY <1>3, <1>4 DEF AllDense
  <2>3. \A p \in Planes : LatestIn(v.latest[p], v.current[p]) BY <1>3, <1>4 DEF LatestIn
  <2> QED BY <1>3, <2>1, <2>2, <2>3 DEF Calm
<1>6. \A Q : eventsWith(<<>>, <<>>, b, Q) = {} BY <1>4 DEF eventsWith
<1>7. \A Q : WholeAmong(eventsWith(<<>>, <<>>, b, Q), waiting(v)) BY <1>6 DEF WholeAmong
<1> QED BY <1>2, <1>3, <1>4, <1>5, <1>6, <1>7 DEF BuilderWhole

LEMMA WholeInitially ==
  ASSUME VmmInit, NEW D, D = BuildersOf(instrument)
  PROVE  /\ Known(builders, hits, formed, D, packets)
         /\ AllWhole(builders, hits, formed, D, fullFlush)
<1>1. PICK split \in BOOLEAN : builders = [b \in D |-> NewBuilder(split)]
  BY DEF VmmInit, BuildersOf, numberOf
<1>2. hits = <<>> /\ formed = <<>> /\ packets = 0 BY DEF VmmInit
<1>3. ToSet(<<>>) = {} BY DEF ToSet
<1>4. Len(hits) = 0 /\ 1 .. 0 = {} BY <1>2
<1>5. \A b \in D : insideHits(builders[b]) = {} BY <1>1, NewBuilderEmpty
<1>6. Known(builders, hits, formed, D, packets)
  BY <1>2, <1>3, <1>4, <1>5 DEF Known, Numbered, Tagged, Belong
<1>7. ASSUME NEW b \in D, builders[b].split = FALSE
      PROVE  BuilderWhole(builders[b], b, hits, formed, fullFlush)
  <2>1. builders[b] = NewBuilder(split) BY <1>1
  <2>2. split = FALSE BY <1>7, <2>1 DEF NewBuilder
  <2>3. fullFlush \in BOOLEAN BY DEF fullFlush
  <2> QED BY <1>2, <2>1, <2>2, <2>3, NewIsWhole
<1> QED BY <1>6, <1>7 DEF AllWhole

LEMMA PacketIsWhole ==
  ASSUME GapsNested, VmmInv(instrument, builders, counters, packets, hits, formed), VmmNext,
         NEW D, D = BuildersOf(instrument), Known(builders, hits, formed, D, packets),
         AllWhole(builders, hits, formed, D, fullFlush)
  PROVE  /\ Known(builders', hits', formed', D, packets')
         /\ AllWhole(builders', hits', formed', D, fullFlush)
<1>1. /\ builders \in [D -> Builders] /\ packets \in 0 .. MaxPackets
      /\ hits \in Seq(Marks(D))
      /\ \A b \in D : builders[b].hits = NoHits /\ builders[b].events = <<>>
  BY DEF VmmInv
<1>2. packets \in Nat BY <1>1, InstrumentAssumption
<1>3. packets' = packets + 1 BY DEF VmmNext, ProcessPacket
<1>4. PICK us, gs : Taken(us, gs, D, packets + 1, fullFlush) BY PacketTaken
<1>5. fullFlush \in BOOLEAN BY DEF fullFlush
<1>6. /\ Came(us, builders, hits', hits, D, packets') /\ Became(gs, us, D, packets', fullFlush)
      /\ ToSet(formed') = ToSet(formed) \cup ToSet(gs)
      /\ \A b \in D : builders'[b] = emptied(flush(us[b], fullFlush))
  BY <1>3, <1>4 DEF Taken
<1> DEFINE full == fullFlush  ms == hits'  ts == formed'  cs == builders'  q == packets'
<1>7. /\ Came(us, builders, ms, hits, D, q) /\ Became(gs, us, D, q, full)
      /\ ToSet(ts) = ToSet(formed) \cup ToSet(gs)
      /\ \A b \in D : cs[b] = emptied(flush(us[b], full))
      /\ q = packets + 1 /\ full \in BOOLEAN /\ AllWhole(builders, hits, formed, D, full)
  BY <1>3, <1>5, <1>6
<1> HIDE DEF full, ms, ts, cs, q
<1>8. Known(cs, ms, ts, D, q) BY <1>1, <1>2, <1>7, StaysKnown
<1>9. AllWhole(cs, ms, ts, D, full)
  <2>1. Between(builders, hits, D) BY <1>1 DEF Between
  <2>2. Passed(us, gs, builders, cs, hits, ms, formed, ts, D, q, full) BY <1>7 DEF Passed
  <2>3. Known(builders, hits, formed, D, packets) /\ AllWhole(builders, hits, formed, D, full)
    BY <1>7
  <2>4. q = packets + 1 BY <1>7
  <2> QED BY ONLY GapsNested, <1>2, <2>1, <2>2, <2>3, <2>4, StaysWhole
<1> QED BY <1>8, <1>9 DEF full, ms, ts, cs, q

-----------------------------------------------------------------------------
\* Hits that are clear of each other are not linked.
LEMMA LinkedNotClear ==
  ASSUME NEW H, NEW G, Clear(H, G), NEW h \in H, NEW g \in G, NEW i, NEW j,
         hits[i].hit = h, hits[j].hit = g, h \in Hits, g \in Hits
  PROVE  ~linked(i, j) /\ ~linked(j, i)
<1>1. h.time + MaxMatchingTimeGap < g.time BY DEF Clear
<1>2. h.time \in Nat /\ g.time \in Nat BY HitFields
<1>3. MaxMatchingTimeGap \in Nat BY BuilderAssumption
<1>4. ~(g.time <= h.time + MaxMatchingTimeGap) BY <1>1, <1>2, <1>3
<1> QED BY <1>4 DEF linked

\* What is whole is complete.
LEMMA WholeIsComplete ==
  ASSUME VmmInv(instrument, builders, counters, packets, hits, formed),
         NEW D, D = BuildersOf(instrument), Known(builders, hits, formed, D, packets),
         AllWhole(builders, hits, formed, D, fullFlush)
  PROVE  EventsAreComplete
<1> DEFINE full == fullFlush
<1>1. /\ instrument \in Instruments /\ builders \in [D -> Builders]
      /\ hits \in Seq(Marks(D)) /\ Kept(builders, hits, D, sizeFormed(formed), idsFormed(formed))
      /\ \A b \in D : builders[b].hits = NoHits /\ builders[b].events = <<>>
  BY DEF VmmInv
<1>2. PerPacket <=> full
  BY <1>1, InstrumentAssumption DEF PerPacket, fullFlush
<1>3. /\ Tagged(formed, hits, D, packets)
      /\ \A b \in D : Belong(insideHits(builders[b]), b, hits)
  BY DEF Known
<1>4. DOMAIN hits = 1 .. Len(hits)
  <2> DEFINE M == Marks(D)
  <2>1. hits \in Seq(M) BY <1>1
  <2> HIDE DEF M
  <2> QED BY <2>1
<1>5. \A i \in 1 .. Len(hits) : hits[i].hit \in Hits /\ hits[i].builder \in D BY <1>1, MarkFields
<1>6. MaxMatchingTimeGap \in Nat BY BuilderAssumption
<1> SUFFICES ASSUME NEW e \in ToSet(formed), NEW i \in e.ids,
                    chronological(hits[i].builder), ~builders[hits[i].builder].split
             PROVE  /\ \A j \in DOMAIN hits : linked(i, j) => j \in e.ids
                    /\ \/ \A j \in e.ids : hits[j].hit.time <= hits[i].hit.time
                       \/ \E j \in e.ids : hits[j].hit.time > hits[i].hit.time /\ linked(i, j)
  BY DEF EventsAreComplete
<1> DEFINE b == hits[i].builder  v == builders[b]  E == e.event
           Q == IF full THEN {e.packet} ELSE Nat  S == eventsWith(formed, hits, b, Q)
\* The hits of an event formed.
<1>7. ASSUME NEW f \in ToSet(formed), NEW j \in f.ids
      PROVE  /\ f.packet \in Nat /\ j \in 1 .. Len(hits) /\ hits[j].hit \in hitsOfOne(f.event)
             /\ \A k \in hitsOfOne(f.event) : /\ k.id \in f.ids /\ k.id \in 1 .. Len(hits)
                                              /\ hits[k.id].hit = k
                                              /\ hits[k.id].builder = hits[j].builder
  <2>1. f.packet \in Nat /\ f.ids = idsOf(hitsOfOne(f.event)) BY <1>3 DEF Tagged
  <2>2. PICK a \in D : Belong(hitsOfOne(f.event), a, hits) BY <1>3 DEF Tagged
  <2>3. PICK h \in hitsOfOne(f.event) : j = h.id BY <2>1 DEF idsOf
  <2> QED BY <2>1, <2>2, <2>3 DEF Belong, idsOf
<1>8. /\ i \in 1 .. Len(hits) /\ b \in D /\ e.packet \in Nat /\ hits[i].hit \in hitsOfOne(E)
      /\ \A k \in hitsOfOne(E) : /\ k.id \in e.ids /\ k.id \in 1 .. Len(hits)
                                 /\ hits[k.id].hit = k /\ hits[k.id].builder = b
  BY <1>5, <1>7
<1>9. InTurnOfTime(b, hits) BY <1>4 DEF chronological, InTurnOfTime
<1>10. v \in Builders /\ v.split \in BOOLEAN /\ v.hits = NoHits /\ v.events = <<>>
  BY <1>1, <1>8, BuilderFields
<1>11. v.split = FALSE BY <1>10
<1>12. BuilderWhole(v, b, hits, formed, full) BY <1>8, <1>9, <1>11 DEF AllWhole
<1> HIDE DEF full
<1>13. /\ v.discarded = {} /\ WholeAmong(S, waiting(v))
       /\ full => \A f \in ToSet(formed) : \A j \in f.ids :
                    hits[j].builder = b => hits[j].packet = f.packet
  <2>1. Q \in Spans(full) BY <1>8 DEF Spans
  <2> QED BY <1>12, <2>1 DEF BuilderWhole
<1>14. E \in S BY <1>8 DEF eventsWith
<1>15. insideHits(v) = waiting(v) BY <1>10, <1>13, WaitingInside
<1>16. /\ Dense(hitsOfOne(E), hitsOfOne(E)) /\ Clear(hitsOfOne(E), waiting(v))
       /\ \A F \in S : E = F \/ Clear(hitsOfOne(E), hitsOfOne(F)) \/ Clear(hitsOfOne(F), hitsOfOne(E))
  BY <1>13, <1>14 DEF WholeAmong
<1>17. ASSUME NEW j \in DOMAIN hits, linked(i, j) PROVE j \in e.ids
  <2>1. hits[j].builder = b /\ (full => hits[i].packet = hits[j].packet)
    BY <1>2, <1>17 DEF linked
  <2>2. j \in 1 .. Len(hits) BY <1>4
  <2>3. hits[i].hit \in Hits /\ hits[j].hit \in Hits BY <1>5, <1>8, <2>2
  <2>4. j \in idsOf(hitsInside(builders, D)) \/ j \in idsFormed(formed)
    BY <1>1, <2>2 DEF Kept
  <2>5. CASE j \in idsOf(hitsInside(builders, D))
    <3>1. PICK h \in hitsInside(builders, D) : j = h.id BY <2>5 DEF idsOf
    <3>2. PICK a \in D : h \in insideHits(builders[a]) BY <3>1 DEF hitsInside
    <3>3. hits[j].hit = h /\ hits[j].builder = a BY <1>3, <3>1, <3>2 DEF Belong
    <3>4. h \in waiting(v) BY <1>15, <2>1, <3>2, <3>3
    <3> QED BY <1>8, <1>16, <1>17, <2>3, <3>3, <3>4, LinkedNotClear
  <2>6. CASE j \in idsFormed(formed)
    <3>1. PICK f \in ToSet(formed) : j \in f.ids BY <2>6 DEF idsFormed
    <3>2. f.packet \in Nat /\ hits[j].hit \in hitsOfOne(f.event) BY <1>7, <3>1
    <3>3. f.packet \in Q BY <1>13, <2>1, <3>1, <3>2
    <3>4. f.event \in S BY <2>1, <3>1, <3>3 DEF eventsWith
    <3>5. f.event = E BY <1>8, <1>16, <1>17, <2>3, <3>2, <3>4, LinkedNotClear
    <3>6. e.ids = idsOf(hitsOfOne(e.event)) /\ f.ids = idsOf(hitsOfOne(f.event))
      BY <1>3 DEF Tagged
    <3> QED BY <3>1, <3>5, <3>6
  <2> QED BY <2>4, <2>5, <2>6
<1>18. ASSUME NEW l \in e.ids, ~(hits[l].hit.time <= hits[i].hit.time)
       PROVE  \E j \in e.ids : hits[j].hit.time > hits[i].hit.time /\ linked(i, j)
  <2> DEFINE t == hits[i].hit.time
  <2>1. hits[l].hit \in hitsOfOne(E) /\ hits[l].hit \in Hits BY <1>5, <1>7
  <2>2. t \in Nat /\ hits[l].hit.time \in Nat BY <1>5, <1>8, <2>1, HitFields
  <2>3. t <= t /\ t < hits[l].hit.time BY <1>18, <2>2
  <2>4. PICK k \in hitsOfOne(E) : t < k.time /\ k.time <= t + MaxMatchingTimeGap
    BY <1>8, <1>16, <2>1, <2>2, <2>3 DEF Dense
  <2> DEFINE j == k.id
  <2>5. j \in e.ids /\ j \in 1 .. Len(hits) /\ hits[j].hit = k /\ hits[j].builder = b BY <1>8
  <2>6. k.time \in Nat BY <1>5, <2>5, HitFields
  <2>7. full => hits[i].packet = hits[j].packet BY <1>13, <2>5
  <2>8. t <= k.time + MaxMatchingTimeGap /\ k.time > t BY <1>6, <2>2, <2>4, <2>6
  <2>9. linked(i, j) BY <1>2, <2>4, <2>5, <2>7, <2>8 DEF linked
  <2> QED BY <2>5, <2>8, <2>9
<1> QED BY <1>17, <1>18

\* Where the gap of clusters is no more than that of events, as configured, the events
\* of builders that do not split are those of all hits at once: hits linked in time
\* are in one event, and only those, however the data is cut into packets and whatever
\* waits from one to the next.
THEOREM EventsAreWhole ==
  ASSUME GapsNested
  PROVE  VmmSpec => []EventsAreComplete
<1> DEFINE I == VmmInv(instrument, builders, counters, packets, hits, formed)
           J == /\ Known(builders, hits, formed, BuildersOf(instrument), packets)
                /\ AllWhole(builders, hits, formed, BuildersOf(instrument), fullFlush)
<1>1. VmmInit => J
  <2>1. ASSUME VmmInit PROVE J BY <2>1, WholeInitially
  <2> QED BY <2>1
<1>2. I /\ J /\ [VmmNext]_vmmVars => J'
  <2>1. ASSUME I, J, VmmNext PROVE J'
    <3> DEFINE D == BuildersOf(instrument)
    <3>1. /\ Known(builders', hits', formed', D, packets')
          /\ AllWhole(builders', hits', formed', D, fullFlush)
      BY <2>1, PacketIsWhole
    <3>2. instrument' = instrument BY <2>1 DEF VmmNext, ProcessPacket
    <3>3. BuildersOf(instrument') = D /\ fullFlush' = fullFlush BY <3>2 DEF fullFlush
    <3>4. J' <=> /\ Known(builders', hits', formed', BuildersOf(instrument'), packets')
                 /\ AllWhole(builders', hits', formed', BuildersOf(instrument'), fullFlush')
      BY DEF BuildersOf, numberOf
    <3> QED BY <3>1, <3>3, <3>4
  <2>2. ASSUME J, UNCHANGED vmmVars PROVE J' BY <2>2 DEF vmmVars, BuildersOf, numberOf, fullFlush
  <2> QED BY <2>1, <2>2
<1>3. I /\ J => EventsAreComplete
  <2>1. ASSUME I, J PROVE EventsAreComplete BY <2>1, WholeIsComplete
  <2> QED BY <2>1
<1>4. VmmSpec => []I BY VmmInvAlways
<1> QED BY <1>1, <1>2, <1>3, <1>4, PTL DEF VmmSpec

=============================================================================

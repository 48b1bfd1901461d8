---------------------------- MODULE CommonLemmas ----------------------------
(***************************************************************************)
(* Facts that the proofs about several components need: the remainder,     *)
(* smallest elements, induction, and the folds of the community modules.   *)
(* Induction is stated for sets, not for predicates: a fact is proved for  *)
(* all numbers, or all subsets of a finite set, by forming the set of      *)
(* those that have it.                                                     *)
(***************************************************************************)
EXTENDS Integers, FiniteSetsExt, SequencesExt, Functions, FiniteSetTheorems,
        SequenceTheorems, TLAPS

-----------------------------------------------------------------------------
\* The remainder of a number below twice the divisor.
LEMMA ModOfSmall ==
  ASSUME NEW n \in Nat, NEW a \in Nat, n > 0, a < n + n
  PROVE  a % n = IF a < n THEN a ELSE a - n
<1>1. a = n * (a \div n) + (a % n) /\ (a \div n) \in Int /\ a % n \in 0 .. (n - 1)
  OBVIOUS
<1> DEFINE q == a \div n  r == a % n
<1>2. a = n * q + r /\ q \in Int /\ r \in 0 .. (n - 1)
  BY <1>1
<1> HIDE DEF q, r
<1>3. CASE q <= -1
  <2>1. n * q <= -n
    BY <1>2, <1>3
  <2> QED
    BY <1>2, <2>1
<1>4. CASE q >= 2
  <2>1. n * q >= n + n
    BY <1>2, <1>4
  <2> QED
    BY <1>2, <2>1
<1>5. CASE q = 0
  BY <1>2, <1>5 DEF r
<1>6. CASE q = 1
  BY <1>2, <1>6 DEF r
<1> QED
  BY <1>2, <1>3, <1>4, <1>5, <1>6

\* Numbers less than n apart have different remainders by n.
LEMMA ModDistinct ==
  ASSUME NEW n \in Nat \ {0}, NEW a \in Nat, NEW b \in Nat,
         b < a, a - b < n
  PROVE  a % n # b % n
<1> DEFINE p == a \div n  q == b \div n
<1>1. a = n * p + (a % n) /\ p \in Int
  OBVIOUS
<1>2. b = n * q + (b % n) /\ q \in Int
  OBVIOUS
<1> SUFFICES ASSUME a % n = b % n PROVE FALSE
  OBVIOUS
<1>3. a - b = n * (p - q)
  BY <1>1, <1>2
<1>4. p - q \in Int
  BY <1>1, <1>2
<1> HIDE DEF p, q
<1>5. CASE p - q <= 0
  <2>1. n * (p - q) <= 0
    BY <1>4, <1>5
  <2> QED
    BY <1>3, <2>1
<1>6. CASE p - q >= 1
  <2>1. n * (p - q) >= n
    BY <1>4, <1>6
  <2> QED
    BY <1>3, <2>1
<1> QED
  BY <1>4, <1>5, <1>6

\* The successor, in the circular order, of a remainder.
LEMMA ModSuccessor ==
  ASSUME NEW n \in Nat \ {0}, NEW a \in Nat
  PROVE  (a + 1) % n = ((a % n) + 1) % n
<1> DEFINE q == a \div n  r == a % n  s == (a + 1) \div n  t == (a + 1) % n
<1>1. a = n * q + r /\ q \in Int /\ r \in 0 .. (n - 1)
  OBVIOUS
<1>2. a + 1 = n * s + t /\ s \in Int /\ t \in 0 .. (n - 1)
  OBVIOUS
<1>3. (r + 1) % n = IF r + 1 < n THEN r + 1 ELSE r + 1 - n
  <2>1. r \in Nat /\ r + 1 \in Nat /\ r + 1 < n + n
    BY <1>1
  <2> HIDE DEF r
  <2> QED
    BY <2>1, ModOfSmall
<1> HIDE DEF q, r, s, t
<1>4. n * (s - q) = r + 1 - t
  BY <1>1, <1>2
<1>5. s - q \in Int
  BY <1>1, <1>2
<1>6. CASE s - q <= -1
  <2>1. n * (s - q) <= -n
    BY <1>5, <1>6
  <2> QED
    BY <1>1, <1>2, <1>4, <2>1
<1>7. CASE s - q >= 2
  <2>1. n * (s - q) >= n + n
    BY <1>5, <1>7
  <2> QED
    BY <1>1, <1>2, <1>4, <2>1
<1>8. CASE s - q = 0
  BY <1>1, <1>2, <1>3, <1>4, <1>8
<1>9. CASE s - q = 1
  BY <1>1, <1>2, <1>3, <1>4, <1>9
<1>10. t = (r + 1) % n
  BY <1>1, <1>2, <1>5, <1>6, <1>7, <1>8, <1>9
<1> QED
  BY <1>10 DEF r, t

\* Going once around leads back.
LEMMA ModPeriod ==
  ASSUME NEW n \in Nat \ {0}, NEW a \in Nat
  PROVE  (a + n) % n = a % n
<1> DEFINE p == (a + n) \div n  q == a \div n  t == (a + n) % n  r == a % n
<1>1. a + n = n * p + t /\ p \in Int /\ t \in 0 .. (n - 1)
  OBVIOUS
<1>2. a = n * q + r /\ q \in Int /\ r \in 0 .. (n - 1)
  OBVIOUS
<1> HIDE DEF p, q, r, t
<1>3. n * (p - q) = n + r - t /\ p - q \in Int
  BY <1>1, <1>2
<1>4. CASE p - q <= 0
  <2>1. n * (p - q) <= 0
    BY <1>3, <1>4
  <2> QED
    BY <1>1, <1>2, <1>3, <2>1
<1>5. CASE p - q >= 2
  <2>1. n * (p - q) >= n + n
    BY <1>3, <1>5
  <2> QED
    BY <1>1, <1>2, <1>3, <2>1
<1>6. CASE p - q = 1
  BY <1>1, <1>2, <1>3, <1>6
<1>7. t = r
  BY <1>1, <1>2, <1>3, <1>4, <1>5, <1>6
<1> QED
  BY <1>7 DEF r, t

\* The remainder of a sum whose second term is smaller than the divisor.
LEMMA ModOfSum ==
  ASSUME NEW n \in Nat \ {0}, NEW a \in Nat, NEW d \in 0 .. (n - 1)
  PROVE  (a + d) % n = IF (a % n) + d < n THEN (a % n) + d ELSE (a % n) + d - n
<1> DEFINE q == a \div n  r == a % n  p == (a + d) \div n  t == (a + d) % n
<1>1. a = n * q + r /\ q \in Int /\ r \in 0 .. (n - 1)
  OBVIOUS
<1>2. a + d = n * p + t /\ p \in Int /\ t \in 0 .. (n - 1)
  OBVIOUS
<1> HIDE DEF q, r, p, t
<1>3. n * (p - q) = r + d - t /\ p - q \in Int
  BY <1>1, <1>2
<1>4. CASE p - q <= -1
  <2>1. n * (p - q) <= -n
    BY <1>3, <1>4
  <2> QED
    BY <1>1, <1>2, <1>3, <2>1
<1>5. CASE p - q >= 2
  <2>1. n * (p - q) >= n + n
    BY <1>3, <1>5
  <2> QED
    BY <1>1, <1>2, <1>3, <2>1
<1>6. CASE p - q = 0
  BY <1>1, <1>2, <1>3, <1>6 DEF t, r
<1>7. CASE p - q = 1
  BY <1>1, <1>2, <1>3, <1>7 DEF t, r
<1> QED
  BY <1>3, <1>4, <1>5, <1>6, <1>7

-----------------------------------------------------------------------------
\* A set of natural numbers that is not empty has a smallest.
LEMMA Smallest ==
  ASSUME NEW S \in SUBSET Nat, S # {}
  PROVE  \E m \in S : \A k \in S : m <= k
<1>1. \E m \in S : \A k \in S : ~(<<k, m>> \in OpToRel(<, Nat))
  BY NatLessThanWellFounded, WFMin, Zenon
<1>2. ASSUME NEW m \in S, NEW k \in S, ~(<<k, m>> \in OpToRel(<, Nat))
      PROVE  m <= k
  BY <1>2 DEF OpToRel
<1> QED
  BY <1>1, <1>2, Zenon

\* Min and Max of FiniteSetsExt are what their names say.
LEMMA MinIsSmallest ==
  ASSUME NEW S \in SUBSET Nat, S # {}
  PROVE  Min(S) \in S /\ \A k \in S : Min(S) <= k
BY Smallest DEF Min

LEMMA MaxOfInterval ==
  ASSUME NEW n \in Nat \ {0}
  PROVE  Max(1 .. n) = n
BY DEF Max

LEMMA MaxIsLargest ==
  ASSUME NEW n \in Nat, NEW S \in SUBSET (1 .. n), S # {}
  PROVE  Max(S) \in S /\ \A k \in S : k <= Max(S)
<1> DEFINE T == {m \in Nat : n - m \in S}
<1>0. ASSUME NEW k \in S PROVE n - k \in T /\ k \in Nat
  <2>1. n - k \in Nat /\ n - (n - k) = k /\ k \in Nat
    OBVIOUS
  <2> QED BY <2>1
<1>1. T \in SUBSET Nat /\ T # {}
  BY <1>0
<1>2. PICK m \in T : \A k \in T : m <= k
  <2> HIDE DEF T
  <2> QED BY <1>1, Smallest
<1> DEFINE x == n - m
<1>3. x \in S
  BY <1>2
<1>4. ASSUME NEW k \in S PROVE k <= x
  <2>1. m <= n - k /\ m \in Nat /\ k \in Nat
    BY <1>0, <1>2
  <2> QED BY <2>1
<1> QED
  BY <1>3, <1>4 DEF Max

\* Induction over the numbers, for the set of those that have a property.
LEMMA NumbersAll ==
  ASSUME NEW S \in SUBSET Nat, 0 \in S, \A n \in S : n + 1 \in S
  PROVE  S = Nat
<1> SUFFICES ASSUME Nat \ S # {} PROVE FALSE
  OBVIOUS
<1>1. PICK m \in Nat \ S : \A k \in Nat \ S : m <= k
  BY Smallest
<1>2. m # 0 /\ m - 1 \in Nat /\ m - 1 \notin S
  BY <1>1
<1> QED
  BY <1>1, <1>2

\* ... and over the numbers up to n.
LEMMA NumbersUpTo ==
  ASSUME NEW n \in Nat, NEW S \in SUBSET (0 .. n), 0 \in S,
         \A k \in S : k < n => k + 1 \in S
  PROVE  S = 0 .. n
<1> DEFINE T == S \cup {k \in Nat : k > n}
<1>1. T \in SUBSET Nat /\ 0 \in T
  <2>1. \A k \in S : k \in Nat
    OBVIOUS
  <2> QED BY <2>1
<1>2. ASSUME NEW k \in T PROVE k + 1 \in T
  <2>1. CASE k \in S /\ k < n
    BY <2>1
  <2>2. CASE ~(k < n)
    BY <2>2
  <2> QED BY <2>1, <2>2
<1>3. T = Nat
  <2> HIDE DEF T
  <2> QED BY <1>1, <1>2, NumbersAll
<1>4. ASSUME NEW k \in 0 .. n PROVE k \in S
  BY <1>3
<1> QED
  BY <1>4

\* A smallest of the sets in G.
LEMMA SmallestSubset ==
  ASSUME NEW D, IsFiniteSet(D), NEW G \in SUBSET SUBSET D, G # {}
  PROVE  \E T \in G : \A U \in G : U \subseteq T => U = T
<1>1. G \subseteq FiniteSubsetsOf(D)
  BY FS_FiniteSubsetsOfFinite
<1>2. PICK T \in G : \A U \in G : ~(<<U, T>> \in StrictSubsetOrdering(D))
  BY <1>1, FS_StrictSubsetOrderingWellFounded, WFMin
<1> QED
  BY <1>2 DEF StrictSubsetOrdering
-----------------------------------------------------------------------------
(***************************************************************************)
(* What MapThenFoldSet recurs over: the subsets of a finite set D, from    *)
(* which pick takes one element after the other.                           *)
(***************************************************************************)
Folding(g, D, base, pick, step) ==
  \A s \in SUBSET D :
    g[s] = IF s = {} THEN base ELSE step[<<pick[s], g[s \ {pick[s]}]>>]

LEMMA FoldExists ==
  ASSUME NEW D, IsFiniteSet(D), NEW S, NEW base \in S,
         NEW pick, \A s \in SUBSET D : s # {} => pick[s] \in s,
         NEW step \in [D \X S -> S]
  PROVE  \E g \in [SUBSET D -> S] : Folding(g, D, base, pick, step)
<1> DEFINE upTo(n) == {s \in SUBSET D : Cardinality(s) <= n}
           body(g, s) == IF s = {} THEN base
                         ELSE step[<<pick[s], g[s \ {pick[s]}]>>]
           has(n) == \E g \in [SUBSET D -> S] :
                       \A s \in upTo(n) : g[s] = body(g, s)
           F == {n \in Nat : has(n)}
<1>1. \A s \in SUBSET D : IsFiniteSet(s) /\ Cardinality(s) \in Nat
                          /\ Cardinality(s) <= Cardinality(D)
  BY FS_Subset, FS_CardinalityType
<1>2. \A s \in SUBSET D : s # {} =>
         /\ s \ {pick[s]} \in SUBSET D /\ pick[s] \in D
         /\ Cardinality(s \ {pick[s]}) = Cardinality(s) - 1
  BY <1>1, FS_RemoveElement
<1>3. has(0)
  <2>1. upTo(0) = {{}}
    BY <1>1, FS_EmptySet
  <2>2. [s \in SUBSET D |-> base] \in [SUBSET D -> S]
    OBVIOUS
  <2> QED
    BY <2>1, <2>2
<1>4. ASSUME NEW n \in Nat, has(n) PROVE has(n + 1)
  <2>1. PICK g \in [SUBSET D -> S] : \A s \in upTo(n) : g[s] = body(g, s)
    BY <1>4
  <2> DEFINE h == [s \in SUBSET D |->
                     IF s \in upTo(n) \/ s = {} THEN g[s]
                     ELSE step[<<pick[s], g[s \ {pick[s]}]>>]]
  <2>2. h \in [SUBSET D -> S]
    BY <1>2
  <2>3. ASSUME NEW s \in upTo(n + 1)
        PROVE  h[s] = body(h, s)
    <3>1. CASE s = {}
      <4>1. s \in upTo(n)
        BY <1>1, <3>1, FS_EmptySet
      <4> QED
        BY <2>1, <3>1, <4>1
    <3>2. CASE s # {}
      <4> DEFINE r == s \ {pick[s]}
      <4>1. r \in SUBSET D /\ Cardinality(r) <= n
        BY <1>1, <1>2, <3>2
      <4>2. r \in upTo(n) /\ s \in SUBSET D
        BY <4>1
      <4>3. h[r] = g[r]
        BY <4>2
      <4>4. CASE s \in upTo(n)
        <5>1. h[s] = g[s] /\ g[s] = step[<<pick[s], g[r]>>]
          BY <2>1, <3>2, <4>4
        <5> QED BY <3>2, <4>3, <5>1
      <4>5. CASE s \notin upTo(n)
        <5>1. h[s] = step[<<pick[s], g[r]>>]
          BY <3>2, <4>2, <4>5
        <5> QED BY <3>2, <4>3, <5>1
      <4> QED
        BY <4>4, <4>5
    <3> QED
      BY <3>1, <3>2
  <2> HIDE DEF h, upTo, body
  <2> QED
    BY <2>2, <2>3
<1>5. F = Nat
  <2> HIDE DEF has
  <2>1. F \in SUBSET Nat /\ 0 \in F /\ \A n \in F : n + 1 \in F
    BY <1>3, <1>4
  <2> HIDE DEF F
  <2> QED BY <2>1, NumbersAll
<1>6. Cardinality(D) \in Nat /\ upTo(Cardinality(D)) = SUBSET D
  BY <1>1, FS_CardinalityType
<1>7. PICK g \in [SUBSET D -> S] : \A s \in SUBSET D : g[s] = body(g, s)
  <2>1. has(Cardinality(D))
    <3> HIDE DEF has
    <3> QED BY <1>5, <1>6
  <2> HIDE DEF body, upTo
  <2> QED BY <1>6, <2>1
<1> QED
  BY <1>7 DEF Folding

\* A function that recurs in that way, as far as its values are in S, does.
LEMMA FoldTyped ==
  ASSUME NEW D, IsFiniteSet(D), NEW S, NEW base \in S,
         NEW pick, \A s \in SUBSET D : s # {} => pick[s] \in s,
         NEW step \in [D \X S -> S],
         NEW g, g[{}] = base,
         \A s \in SUBSET D : (s # {} /\ g[s \ {pick[s]}] \in S) =>
            g[s] = step[<<pick[s], g[s \ {pick[s]}]>>]
  PROVE  (\A s \in SUBSET D : g[s] \in S) /\ Folding(g, D, base, pick, step)
<1>1. \A s \in SUBSET D : g[s] \in S
  <2> DEFINE G == {s \in SUBSET D : g[s] \notin S}
  <2> SUFFICES ASSUME G # {} PROVE FALSE
    OBVIOUS
  <2>1. PICK T \in G : \A U \in G : U \subseteq T => U = T
    <3>1. G \in SUBSET SUBSET D
      OBVIOUS
    <3> HIDE DEF G
    <3> QED BY <3>1, SmallestSubset
  <2>2. T # {} /\ T \in SUBSET D /\ pick[T] \in T
    BY <2>1
  <2>3. g[T \ {pick[T]}] \in S /\ pick[T] \in D
    BY <2>1, <2>2
  <2>4. g[T] = step[<<pick[T], g[T \ {pick[T]}]>>]
    BY <2>2, <2>3
  <2>5. <<pick[T], g[T \ {pick[T]}]>> \in D \X S
    BY <2>3
  <2>6. g[T] \in S
    BY <2>4, <2>5
  <2> QED
    BY <2>1, <2>6
<1> QED
  BY <1>1 DEF Folding

\* FoldLeft recurs over the sets of indices, taking the largest last:
\* step[<<i, w>>] is what element i makes of w.
FoldingLeft(g, n, base, step) ==
  \A s \in SUBSET (1 .. n) :
    g[s] = IF s = {} THEN base ELSE step[<<Max(s), g[s \ {Max(s)}]>>]

\* The same as far as the values of g are in S.
FoldingLeftIn(g, n, S, base, step) ==
  /\ g[{}] = base
  /\ \A s \in SUBSET (1 .. n) : (s # {} /\ g[s \ {Max(s)}] \in S) =>
       g[s] = step[<<Max(s), g[s \ {Max(s)}]>>]

\* What the elements leave behind, one after the other.
TakingInTurn(g, n, S, base, step) ==
  /\ g[1 .. 0] = base
  /\ \A k \in 0 .. n : g[1 .. k] \in S
  /\ \A k \in 0 .. n : k < n => g[1 .. (k + 1)] = step[<<k + 1, g[1 .. k]>>]

\* A function that recurs in that way exists.
LEMMA FoldsLeft ==
  ASSUME NEW n \in Nat, NEW S, NEW base \in S, NEW step \in [(1 .. n) \X S -> S]
  PROVE  \E g \in [SUBSET (1 .. n) -> S] : FoldingLeft(g, n, base, step)
<1> DEFINE D == 1 .. n
           pick == [s \in SUBSET D |-> Max(s)]
<1>1. IsFiniteSet(D)
  BY FS_Interval
<1>2. \A s \in SUBSET D : s # {} => Max(s) \in s /\ pick[s] = Max(s)
  BY MaxIsLargest
<1>3. \A s \in SUBSET D : s # {} => pick[s] \in s
  BY <1>2
<1> HIDE DEF D, pick
<1>4. step \in [D \X S -> S]
  BY DEF D
<1>5. PICK g \in [SUBSET D -> S] : Folding(g, D, base, pick, step)
  BY <1>1, <1>3, <1>4, FoldExists
<1>6. \A s \in SUBSET D :
         g[s] = IF s = {} THEN base ELSE step[<<Max(s), g[s \ {Max(s)}]>>]
  BY <1>2, <1>5 DEF Folding
<1> QED
  BY <1>6 DEF D, FoldingLeft

\* A function that does takes the elements one after the other.
LEMMA FoldsLeftUp ==
  ASSUME NEW n \in Nat, NEW S, NEW base \in S, NEW step \in [(1 .. n) \X S -> S],
         NEW g, FoldingLeftIn(g, n, S, base, step)
  PROVE  TakingInTurn(g, n, S, base, step)
<1>1. g[1 .. 0] = base
  <2>1. 1 .. 0 = {}
    OBVIOUS
  <2> QED BY <2>1 DEF FoldingLeftIn
<1>2. ASSUME NEW k \in 0 .. n, k < n, g[1 .. k] \in S
      PROVE  g[1 .. (k + 1)] = step[<<k + 1, g[1 .. k]>>] /\ g[1 .. (k + 1)] \in S
  <2> DEFINE s == 1 .. (k + 1)
  <2>1. k + 1 \in Nat \ {0} /\ k + 1 \in 1 .. n
    BY <1>2
  <2>2. Max(s) = k + 1
    BY <2>1, MaxOfInterval
  <2>3. s # {} /\ s \in SUBSET (1 .. n) /\ s \ {k + 1} = 1 .. k
    <3>1. k + 1 \in s /\ s \in SUBSET (1 .. n)
      BY <2>1
    <3>2. s \ {k + 1} = 1 .. k
      BY <2>1
    <3> QED
      BY <3>1, <3>2
  <2> HIDE DEF s
  <2>4. g[s] = step[<<k + 1, g[1 .. k]>>]
    BY <1>2, <2>2, <2>3 DEF FoldingLeftIn
  <2>5. step[<<k + 1, g[1 .. k]>>] \in S
    BY <1>2, <2>1
  <2> QED
    BY <2>4, <2>5 DEF s
<1> DEFINE F == {k \in 0 .. n : g[1 .. k] \in S}
<1>3. F = 0 .. n
  <2>1. F \in SUBSET (0 .. n) /\ 0 \in F
    BY <1>1
  <2>2. ASSUME NEW k \in F, k < n PROVE k + 1 \in F
    <3>1. k \in 0 .. n /\ g[1 .. k] \in S /\ k + 1 \in 0 .. n
      BY <2>2
    <3>2. g[1 .. (k + 1)] \in S
      BY <1>2, <2>2, <3>1
    <3> QED
      BY <3>1, <3>2
  <2> HIDE DEF F
  <2> QED
    BY <2>1, <2>2, NumbersUpTo
<1> QED
  BY <1>1, <1>2, <1>3 DEF TakingInTurn

\* FlattenSeq() appends one sequence after the other; flat[k] is what the first k
\* of them come to.
Flattening(flat, seqs, T) ==
  /\ flat[0] = <<>>
  /\ \A k \in 0 .. Len(seqs) : flat[k] \in Seq(T)
  /\ \A k \in 0 .. Len(seqs) : k < Len(seqs) => flat[k + 1] = flat[k] \o seqs[k + 1]

LEMMA FlattensUp ==
  ASSUME NEW T, NEW seqs \in Seq(Seq(T))
  PROVE  \E flat : Flattening(flat, seqs, T) /\ FlattenSeq(seqs) = flat[Len(seqs)]
<1> DEFINE n == Len(seqs)  S == Seq(T)
<1>1. n \in Nat /\ DOMAIN seqs = 1 .. n /\ (\A i \in 1 .. n : seqs[i] \in S) /\ <<>> \in S
  OBVIOUS
<1>2. CASE n = 0
  <2> DEFINE flat == [k \in {0} |-> <<>>]
  <2>1. seqs = <<>> /\ FlattenSeq(seqs) = <<>>
    BY <1>2 DEF FlattenSeq
  <2>2. 0 .. n = {0} /\ flat[0] = <<>>
    BY <1>2
  <2> HIDE DEF n, flat, S
  <2>3. flat[0] = <<>> /\ flat[n] = <<>> /\ \A k \in 0 .. n : flat[k] \in S /\ ~(k < n)
    BY <1>1, <1>2, <2>2
  <2>4. Flattening(flat, seqs, T)
    BY <2>3, Zenon DEF Flattening, n, S
  <2>5. FlattenSeq(seqs) = flat[Len(seqs)]
    BY <2>1, <2>3 DEF n
  <2> QED BY <2>4, <2>5
<1>3. CASE n # 0
  <2> DEFINE step == [q \in (1 .. n) \X S |-> IF q[1] = 1 THEN seqs[1] ELSE q[2] \o seqs[q[1]]]
             P(f) == f = [i \in 1 .. n |-> IF i = 1 THEN seqs[i] ELSE f[i - 1] \o seqs[i]]
             flatten == CHOOSE f : P(f)
             flat == [k \in 0 .. n |-> IF k = 0 THEN <<>> ELSE flatten[k]]
  <2>1. ASSUME NEW w \in S, NEW i \in 1 .. n
        PROVE  w \o seqs[i] \in S
    BY <1>1
  <2>2. step \in [(1 .. n) \X S -> S]
    <3> HIDE DEF n
    <3>1. 1 \in 1 .. n
      BY <1>1, <1>3
    <3>2. ASSUME NEW q \in (1 .. n) \X S
          PROVE  (IF q[1] = 1 THEN seqs[1] ELSE q[2] \o seqs[q[1]]) \in S
      <4>1. q[1] \in 1 .. n /\ q[2] \in S
        OBVIOUS
      <4> HIDE DEF S
      <4> QED BY <1>1, <2>1, <3>1, <4>1
    <3> HIDE DEF S
    <3> QED BY <3>2
  <2>3. \E f : P(f)
    <3>1. \A i \in 1 .. n, w \in S :
            step[<<i, w>>] = IF i = 1 THEN seqs[i] ELSE w \o seqs[i]
      <4> HIDE DEF n, S
      <4> QED OBVIOUS
    <3>2. n \in Nat /\ <<>> \in S
      BY <1>1
    <3> HIDE DEF n, S, step
    <3>3. PICK g \in [SUBSET (1 .. n) -> S] : FoldingLeft(g, n, <<>>, step)
      BY ONLY <2>2, <3>2, FoldsLeft
    <3>4. /\ \A k \in 0 .. n : g[1 .. k] \in S
          /\ \A k \in 0 .. n : k < n => g[1 .. (k + 1)] = step[<<k + 1, g[1 .. k]>>]
      <4>1. FoldingLeftIn(g, n, S, <<>>, step)
        BY <3>3 DEF FoldingLeft, FoldingLeftIn
      <4>2. TakingInTurn(g, n, S, <<>>, step)
        BY ONLY <2>2, <3>2, <4>1, FoldsLeftUp
      <4> QED
        BY <4>2 DEF TakingInTurn
    <3> DEFINE f == [i \in 1 .. n |-> g[1 .. i]]
    <3>5. ASSUME NEW i \in 1 .. n
          PROVE  f[i] = IF i = 1 THEN seqs[i] ELSE f[i - 1] \o seqs[i]
      <4>1. i - 1 \in 0 .. n /\ i - 1 < n /\ (i - 1) + 1 = i
            /\ (i # 1 => i - 1 \in 1 .. n)
        BY <1>1
      <4>2. g[1 .. i] = step[<<i, g[1 .. (i - 1)]>>] /\ g[1 .. (i - 1)] \in S
        BY <3>4, <4>1
      <4>3. step[<<i, g[1 .. (i - 1)]>>] = IF i = 1 THEN seqs[i] ELSE g[1 .. (i - 1)] \o seqs[i]
        BY <3>1, <4>2
      <4>4. f[i] = g[1 .. i] /\ (i # 1 => f[i - 1] = g[1 .. (i - 1)])
        BY <4>1
      <4> HIDE DEF f
      <4> QED BY <4>2, <4>3, <4>4
    <3>6. P(f)
      <4>1. f = [i \in 1 .. n |-> f[i]]
        OBVIOUS
      <4> HIDE DEF f
      <4> QED BY <3>5, <4>1
    <3> HIDE DEF P, f
    <3> QED BY <3>6
  <2>4. P(flatten)
    <3> HIDE DEF P
    <3> QED BY <2>3
  <2>5. FlattenSeq(seqs) = flatten[n]
    BY <1>3 DEF FlattenSeq
  <2> HIDE DEF flatten
  <2>6. \A i \in 1 .. n : flatten[i] = IF i = 1 THEN seqs[i] ELSE flatten[i - 1] \o seqs[i]
    <3> HIDE DEF n
    <3> QED BY <2>4
  <2>7. /\ flat[0] = <<>> /\ \A k \in 1 .. n : flat[k] = flatten[k]
    <3>1. 0 \in 0 .. n /\ \A k \in 1 .. n : k \in 0 .. n /\ k # 0
      BY <1>1
    <3> HIDE DEF n
    <3> QED BY <3>1
  <2> HIDE DEF flat, n, S
  <2>8. ASSUME NEW k \in 0 .. n, k < n, flat[k] \in S
        PROVE  flat[k + 1] = flat[k] \o seqs[k + 1] /\ flat[k + 1] \in S
    <3>1. k + 1 \in 1 .. n /\ (k # 0 => k \in 1 .. n) /\ (k + 1) - 1 = k /\ (k + 1 = 1 <=> k = 0)
      BY <1>1, <2>8
    <3>2. flat[k + 1] = IF k = 0 THEN seqs[k + 1] ELSE flat[k] \o seqs[k + 1]
      BY <2>6, <2>7, <3>1
    <3>3. seqs[k + 1] \in S /\ <<>> \o seqs[k + 1] = seqs[k + 1]
      BY <1>1, <3>1 DEF S
    <3> QED BY <2>1, <2>7, <2>8, <3>1, <3>2, <3>3
  <2> DEFINE F == {k \in 0 .. n : flat[k] \in S}
  <2>9. F = 0 .. n
    <3>1. F \in SUBSET (0 .. n) /\ 0 \in F
      BY <1>1, <2>7
    <3>2. ASSUME NEW k \in F, k < n PROVE k + 1 \in F
      <4>1. k \in 0 .. n /\ flat[k] \in S /\ k + 1 \in 0 .. n
        BY <1>1, <3>2
      <4>2. flat[k + 1] \in S
        BY <2>8, <3>2, <4>1
      <4> QED BY <4>1, <4>2
    <3> HIDE DEF F
    <3> QED BY <1>1, <3>1, <3>2, NumbersUpTo
  <2>10. /\ \A k \in 0 .. n : flat[k] \in S
         /\ \A k \in 0 .. n : k < n => flat[k + 1] = flat[k] \o seqs[k + 1]
    BY <2>8, <2>9
  <2>11. Flattening(flat, seqs, T)
    BY <2>7, <2>10, Zenon DEF Flattening, n, S
  <2>12. FlattenSeq(seqs) = flat[Len(seqs)]
    <3>1. n \in 1 .. n
      BY <1>1, <1>3
    <3>2. FlattenSeq(seqs) = flat[n]
      BY <2>5, <2>7, <3>1
    <3> QED BY <3>2 DEF n
  <2> QED BY <2>11, <2>12
<1> QED
  BY <1>2, <1>3

\* What a tuple lists is finite.
LEMMA FiniteTuple ==
  ASSUME NEW n \in Nat, NEW s
  PROVE  IsFiniteSet({s[i] : i \in 1 .. n})
<1> DEFINE T == {s[i] : i \in 1 .. n}
           f == [i \in 1 .. n |-> s[i]]
<1>1. f \in Surjection(1 .. n, T)
  BY DEF Surjection
<1>2. IsFiniteSet(1 .. n)
  BY FS_Interval
<1> HIDE DEF T, f
<1>3. IsFiniteSet(T)
  BY <1>1, <1>2, FS_Surjection
<1> QED BY <1>3 DEF T
-----------------------------------------------------------------------------
(***************************************************************************)
(* Sums of integers over finite sets: SumFunctionOnSet.                    *)
(***************************************************************************)
anyOf(s) == CHOOSE x \in s : TRUE

\* g is what SumFunctionOnSet(f, D) recurs with.
Summing(g, f, D) ==
  /\ IsFiniteSet(D) /\ g \in [SUBSET D -> Int] /\ \A x \in D : f[x] \in Int
  /\ \A s \in SUBSET D :
       g[s] = IF s = {} THEN 0 ELSE f[anyOf(s)] + g[s \ {anyOf(s)}]

LEMMA SumFolds ==
  ASSUME NEW D, IsFiniteSet(D), NEW f, \A x \in D : f[x] \in Int
  PROVE  \E g : Summing(g, f, D) /\ SumFunctionOnSet(f, D) = g[D]
<1> DEFINE pick == [s \in SUBSET D |-> anyOf(s)]
           step == [p \in D \X Int |-> f[p[1]] + p[2]]
           P(g) == g = [s \in SUBSET D |-> IF s = {} THEN 0
                                           ELSE f[anyOf(s)] + g[s \ {anyOf(s)}]]
           iter == CHOOSE g : P(g)
<1>1. \A s \in SUBSET D : s # {} => anyOf(s) \in s /\ pick[s] = anyOf(s)
  BY DEF anyOf
<1>2. step \in [D \X Int -> Int]
  OBVIOUS
<1>3. PICK g \in [SUBSET D -> Int] : Folding(g, D, 0, pick, step)
  <2>1. \A s \in SUBSET D : s # {} => pick[s] \in s
    BY <1>1
  <2>2. 0 \in Int
    OBVIOUS
  <2> HIDE DEF pick, step
  <2> QED BY <1>2, <2>1, <2>2, FoldExists
<1>4. ASSUME NEW s \in SUBSET D
      PROVE  g[s] = IF s = {} THEN 0 ELSE f[anyOf(s)] + g[s \ {anyOf(s)}]
  <2>1. CASE s = {}
    BY <1>3, <2>1 DEF Folding
  <2>2. CASE s # {}
    <3>1. anyOf(s) \in D /\ s \ {anyOf(s)} \in SUBSET D
      BY <1>1, <2>2
    <3>2. step[<<anyOf(s), g[s \ {anyOf(s)}]>>] = f[anyOf(s)] + g[s \ {anyOf(s)}]
      BY <3>1
    <3> HIDE DEF step, pick
    <3> QED BY <1>1, <1>3, <2>2, <3>2 DEF Folding
  <2> QED BY <2>1, <2>2
<1>5. P(g)
  BY <1>4
<1>6. P(iter)
  <2> HIDE DEF P
  <2> QED BY <1>5
<1>7. \A s \in SUBSET D : g[s] = iter[s]
  <2> DEFINE G == {s \in SUBSET D : g[s] # iter[s]}
  <2> HIDE DEF iter
  <2> SUFFICES ASSUME G # {} PROVE FALSE
    OBVIOUS
  <2>1. PICK T \in G : \A U \in G : U \subseteq T => U = T
    <3>1. G \in SUBSET SUBSET D
      OBVIOUS
    <3> HIDE DEF G
    <3> QED BY <3>1, SmallestSubset
  <2>2. T \in SUBSET D /\ g[T] # iter[T]
    BY <2>1
  <2>3. T # {}
    BY <1>4, <1>6, <2>2
  <2>4. anyOf(T) \in T
    BY <1>1, <2>2, <2>3
  <2>5. g[T \ {anyOf(T)}] = iter[T \ {anyOf(T)}]
    BY <2>1, <2>4
  <2> QED
    BY <1>4, <1>6, <2>2, <2>3, <2>5
<1>8. SumFunctionOnSet(f, D) = iter[D]
  BY DEF SumFunctionOnSet, FoldFunctionOnSet, MapThenFoldSet, anyOf
<1> HIDE DEF iter
<1> QED
  BY <1>4, <1>7, <1>8 DEF Summing

\* The order in which the elements are taken does not matter.
LEMMA SummingAny ==
  ASSUME NEW D, NEW f, NEW g, Summing(g, f, D), NEW s \in SUBSET D, NEW y \in s
  PROVE  g[s] = f[y] + g[s \ {y}]
<1> DEFINE ok(S) == \A x \in S : g[S] = f[x] + g[S \ {x}]
           G == {S \in SUBSET D : ~ok(S)}
<1>0. IsFiniteSet(D) /\ g \in [SUBSET D -> Int] /\ \A x \in D : f[x] \in Int
  BY DEF Summing
<1> SUFFICES ASSUME G # {} PROVE FALSE
  OBVIOUS
<1>1. PICK T \in G : \A U \in G : U \subseteq T => U = T
  <2>1. G \in SUBSET SUBSET D
    OBVIOUS
  <2> HIDE DEF G
  <2> QED BY <1>0, <2>1, SmallestSubset
<1>2. T \in SUBSET D /\ ~ok(T)
  BY <1>1
<1>3. PICK x \in T : g[T] # f[x] + g[T \ {x}]
  BY <1>2
<1> DEFINE p == anyOf(T)
<1>4. p \in T
  BY <1>3 DEF anyOf
<1>5. g[T] = f[p] + g[T \ {p}]
  BY <1>2, <1>4 DEF Summing
<1> HIDE DEF p
<1>6. p # x
  BY <1>3, <1>5
<1> DEFINE R == (T \ {p}) \ {x}
<1>7. ok(T \ {p}) /\ ok(T \ {x})
  <2>1. \A U \in SUBSET D : U \subseteq T /\ U # T => ok(U)
    <3> HIDE DEF ok
    <3> QED BY <1>1
  <2>2. T \ {p} \in SUBSET D /\ T \ {p} \subseteq T /\ T \ {p} # T
    BY <1>2, <1>4
  <2>3. T \ {x} \in SUBSET D /\ T \ {x} \subseteq T /\ T \ {x} # T
    BY <1>2, <1>3
  <2> HIDE DEF ok
  <2> QED BY <2>1, <2>2, <2>3
<1>8. x \in T \ {p} /\ p \in T \ {x} /\ R = (T \ {x}) \ {p}
  BY <1>3, <1>4, <1>6
<1>9. g[T \ {p}] = f[x] + g[R] /\ g[T \ {x}] = f[p] + g[R]
  BY <1>7, <1>8
<1>10. R \in SUBSET D /\ p \in D /\ x \in D
  BY <1>2, <1>3, <1>4
<1>11. g[R] \in Int /\ f[p] \in Int /\ f[x] \in Int
  BY <1>0, <1>10
<1> HIDE DEF R
<1> QED
  BY <1>3, <1>5, <1>9, <1>11

LEMMA SumEmpty == \A f : SumFunctionOnSet(f, {}) = 0
BY FS_EmptySet, SumFolds DEF Summing

LEMMA SumType ==
  ASSUME NEW D, IsFiniteSet(D), NEW f, \A x \in D : f[x] \in Int
  PROVE  SumFunctionOnSet(f, D) \in Int
<1>1. PICK g : Summing(g, f, D) /\ SumFunctionOnSet(f, D) = g[D]
  BY SumFolds
<1> QED
  BY <1>1 DEF Summing

\* Two functions that agree on a set have the same sum over it.
LEMMA SumSame ==
  ASSUME NEW D, IsFiniteSet(D), NEW f, \A x \in D : f[x] \in Int,
         NEW h, \A x \in D : h[x] = f[x]
  PROVE  SumFunctionOnSet(h, D) = SumFunctionOnSet(f, D)
<1>1. PICK g : Summing(g, f, D) /\ SumFunctionOnSet(f, D) = g[D]
  BY SumFolds
<1>2. PICK k : Summing(k, h, D) /\ SumFunctionOnSet(h, D) = k[D]
  BY SumFolds
<1> DEFINE G == {s \in SUBSET D : g[s] # k[s]}
<1> SUFFICES ASSUME G # {} PROVE FALSE
  BY <1>1, <1>2
<1>3. PICK T \in G : \A U \in G : U \subseteq T => U = T
  <2>1. G \in SUBSET SUBSET D
    OBVIOUS
  <2> HIDE DEF G
  <2> QED BY <2>1, SmallestSubset
<1>4. T # {} /\ T \in SUBSET D
  BY <1>1, <1>2, <1>3 DEF Summing
<1>5. anyOf(T) \in T
  BY <1>4 DEF anyOf
<1>6. g[T \ {anyOf(T)}] = k[T \ {anyOf(T)}] /\ h[anyOf(T)] = f[anyOf(T)]
  BY <1>3, <1>4, <1>5
<1> QED
  BY <1>1, <1>2, <1>3, <1>4, <1>6 DEF Summing

\* A sum is what one of its terms adds to the sum of the others.
LEMMA SumStep ==
  ASSUME NEW D, IsFiniteSet(D), NEW f, \A x \in D : f[x] \in Int, NEW x \in D
  PROVE  SumFunctionOnSet(f, D) = f[x] + SumFunctionOnSet(f, D \ {x})
<1> DEFINE E == D \ {x}
<1>1. PICK g : Summing(g, f, D) /\ SumFunctionOnSet(f, D) = g[D]
  BY SumFolds
<1>2. IsFiniteSet(E) /\ E \subseteq D
  BY FS_RemoveElement
<1>3. PICK k : Summing(k, f, E) /\ SumFunctionOnSet(f, E) = k[E]
  <2> HIDE DEF E
  <2> QED BY <1>2, SumFolds
<1>4. g[D] = f[x] + g[E]
  <2>1. D \in SUBSET D
    OBVIOUS
  <2> QED BY <1>1, <2>1, SummingAny
<1>5. g[E] = k[E]
  <2> HIDE DEF E
  <2> DEFINE G == {s \in SUBSET E : g[s] # k[s]}
  <2> SUFFICES ASSUME G # {} PROVE FALSE
    OBVIOUS
  <2>1. PICK T \in G : \A U \in G : U \subseteq T => U = T
    <3>1. G \in SUBSET SUBSET E
      OBVIOUS
    <3> HIDE DEF G
    <3> QED BY <1>2, <3>1, SmallestSubset
  <2>2. T # {} /\ T \in SUBSET E /\ T \in SUBSET D
    BY <1>1, <1>2, <1>3, <2>1 DEF Summing
  <2>3. anyOf(T) \in T
    BY <2>2 DEF anyOf
  <2>4. g[T \ {anyOf(T)}] = k[T \ {anyOf(T)}]
    BY <2>1, <2>2, <2>3
  <2> QED
    BY <1>1, <1>3, <2>1, <2>2, <2>4 DEF Summing
<1> QED
  BY <1>1, <1>3, <1>4, <1>5

\* One term changed by d changes the sum by d.
LEMMA SumChange ==
  ASSUME NEW D, IsFiniteSet(D), NEW f, \A x \in D : f[x] \in Int,
         NEW x \in D, NEW d \in Int,
         NEW h, h[x] = f[x] + d, \A y \in D \ {x} : h[y] = f[y]
  PROVE  SumFunctionOnSet(h, D) = SumFunctionOnSet(f, D) + d
<1> DEFINE E == D \ {x}
<1>1. IsFiniteSet(E)
  BY FS_RemoveElement
<1>2. \A y \in E : f[y] \in Int /\ h[y] = f[y]
  OBVIOUS
<1>3. SumFunctionOnSet(h, E) = SumFunctionOnSet(f, E) /\ SumFunctionOnSet(f, E) \in Int
  <2> HIDE DEF E
  <2> QED BY <1>1, <1>2, SumSame, SumType
<1>4. f[x] \in Int /\ h[x] = f[x] + d /\ \A y \in D : h[y] \in Int
  OBVIOUS
<1>5. SumFunctionOnSet(f, D) = f[x] + SumFunctionOnSet(f, E)
  BY SumStep
<1>6. SumFunctionOnSet(h, D) = h[x] + SumFunctionOnSet(h, E)
  BY <1>4, SumStep
<1> HIDE DEF E
<1> QED
  BY <1>3, <1>4, <1>5, <1>6

\* Counters of which those in S are incremented, one of A at most.
LEMMA SumIncremented ==
  ASSUME NEW A, IsFiniteSet(A), NEW f, \A y \in A : f[y] \in Int, NEW S,
         NEW h, \A y \in A : h[y] = IF y \in S THEN f[y] + 1 ELSE f[y]
  PROVE  /\ SumFunctionOnSet(f, A) \in Int
         /\ A \cap S = {} => SumFunctionOnSet(h, A) = SumFunctionOnSet(f, A)
         /\ \A x : A \cap S = {x} =>
              SumFunctionOnSet(h, A) = SumFunctionOnSet(f, A) + 1
<1>1. ASSUME A \cap S = {}
      PROVE  SumFunctionOnSet(h, A) = SumFunctionOnSet(f, A)
  <2>1. \A y \in A : h[y] = f[y]
    BY <1>1
  <2> QED BY <2>1, SumSame
<1>2. ASSUME NEW x, A \cap S = {x}
      PROVE  SumFunctionOnSet(h, A) = SumFunctionOnSet(f, A) + 1
  <2>1. x \in A /\ h[x] = f[x] + 1 /\ \A y \in A \ {x} : h[y] = f[y]
    BY <1>2
  <2> QED BY <2>1, SumChange
<1> QED BY <1>1, <1>2, SumType

\* One more in a sequence.
LEMMA SumOneMore ==
  ASSUME NEW n \in Nat, NEW f, \A i \in 1 .. n : f[i] \in Int,
         NEW x \in Int, NEW h, h[n + 1] = x, \A i \in 1 .. n : h[i] = f[i]
  PROVE  /\ SumFunctionOnSet(f, 1 .. n) \in Int
         /\ SumFunctionOnSet(h, 1 .. n + 1) = SumFunctionOnSet(f, 1 .. n) + x
<1> DEFINE D == 1 .. n + 1  E == 1 .. n
<1>1. IsFiniteSet(D) /\ IsFiniteSet(E)
  BY FS_Interval
<1>2. E = D \ {n + 1} /\ n + 1 \in D
  OBVIOUS
<1>3. (\A i \in D : h[i] \in Int) /\ (\A i \in E : h[i] = f[i] /\ f[i] \in Int)
  <2>1. \A i \in D : i \in E \/ i = n + 1
    OBVIOUS
  <2> QED BY <2>1
<1> HIDE DEF D, E
<1>4. SumFunctionOnSet(h, D) = h[n + 1] + SumFunctionOnSet(h, D \ {n + 1})
  BY <1>1, <1>2, <1>3, SumStep
<1>5. SumFunctionOnSet(h, E) = SumFunctionOnSet(f, E)
  BY <1>1, <1>3, SumSame
<1>6. SumFunctionOnSet(f, E) \in Int
  BY <1>1, <1>3, SumType
<1>7. SumFunctionOnSet(h, D) = SumFunctionOnSet(f, E) + x
  BY <1>2, <1>4, <1>5, <1>6
<1> QED BY <1>6, <1>7 DEF D, E

LEMMA SumZero ==
  ASSUME NEW D, IsFiniteSet(D), NEW f, \A x \in D : f[x] = 0
  PROVE  SumFunctionOnSet(f, D) = 0
<1> DEFINE G == {s \in SUBSET D : SumFunctionOnSet(f, s) # 0}
<1> SUFFICES ASSUME G # {} PROVE FALSE
  OBVIOUS
<1>1. PICK T \in G : \A U \in G : U \subseteq T => U = T
  <2>1. G \in SUBSET SUBSET D
    OBVIOUS
  <2> HIDE DEF G
  <2> QED BY <2>1, SmallestSubset
<1>2. T \in SUBSET D /\ SumFunctionOnSet(f, T) # 0
  BY <1>1
<1>3. T # {}
  BY <1>2, SumEmpty
<1> PICK x \in T : TRUE
  BY <1>3
<1>4. IsFiniteSet(T) /\ \A y \in T : f[y] \in Int
  BY <1>2, FS_Subset
<1>5. SumFunctionOnSet(f, T \ {x}) = 0
  BY <1>1, <1>2
<1>6. SumFunctionOnSet(f, T) = f[x] + SumFunctionOnSet(f, T \ {x})
  BY <1>4, SumStep
<1> QED BY <1>2, <1>5, <1>6

\* Counters of which each of n things increments one, its tag: together they grow
\* by the number of things whose tag is one of them.
tagged(tag, S, m) == {i \in 1 .. m : tag[i] \in S}

LEMMA CountOneMore ==
  ASSUME NEW S, NEW m \in Nat, NEW tag
  PROVE  /\ Cardinality(tagged(tag, S, m)) \in Nat
         /\ Cardinality(tagged(tag, S, m + 1)) =
              Cardinality(tagged(tag, S, m)) + (IF tag[m + 1] \in S THEN 1 ELSE 0)
<1> DEFINE A == tagged(tag, S, m)
           B == tagged(tag, S, m + 1)
<1>1. IsFiniteSet(1 .. m) /\ A \subseteq 1 .. m
  BY FS_Interval DEF tagged
<1>2. IsFiniteSet(A) /\ Cardinality(A) \in Nat
  BY <1>1, FS_Subset, FS_CardinalityType
<1>3. CASE tag[m + 1] \in S
  <2>1. B = A \cup {m + 1} /\ m + 1 \notin A
    BY <1>3 DEF tagged
  <2> HIDE DEF A, B
  <2>2. Cardinality(B) = Cardinality(A) + 1
    BY <1>2, <2>1, FS_AddElement
  <2> QED BY <1>2, <1>3, <2>2 DEF A, B
<1>4. CASE tag[m + 1] \notin S
  <2>1. B = A
    BY <1>4 DEF tagged
  <2> QED BY <1>2, <1>4, <2>1
<1> QED BY <1>3, <1>4

marked(flag, m) == {i \in 1 .. m : flag[i]}

LEMMA MarkedOneMore ==
  ASSUME NEW m \in Nat, NEW flag
  PROVE  /\ Cardinality(marked(flag, m)) \in Nat
         /\ Cardinality(marked(flag, m + 1)) =
              Cardinality(marked(flag, m)) + (IF flag[m + 1] THEN 1 ELSE 0)
<1> DEFINE A == marked(flag, m)  B == marked(flag, m + 1)
<1>1. IsFiniteSet(1 .. m) /\ A \subseteq 1 .. m
  BY FS_Interval DEF marked
<1>2. IsFiniteSet(A) /\ Cardinality(A) \in Nat
  BY <1>1, FS_Subset, FS_CardinalityType
<1>3. CASE flag[m + 1]
  <2>1. B = A \cup {m + 1} /\ m + 1 \notin A
    BY <1>3 DEF marked
  <2> HIDE DEF A, B
  <2>2. Cardinality(B) = Cardinality(A) + 1
    BY <1>2, <2>1, FS_AddElement
  <2> QED BY <1>2, <1>3, <2>2 DEF A, B
<1>4. CASE ~flag[m + 1]
  <2>1. B = A
    BY <1>4 DEF marked
  <2> QED BY <1>2, <1>4, <2>1
<1> QED BY <1>3, <1>4

tallied(f, D, tag, m) ==
  [c \in D |-> f[c] + Cardinality(tagged(tag, {c}, m))]

LEMMA SumOfTags ==
  ASSUME NEW D, IsFiniteSet(D), NEW f, \A c \in D : f[c] \in Int,
         NEW n \in Nat, NEW tag
  PROVE  SumFunctionOnSet(tallied(f, D, tag, n), D) =
           SumFunctionOnSet(f, D) + Cardinality(tagged(tag, D, n))
<1> DEFINE ok(m) == SumFunctionOnSet(tallied(f, D, tag, m), D) =
                      SumFunctionOnSet(f, D) + Cardinality(tagged(tag, D, m))
           OK == {m \in Nat : ok(m)}
<1>1. 0 \in OK
  <2>1. \A S : Cardinality(tagged(tag, S, 0)) = 0
    <3>1. \A S : tagged(tag, S, 0) = {}
      BY DEF tagged
    <3> QED BY <3>1, FS_EmptySet
  <2>2. \A c \in D : tallied(f, D, tag, 0)[c] = f[c]
    BY <2>1 DEF tallied
  <2>3. SumFunctionOnSet(tallied(f, D, tag, 0), D) = SumFunctionOnSet(f, D)
    BY <2>2, SumSame
  <2>4. SumFunctionOnSet(f, D) \in Int
    BY SumType
  <2> QED BY <2>1, <2>3, <2>4
<1>2. ASSUME NEW m \in OK PROVE m + 1 \in OK
  <2> DEFINE g == tallied(f, D, tag, m)
             h == tallied(f, D, tag, m + 1)
  <2>1. \A S : /\ Cardinality(tagged(tag, S, m)) \in Nat
               /\ Cardinality(tagged(tag, S, m + 1)) =
                    Cardinality(tagged(tag, S, m))
                      + (IF tag[m + 1] \in S THEN 1 ELSE 0)
    <3>1. m \in Nat
      OBVIOUS
    <3> QED BY ONLY <3>1, CountOneMore
  <2>2. \A c \in D : /\ g[c] \in Int
                     /\ h[c] = g[c] + (IF tag[m + 1] = c THEN 1 ELSE 0)
    <3> SUFFICES ASSUME NEW c \in D
                 PROVE  g[c] \in Int /\ h[c] = g[c] + (IF tag[m + 1] = c THEN 1 ELSE 0)
      OBVIOUS
    <3>1. /\ Cardinality(tagged(tag, {c}, m)) \in Nat
          /\ Cardinality(tagged(tag, {c}, m + 1)) =
               Cardinality(tagged(tag, {c}, m))
                 + (IF tag[m + 1] \in {c} THEN 1 ELSE 0)
      BY <2>1
    <3>2. /\ g[c] = f[c] + Cardinality(tagged(tag, {c}, m))
          /\ h[c] = f[c] + Cardinality(tagged(tag, {c}, m + 1))
      BY DEF tallied
    <3> HIDE DEF g, h
    <3> QED BY <3>1, <3>2
  <2> HIDE DEF g, h
  <2>3. SumFunctionOnSet(g, D) \in Int
    BY <2>2, SumType
  <2>4. SumFunctionOnSet(h, D) = SumFunctionOnSet(g, D) + (IF tag[m + 1] \in D THEN 1 ELSE 0)
    <3>1. CASE tag[m + 1] \in D
      <4> DEFINE x == tag[m + 1]
      <4>1. x \in D /\ h[x] = g[x] + 1 /\ \A y \in D \ {x} : h[y] = g[y]
        BY <2>2, <3>1
      <4> HIDE DEF x
      <4>2. SumFunctionOnSet(h, D) = SumFunctionOnSet(g, D) + 1
        BY <4>1, <2>2, SumChange
      <4> QED BY <4>2, <3>1
    <3>2. CASE tag[m + 1] \notin D
      <4>1. \A y \in D : h[y] = g[y]
        BY <2>2, <3>2
      <4>2. SumFunctionOnSet(h, D) = SumFunctionOnSet(g, D)
        BY <4>1, <2>2, SumSame
      <4> QED BY <4>2, <3>2, <2>3
    <3> QED BY <3>1, <3>2
  <2>5. ok(m)
    OBVIOUS
  <2>6. SumFunctionOnSet(f, D) \in Int
    BY SumType
  <2>7. ok(m + 1)
    <3> HIDE DEF ok
    <3>1. /\ Cardinality(tagged(tag, D, m)) \in Nat
          /\ Cardinality(tagged(tag, D, m + 1)) =
               Cardinality(tagged(tag, D, m))
                 + (IF tag[m + 1] \in D THEN 1 ELSE 0)
      BY <2>1
    <3> QED BY <3>1, <2>3, <2>4, <2>5, <2>6 DEF g, h, ok
  <2> QED BY <2>7
<1> HIDE DEF ok
<1>3. OK = Nat
  BY <1>1, <1>2, NumbersAll
<1> QED BY <1>3 DEF ok

-----------------------------------------------------------------------------
\* Three sequences one after the other.
Grouped(s, t, u) == (s \o t) \o u = s \o (t \o u)

LEMMA GroupedEitherWay ==
  \A T : \A s, t, u \in Seq(T) : Grouped(s, t, u)
BY ConcatAssociative DEF Grouped

\* What a sequence made of two has.
LEMMA ConcatElements ==
  ASSUME NEW T, NEW s \in Seq(T), NEW t \in Seq(T)
  PROVE  /\ s \o t \in Seq(T) /\ Len(s \o t) = Len(s) + Len(t)
         /\ ToSet(s \o t) = ToSet(s) \cup ToSet(t)
<1> DEFINE u == s \o t
<1>1. /\ u \in Seq(T) /\ Len(u) = Len(s) + Len(t) /\ Len(s) \in Nat /\ Len(t) \in Nat
      /\ DOMAIN s = 1 .. Len(s) /\ DOMAIN t = 1 .. Len(t) /\ DOMAIN u = 1 .. Len(s) + Len(t)
      /\ \A i \in 1 .. Len(s) : u[i] = s[i]
      /\ \A i \in 1 .. Len(t) : u[Len(s) + i] = t[i]
  OBVIOUS
<1> HIDE DEF u
<1>2. ASSUME NEW i \in DOMAIN u
      PROVE  u[i] \in {s[j] : j \in DOMAIN s} \cup {t[j] : j \in DOMAIN t}
  <2>1. CASE i <= Len(s)
    <3>1. i \in 1 .. Len(s) BY <1>1, <2>1
    <3> QED BY <1>1, <3>1
  <2>2. CASE i > Len(s)
    <3>1. i - Len(s) \in 1 .. Len(t) /\ Len(s) + (i - Len(s)) = i BY <1>1, <2>2
    <3>2. u[i] = t[i - Len(s)] BY <1>1, <3>1
    <3> QED BY <1>1, <3>1, <3>2
  <2> QED BY <1>1, <2>1, <2>2
<1>3. ASSUME NEW i \in DOMAIN s PROVE s[i] \in {u[j] : j \in DOMAIN u}
  <2>1. i \in DOMAIN u /\ u[i] = s[i] BY <1>1
  <2> QED BY <2>1
<1>4. ASSUME NEW i \in DOMAIN t PROVE t[i] \in {u[j] : j \in DOMAIN u}
  <2>1. Len(s) + i \in DOMAIN u /\ u[Len(s) + i] = t[i] BY <1>1
  <2> QED BY <2>1
<1>5. ToSet(u) = ToSet(s) \cup ToSet(t)
  BY <1>2, <1>3, <1>4 DEF ToSet
<1> QED BY <1>1, <1>5 DEF u

BeginsWith(t, s) == Len(s) <= Len(t) /\ \A i \in 1 .. Len(s) : t[i] = s[i]

\* The flattened sequences of two that begin alike begin alike.
LEMMA FlattenPrefix ==
  ASSUME NEW T, NEW seqs \in Seq(Seq(T)), NEW more \in Seq(Seq(T)),
         BeginsWith(more, seqs), NEW f, Flattening(f, seqs, T), NEW g, Flattening(g, more, T)
  PROVE  \A k \in 0 .. Len(seqs) : g[k] = f[k]
<1> DEFINE n == Len(seqs)
           F == {k \in 0 .. n : g[k] = f[k]}
<1>1. n \in Nat /\ Len(more) \in Nat /\ n <= Len(more) BY DEF BeginsWith
<1>2. F \in SUBSET (0 .. n) /\ 0 \in F BY <1>1 DEF Flattening
<1>3. ASSUME NEW k \in F, k < n PROVE k + 1 \in F
  <2>1. k \in 0 .. n /\ g[k] = f[k] /\ k + 1 \in 0 .. n /\ k + 1 \in 1 .. n
        /\ k \in 0 .. Len(more) /\ k < Len(more)
    BY <1>1, <1>3
  <2>2. f[k + 1] = f[k] \o seqs[k + 1] /\ g[k + 1] = g[k] \o more[k + 1]
    BY <1>3, <2>1 DEF Flattening
  <2>3. more[k + 1] = seqs[k + 1] BY <2>1 DEF BeginsWith
  <2> QED BY <2>1, <2>2, <2>3
<1> HIDE DEF F, n
<1>4. F = 0 .. n BY <1>1, <1>2, <1>3, NumbersUpTo
<1> QED BY <1>4 DEF F, n

LEMMA FlattenOfNone == FlattenSeq(<<>>) = <<>>
BY DEF FlattenSeq

LEMMA FlattenTyped ==
  ASSUME NEW T, NEW seqs \in Seq(Seq(T))
  PROVE  FlattenSeq(seqs) \in Seq(T)
<1>1. PICK f : Flattening(f, seqs, T) /\ FlattenSeq(seqs) = f[Len(seqs)] BY FlattensUp
<1>2. Len(seqs) \in 0 .. Len(seqs) OBVIOUS
<1> QED BY <1>1, <1>2 DEF Flattening

LEMMA FlattenConcat ==
  ASSUME NEW T, NEW ss \in Seq(Seq(T)), NEW tt \in Seq(Seq(T))
  PROVE  FlattenSeq(ss \o tt) = FlattenSeq(ss) \o FlattenSeq(tt)
<1> DEFINE m == Len(ss)  n == Len(tt)  uu == ss \o tt
<1>1. /\ uu \in Seq(Seq(T)) /\ m \in Nat /\ n \in Nat /\ Len(uu) = m + n
      /\ (\A i \in 1 .. m : uu[i] = ss[i]) /\ (\A i \in 1 .. n : uu[m + i] = tt[i])
      /\ \A i \in 1 .. n : tt[i] \in Seq(T)
  OBVIOUS
<1>2. PICK f : Flattening(f, ss, T) /\ FlattenSeq(ss) = f[m] BY FlattensUp
<1>3. PICK g : Flattening(g, tt, T) /\ FlattenSeq(tt) = g[n] BY FlattensUp
<1> HIDE DEF uu
<1>4. PICK h : Flattening(h, uu, T) /\ FlattenSeq(uu) = h[m + n] BY <1>1, FlattensUp
<1>5. h[m] = f[m]
  <2>1. BeginsWith(uu, ss) /\ Len(ss) \in 0 .. Len(ss)
    BY <1>1 DEF BeginsWith
  <2>2. Flattening(f, ss, T) /\ Flattening(h, uu, T) /\ uu \in Seq(Seq(T)) BY <1>1, <1>2, <1>4
  <2>3. \A k \in 0 .. Len(ss) : h[k] = f[k]
    BY ONLY <2>1, <2>2, ss \in Seq(Seq(T)), FlattenPrefix
  <2> QED BY <2>1, <2>3
<1> DEFINE F == {k \in 0 .. n : h[m + k] = f[m] \o g[k]}
<1> HIDE DEF m, n
<1>6. f[m] \in Seq(T) /\ \A k \in 0 .. n : g[k] \in Seq(T)
  <2>1. m \in 0 .. m BY <1>1
  <2> QED BY <1>2, <1>3, <2>1 DEF Flattening, m, n
<1>7. F \in SUBSET (0 .. n) /\ 0 \in F
  <2>1. 0 \in 0 .. n /\ m + 0 = m /\ g[0] = <<>> BY <1>1, <1>3 DEF Flattening
  <2>2. f[m] \o <<>> = f[m] BY <1>6
  <2> QED BY <1>5, <2>1, <2>2 DEF F
<1> HIDE DEF F
<1>8. ASSUME NEW k \in F, k < n PROVE k + 1 \in F
  <2>0. k \in 0 .. n /\ h[m + k] = f[m] \o g[k] BY <1>8 DEF F
  <2>1. /\ k \in 0 .. n /\ k + 1 \in 0 .. n /\ k + 1 \in 1 .. n /\ m + k \in 0 .. m + n
        /\ m + k < m + n /\ (m + k) + 1 = m + (k + 1)
    BY <1>1, <1>8, <2>0
  <2>2. g[k + 1] = g[k] \o tt[k + 1] BY <1>3, <1>8, <2>1 DEF Flattening, n
  <2>3. h[m + (k + 1)] = h[m + k] \o tt[k + 1]
    <3>1. m + k \in 0 .. Len(uu) /\ m + k < Len(uu) BY <1>1, <2>1
    <3>2. h[(m + k) + 1] = h[m + k] \o uu[(m + k) + 1] BY <1>4, <3>1 DEF Flattening
    <3>3. uu[m + (k + 1)] = tt[k + 1] BY <1>1, <2>1
    <3> QED BY <2>1, <3>2, <3>3
  <2>4. g[k] \in Seq(T) /\ tt[k + 1] \in Seq(T) BY <1>1, <1>6, <2>1
  <2>5. (f[m] \o g[k]) \o tt[k + 1] = f[m] \o (g[k] \o tt[k + 1])
    <3> DEFINE a == f[m]  b == g[k]  c == tt[k + 1]
    <3>1. a \in Seq(T) /\ b \in Seq(T) /\ c \in Seq(T) BY <1>6, <2>4
    <3> HIDE DEF a, b, c
    <3>2. Grouped(a, b, c) BY <3>1, GroupedEitherWay, Zenon
    <3> QED BY <3>2 DEF Grouped, a, b, c
  <2> QED BY <2>0, <2>1, <2>2, <2>3, <2>5 DEF F
<1>9. n \in F
  <2>1. F = 0 .. n BY <1>1, <1>7, <1>8, NumbersUpTo
  <2> QED BY <1>1, <2>1
<1> QED BY <1>2, <1>3, <1>4, <1>9 DEF F, uu

LEMMA FlattenAppend ==
  ASSUME NEW T, NEW ss \in Seq(Seq(T)), NEW s \in Seq(T)
  PROVE  FlattenSeq(Append(ss, s)) = FlattenSeq(ss) \o s
<1>1. <<s>> \in Seq(Seq(T)) /\ Append(ss, s) = ss \o <<s>> OBVIOUS
<1>2. FlattenSeq(<<s>>) = s
  <2>1. PICK f : Flattening(f, <<s>>, T) /\ FlattenSeq(<<s>>) = f[Len(<<s>>)]
    BY <1>1, FlattensUp
  <2>2. Len(<<s>>) = 1 /\ 0 \in 0 .. 1 /\ 0 < 1 /\ 0 + 1 = 1 /\ <<s>>[1] = s OBVIOUS
  <2>3. f[1] = <<>> \o s BY <2>1, <2>2 DEF Flattening
  <2> QED BY <2>1, <2>2, <2>3
<1> QED BY <1>1, <1>2, FlattenConcat

\* The last of the sequences growing.
LEMMA FlattenGrown ==
  ASSUME NEW T, NEW ss \in Seq(Seq(T)), ss # <<>>, NEW s \in Seq(T)
  PROVE  FlattenSeq([ss EXCEPT ![Len(ss)] = @ \o s]) = FlattenSeq(ss) \o s
<1> DEFINE n == Len(ss)  front == SubSeq(ss, 1, n - 1)  l == ss[n]
           longer == l \o s
           grown == [ss EXCEPT ![Len(ss)] = ss[Len(ss)] \o s]
<1>1. n \in Nat \ {0} /\ l \in Seq(T) /\ l \o s \in Seq(T) /\ front \in Seq(Seq(T)) OBVIOUS
<1>2. ss = Append(front, l) OBVIOUS
<1>3. grown = Append(front, l \o s)
  <2>1. longer \in Seq(T) /\ grown = [ss EXCEPT ![n] = longer] BY <1>1
  <2> HIDE DEF longer, grown
  <2>2. /\ grown \in Seq(Seq(T)) /\ Len(grown) = n /\ grown[n] = longer
        /\ \A i \in 1 .. n - 1 : grown[i] = ss[i]
    BY <1>1, <2>1
  <2>3. /\ Append(front, longer) \in Seq(Seq(T)) /\ Len(Append(front, longer)) = n
        /\ Append(front, longer)[n] = longer
        /\ \A i \in 1 .. n - 1 : Append(front, longer)[i] = ss[i]
    <3>1. /\ front \in Seq(Seq(T)) /\ Len(front) = n - 1
          /\ \A i \in 1 .. n - 1 : front[i] = ss[i]
      <4>1. 1 \in Int /\ n - 1 \in Int /\ \A i \in 1 .. n - 1 : ss[i] \in Seq(T) BY <1>1
      <4> HIDE DEF n
      <4> QED BY <1>1, <4>1, SubSeqProperties
    <3> HIDE DEF front
    <3> QED BY <1>1, <2>1, <3>1
  <2>4. \A i \in 1 .. n : i = n \/ i \in 1 .. n - 1 BY <1>1
  <2> HIDE DEF n, front
  <2>5. grown = Append(front, longer)
    <3>1. \A i \in 1 .. n : grown[i] = Append(front, longer)[i] BY <2>2, <2>3, <2>4
    <3> QED BY <2>2, <2>3, <3>1, SeqEqual
  <2> QED BY <2>5 DEF longer
<1>4. FlattenSeq(front) \in Seq(T) BY <1>1, FlattenTyped
<1> HIDE DEF front, l, grown, n, longer
<1>5. FlattenSeq(ss) = FlattenSeq(front) \o l /\ FlattenSeq(grown) = FlattenSeq(front) \o (l \o s)
  BY <1>1, <1>2, <1>3, FlattenAppend
<1>6. \E a \in Seq(T), m \in Seq(T) : a = FlattenSeq(front) /\ m = l
  BY <1>1, <1>4
<1> PICK a \in Seq(T), m \in Seq(T) : a = FlattenSeq(front) /\ m = l
  BY <1>6
<1>7. Grouped(a, m, s) BY ONLY GroupedEitherWay
<1> QED BY <1>5, <1>7 DEF grown, Grouped

\* How long the sequences are together, and what they have.
LEMMA FlattenSizes ==
  ASSUME NEW T, NEW seqs \in Seq(Seq(T)), NEW f, \A i \in 1 .. Len(seqs) : f[i] = Len(seqs[i])
  PROVE  /\ Len(FlattenSeq(seqs)) = SumFunctionOnSet(f, 1 .. Len(seqs))
         /\ ToSet(FlattenSeq(seqs)) = UNION {ToSet(seqs[i]) : i \in 1 .. Len(seqs)}
<1> DEFINE n == Len(seqs)
           some(k) == UNION {ToSet(seqs[i]) : i \in 1 .. k}
<1>1. n \in Nat /\ \A i \in 1 .. n : seqs[i] \in Seq(T) /\ f[i] \in Int /\ f[i] = Len(seqs[i])
  OBVIOUS
<1>2. PICK flat : Flattening(flat, seqs, T) /\ FlattenSeq(seqs) = flat[n]
  BY FlattensUp
<1> DEFINE ok(k) == Len(flat[k]) = SumFunctionOnSet(f, 1 .. k) /\ ToSet(flat[k]) = some(k)
           F == {k \in 0 .. n : ok(k)}
<1>3. 0 \in F
  <2>1. 1 .. 0 = {} /\ 0 \in 0 .. n /\ Len(<<>>) = 0 /\ ToSet(<<>>) = {} /\ some(0) = {}
    BY <1>1 DEF ToSet
  <2>2. SumFunctionOnSet(f, {}) = 0 BY SumEmpty
  <2>3. flat[0] = <<>> BY <1>2 DEF Flattening
  <2> HIDE DEF some, n
  <2> QED BY <2>1, <2>2, <2>3
<1>4. ASSUME NEW k \in F, k < n PROVE k + 1 \in F
  <2>1. k \in Nat /\ k \in 0 .. n /\ k + 1 \in 0 .. n /\ k + 1 \in 1 .. n /\ ok(k)
        /\ 1 .. k \subseteq 1 .. n
    BY <1>1, <1>4
  <2> HIDE DEF F
  <2>2. flat[k] \in Seq(T) /\ flat[k + 1] = flat[k] \o seqs[k + 1]
    BY <1>2, <1>4, <2>1 DEF Flattening
  <2>3. seqs[k + 1] \in Seq(T) /\ f[k + 1] = Len(seqs[k + 1]) /\ f[k + 1] \in Int
    BY <1>1, <2>1
  <2>4. /\ Len(flat[k + 1]) = Len(flat[k]) + f[k + 1]
        /\ ToSet(flat[k + 1]) = ToSet(flat[k]) \cup ToSet(seqs[k + 1])
    BY <2>2, <2>3, ConcatElements
  <2>5. SumFunctionOnSet(f, 1 .. k + 1) = SumFunctionOnSet(f, 1 .. k) + f[k + 1]
    <3> DEFINE x == f[k + 1]
    <3>1. k \in Nat /\ x \in Int /\ f[k + 1] = x /\ \A i \in 1 .. k : f[i] \in Int /\ f[i] = f[i]
      BY <1>1, <2>1, <2>3
    <3> HIDE DEF x
    <3>2. SumFunctionOnSet(f, 1 .. k + 1) = SumFunctionOnSet(f, 1 .. k) + x
      BY ONLY <3>1, SumOneMore
    <3> QED BY <3>1, <3>2
  <2>6. some(k + 1) = some(k) \cup ToSet(seqs[k + 1])
    <3>1. 1 .. k + 1 = (1 .. k) \cup {k + 1} BY <2>1
    <3> QED BY <3>1
  <2>7. ok(k + 1)
    <3> HIDE DEF some
    <3> QED BY <2>1, <2>4, <2>5, <2>6
  <2> HIDE DEF ok, n
  <2> QED BY <2>1, <2>7 DEF F
<1>5. F \in SUBSET (0 .. n) OBVIOUS
<1> HIDE DEF F, n
<1>6. F = 0 .. n BY <1>1, <1>3, <1>4, <1>5, NumbersUpTo
<1>7. n \in F BY <1>1, <1>6
<1> QED BY <1>2, <1>7 DEF F, n

\* A sum whose terms are put in another order.
LEMMA SumReordered ==
  ASSUME NEW D, IsFiniteSet(D), NEW E, IsFiniteSet(E), NEW q \in Bijection(D, E),
         NEW f, \A x \in E : f[x] \in Int, NEW h, \A x \in D : h[x] = f[q[x]]
  PROVE  SumFunctionOnSet(h, D) = SumFunctionOnSet(f, E)
<1> DEFINE image(S) == {q[x] : x \in S}
           G == {S \in SUBSET D : SumFunctionOnSet(h, S) # SumFunctionOnSet(f, image(S))}
<1>1. /\ q \in [D -> E] /\ (\A x, y \in D : q[x] = q[y] => x = y)
      /\ \A y \in E : \E x \in D : q[x] = y
  BY DEF Bijection, Injection, Surjection, IsInjective
<1>2. image(D) = E BY <1>1
<1> SUFFICES ASSUME G # {} PROVE FALSE
  <2> HIDE DEF image
  <2>1. D \in SUBSET D OBVIOUS
  <2> QED BY <1>2, <2>1
<1>3. PICK S \in G : \A U \in G : U \subseteq S => U = S
  <2>1. G \in SUBSET SUBSET D OBVIOUS
  <2> HIDE DEF G
  <2> QED BY <2>1, SmallestSubset
<1>4. S \in SUBSET D /\ SumFunctionOnSet(h, S) # SumFunctionOnSet(f, image(S))
  BY <1>3
<1>5. S # {}
  <2>1. image({}) = {} OBVIOUS
  <2> HIDE DEF image
  <2> QED BY <1>4, <2>1, SumEmpty
<1> PICK x \in S : TRUE BY <1>5
<1>6. SumFunctionOnSet(h, S \ {x}) = SumFunctionOnSet(f, image(S \ {x}))
  <2>1. S \ {x} \in SUBSET D /\ S \ {x} \subseteq S /\ S \ {x} # S BY <1>4
  <2> HIDE DEF image
  <2> QED BY <1>3, <2>1
<1>7. /\ IsFiniteSet(S) /\ (\A y \in S : h[y] \in Int) /\ h[x] = f[q[x]]
      /\ IsFiniteSet(image(S)) /\ (\A y \in image(S) : f[y] \in Int) /\ q[x] \in image(S)
  <2>1. image(S) \in SUBSET E BY <1>1, <1>4
  <2>2. \A y \in S : q[y] \in E /\ h[y] = f[q[y]] BY <1>1, <1>4
  <2>3. q[x] \in image(S) OBVIOUS
  <2>4. \A y \in image(S) : f[y] \in Int BY <2>1
  <2> HIDE DEF image
  <2> QED BY <1>4, <2>1, <2>2, <2>3, <2>4, FS_Subset
<1>8. image(S) \ {q[x]} = image(S \ {x}) BY <1>1, <1>4
<1> HIDE DEF image
<1>9. /\ SumFunctionOnSet(h, S) = h[x] + SumFunctionOnSet(h, S \ {x})
      /\ SumFunctionOnSet(f, image(S)) = f[q[x]] + SumFunctionOnSet(f, image(S) \ {q[x]})
  BY <1>7, SumStep
<1> QED BY <1>4, <1>6, <1>7, <1>8, <1>9

\* Sums compared and added term by term.
LEMMA SumCompared ==
  ASSUME NEW D, IsFiniteSet(D), NEW f, \A x \in D : f[x] \in Int,
         NEW g, \A x \in D : g[x] \in Int
  PROVE  /\ (\A x \in D : f[x] <= g[x]) => SumFunctionOnSet(f, D) <= SumFunctionOnSet(g, D)
         /\ \A h : (\A x \in D : h[x] = f[x] + g[x]) =>
              SumFunctionOnSet(h, D) = SumFunctionOnSet(f, D) + SumFunctionOnSet(g, D)
<1> DEFINE smaller(S) == (\A x \in S : f[x] <= g[x]) =>
                           SumFunctionOnSet(f, S) <= SumFunctionOnSet(g, S)
           added(S) == \A h : (\A x \in S : h[x] = f[x] + g[x]) =>
              SumFunctionOnSet(h, S) = SumFunctionOnSet(f, S) + SumFunctionOnSet(g, S)
           G == {S \in SUBSET D : ~(smaller(S) /\ added(S))}
<1> SUFFICES ASSUME G # {} PROVE FALSE
  OBVIOUS
<1>1. PICK S \in G : \A U \in G : U \subseteq S => U = S
  <2>1. G \in SUBSET SUBSET D OBVIOUS
  <2> HIDE DEF G
  <2> QED BY <2>1, SmallestSubset
<1>2. S \in SUBSET D /\ ~(smaller(S) /\ added(S))
  BY <1>1
<1>3. S # {}
  <2>1. \A f_1 : SumFunctionOnSet(f_1, {}) = 0 BY SumEmpty
  <2>2. SumFunctionOnSet(f, {}) = 0 /\ SumFunctionOnSet(g, {}) = 0 BY <2>1
  <2> SUFFICES ASSUME S = {} PROVE FALSE OBVIOUS
  <2> QED BY <1>2, <2>1, <2>2
<1> PICK x \in S : TRUE BY <1>3
<1> DEFINE R == S \ {x}
<1>4. smaller(R) /\ added(R)
  <2>1. R \in SUBSET D /\ R \subseteq S /\ R # S BY <1>2
  <2> HIDE DEF smaller, added, R
  <2> QED BY <1>1, <2>1
<1>5. IsFiniteSet(S) /\ IsFiniteSet(R) /\ \A y \in S : f[y] \in Int /\ g[y] \in Int
  BY <1>2, FS_Subset
<1>6. /\ SumFunctionOnSet(f, S) = f[x] + SumFunctionOnSet(f, R)
      /\ SumFunctionOnSet(g, S) = g[x] + SumFunctionOnSet(g, R)
  BY <1>5, SumStep
<1>7. SumFunctionOnSet(f, R) \in Int /\ SumFunctionOnSet(g, R) \in Int
  <2>1. \A y \in R : f[y] \in Int /\ g[y] \in Int BY <1>5
  <2> HIDE DEF R
  <2> QED BY <1>5, <2>1, SumType
<1>8. smaller(S)
  <2> SUFFICES ASSUME \A y \in S : f[y] <= g[y]
               PROVE  SumFunctionOnSet(f, S) <= SumFunctionOnSet(g, S)
    OBVIOUS
  <2>1. (\A y \in R : f[y] <= g[y]) /\ f[x] <= g[x] /\ f[x] \in Int /\ g[x] \in Int BY <1>5
  <2>2. SumFunctionOnSet(f, R) <= SumFunctionOnSet(g, R) BY <1>4, <2>1
  <2> HIDE DEF R
  <2> QED BY <1>6, <1>7, <2>1, <2>2
<1>9. added(S)
  <2> SUFFICES ASSUME NEW h, \A y \in S : h[y] = f[y] + g[y]
               PROVE  SumFunctionOnSet(h, S) = SumFunctionOnSet(f, S) + SumFunctionOnSet(g, S)
    OBVIOUS
  <2>1. \A y \in R : h[y] = f[y] + g[y] OBVIOUS
  <2>2. SumFunctionOnSet(h, R) = SumFunctionOnSet(f, R) + SumFunctionOnSet(g, R)
    <3> HIDE DEF R
    <3> QED BY <1>4, <2>1
  <2>3. \A y \in S : h[y] \in Int BY <1>5
  <2>4. SumFunctionOnSet(h, S) = h[x] + SumFunctionOnSet(h, R)
    BY <1>5, <2>3, SumStep
  <2>5. h[x] = f[x] + g[x] /\ f[x] \in Int /\ g[x] \in Int BY <1>5
  <2> HIDE DEF R
  <2> QED BY <1>6, <1>7, <2>2, <2>4, <2>5
<1> HIDE DEF smaller, added
<1> QED BY <1>2, <1>8, <1>9

\* A union has at most the elements of its parts.
LEMMA UnionAtMostSum ==
  ASSUME NEW D, IsFiniteSet(D), NEW s, \A x \in D : IsFiniteSet(s[x])
  PROVE  LET size == [x \in D |-> Cardinality(s[x])]
         IN  /\ IsFiniteSet(UNION {s[x] : x \in D})
             /\ Cardinality(UNION {s[x] : x \in D}) <= SumFunctionOnSet(size, D)
<1> DEFINE size == [x \in D |-> Cardinality(s[x])]
           all(S) == UNION {s[x] : x \in S}
           ok(S) == IsFiniteSet(all(S)) /\ Cardinality(all(S)) <= SumFunctionOnSet(size, S)
           G == {S \in SUBSET D : ~ok(S)}
<1>0. \A x \in D : size[x] \in Nat /\ size[x] = Cardinality(s[x])
  BY FS_CardinalityType
<1> HIDE DEF size
<1> SUFFICES ASSUME G # {} PROVE FALSE
  BY DEF size
<1>1. PICK S \in G : \A U \in G : U \subseteq S => U = S
  <2>1. G \in SUBSET SUBSET D OBVIOUS
  <2> HIDE DEF G
  <2> QED BY <2>1, SmallestSubset
<1>2. S \in SUBSET D /\ ~ok(S)
  BY <1>1
<1>3. S # {}
  <2>1. all({}) = {} OBVIOUS
  <2>2. SumFunctionOnSet(size, {}) = 0 BY SumEmpty
  <2> HIDE DEF all
  <2>3. ok({}) BY <2>1, <2>2, FS_EmptySet
  <2> QED BY <1>2, <2>3
<1> PICK x \in S : TRUE BY <1>3
<1> DEFINE R == S \ {x}
<1>4. ok(R)
  <2>1. R \in SUBSET D /\ R \subseteq S /\ R # S BY <1>2
  <2> HIDE DEF ok, R
  <2> QED BY <1>1, <2>1
<1>5. IsFiniteSet(S) /\ IsFiniteSet(R) /\ (\A y \in S : size[y] \in Int)
  <2>1. IsFiniteSet(S) /\ IsFiniteSet(R) BY <1>2, FS_Subset
  <2>2. \A y \in S : size[y] \in Int BY <1>0, <1>2
  <2> QED BY <2>1, <2>2
<1>6. SumFunctionOnSet(size, S) = size[x] + SumFunctionOnSet(size, R)
  BY <1>5, SumStep
<1>7. SumFunctionOnSet(size, R) \in Int
  <2>1. \A y \in R : size[y] \in Int BY <1>5
  <2> HIDE DEF R
  <2> QED BY <1>5, <2>1, SumType
<1>8. all(S) = all(R) \cup s[x] OBVIOUS
<1>9. size[x] = Cardinality(s[x]) /\ size[x] \in Nat /\ IsFiniteSet(s[x]) BY <1>0, <1>2
<1> HIDE DEF all, R
<1>10. /\ IsFiniteSet(all(R) \cup s[x])
       /\ Cardinality(all(R) \cup s[x]) <= Cardinality(all(R)) + Cardinality(s[x])
       /\ Cardinality(all(R)) \in Nat /\ Cardinality(all(R) \cup s[x]) \in Nat
  <2>1. /\ IsFiniteSet(all(R)) /\ IsFiniteSet(all(R) \cup s[x])
        /\ Cardinality(all(R) \cup s[x]) =
             Cardinality(all(R)) + Cardinality(s[x]) - Cardinality(all(R) \cap s[x])
        /\ IsFiniteSet(all(R) \cap s[x])
    BY <1>4, <1>9, FS_Union, FS_Intersection
  <2>2. /\ Cardinality(all(R) \cap s[x]) \in Nat /\ Cardinality(all(R)) \in Nat
        /\ Cardinality(s[x]) \in Nat /\ Cardinality(all(R) \cup s[x]) \in Nat
    BY <1>9, <2>1, FS_CardinalityType
  <2> QED BY <2>1, <2>2
<1>11. ok(S)
  BY <1>4, <1>6, <1>7, <1>8, <1>9, <1>10
<1> QED BY <1>2, <1>11

-----------------------------------------------------------------------------
\* t is s in another order.
Reordered(s, t) ==
  /\ Len(t) = Len(s)
  /\ \E q \in Bijection(1 .. Len(s), 1 .. Len(s)) : \A i \in 1 .. Len(s) : t[i] = s[q[i]]

\* The same elements, as many of them.
Same(s, t) == Len(s) = Len(t) /\ ToSet(s) = ToSet(t)

LEMMA ReorderedElements ==
  ASSUME NEW T, NEW s \in Seq(T), NEW t \in Seq(T), Reordered(s, t)
  PROVE  Same(t, s)
<1> DEFINE D == 1 .. Len(s)
<1>0. Len(t) = Len(s) BY DEF Reordered
<1>1. DOMAIN s = D /\ DOMAIN t = D BY <1>0
<1>2. PICK q \in Bijection(D, D) : \A i \in D : t[i] = s[q[i]] BY DEF Reordered
<1>3. (\A i \in D : q[i] \in D) /\ \A i \in D : \E j \in D : q[j] = i
  BY <1>2 DEF Bijection, Injection, Surjection
<1> HIDE DEF D
<1>4. ASSUME NEW x \in ToSet(t) PROVE x \in ToSet(s)
  <2> PICK i \in D : x = t[i] BY <1>1 DEF ToSet
  <2>1. x = s[q[i]] /\ q[i] \in DOMAIN s BY <1>1, <1>2, <1>3
  <2> QED BY <2>1 DEF ToSet
<1>5. ASSUME NEW x \in ToSet(s) PROVE x \in ToSet(t)
  <2> PICK i \in D : x = s[i] BY <1>1 DEF ToSet
  <2> PICK j \in D : q[j] = i BY <1>3
  <2>1. x = t[j] /\ j \in DOMAIN t BY <1>1, <1>2
  <2> QED BY <2>1 DEF ToSet
<1> QED BY <1>0, <1>4, <1>5 DEF Same

\* The order of the sequences does not matter for what they are together.
LEMMA FlattenReordered ==
  ASSUME NEW T, NEW ss \in Seq(Seq(T)), NEW tt \in Seq(Seq(T)), Reordered(ss, tt)
  PROVE  Same(FlattenSeq(tt), FlattenSeq(ss))
<1> DEFINE D == 1 .. Len(ss)
           f == [i \in D |-> Len(ss[i])]
           h == [i \in D |-> Len(tt[i])]
<1>0. Len(tt) = Len(ss) BY DEF Reordered
<1>1. PICK q \in Bijection(D, D) : \A i \in D : tt[i] = ss[q[i]] BY DEF Reordered
<1>2. (\A i \in D : q[i] \in D) /\ \A i \in D : \E j \in D : q[j] = i
  BY <1>1 DEF Bijection, Injection, Surjection
<1>3. \A i \in D : f[i] \in Int /\ f[i] = Len(ss[i]) /\ h[i] = Len(tt[i])
  BY <1>0
<1>4. \A i \in D : h[i] = f[q[i]] BY <1>1, <1>2, <1>3
<1>5. IsFiniteSet(D) BY FS_Interval
<1> HIDE DEF f, h
<1>6. SumFunctionOnSet(h, D) = SumFunctionOnSet(f, D)
  <2> HIDE DEF D
  <2> QED BY <1>1, <1>3, <1>4, <1>5, SumReordered
<1>7. /\ Len(FlattenSeq(ss)) = SumFunctionOnSet(f, D)
      /\ ToSet(FlattenSeq(ss)) = UNION {ToSet(ss[i]) : i \in D}
  BY <1>3, FlattenSizes
<1>8. /\ Len(FlattenSeq(tt)) = SumFunctionOnSet(h, D)
      /\ ToSet(FlattenSeq(tt)) = UNION {ToSet(tt[i]) : i \in D}
  BY <1>0, <1>3, FlattenSizes
<1>9. ASSUME NEW i \in D PROVE ToSet(tt[i]) = ToSet(ss[q[i]]) /\ q[i] \in D
  BY <1>1, <1>2
<1>10. ASSUME NEW i \in D PROVE \E j \in D : ToSet(ss[i]) = ToSet(tt[j])
  <2> PICK j \in D : q[j] = i BY <1>2
  <2> QED BY <1>9
<1> DEFINE A == {ToSet(tt[i]) : i \in D}  B == {ToSet(ss[i]) : i \in D}
<1> HIDE DEF D
<1>11. A = B
  <2>1. ASSUME NEW x \in A PROVE x \in B
    <3> PICK i \in D : x = ToSet(tt[i]) OBVIOUS
    <3> QED BY <1>9
  <2>2. ASSUME NEW x \in B PROVE x \in A
    <3> PICK i \in D : x = ToSet(ss[i]) OBVIOUS
    <3> QED BY <1>10
  <2> HIDE DEF A, B
  <2> QED BY <2>1, <2>2
<1> QED BY <1>6, <1>7, <1>8, <1>11 DEF Same

\* How many of the keys are before the i-th, or equal and no later.
notAfter(k, n, i) == {j \in 1 .. n : k[j] < k[i] \/ (k[j] = k[i] /\ j <= i)}
rankBy(k, n) == [i \in 1 .. n |-> Cardinality(notAfter(k, n, i))]

LEMMA RanksOnce ==
  ASSUME NEW n \in Nat, NEW k, \A i \in 1 .. n : k[i] \in Int
  PROVE  rankBy(k, n) \in Bijection(1 .. n, 1 .. n)
<1> DEFINE D == 1 .. n  r == rankBy(k, n)  A(i) == notAfter(k, n, i)
<1>1. IsFiniteSet(D) /\ Cardinality(D) = n BY FS_Interval
<1>2. ASSUME NEW i \in D
      PROVE  /\ A(i) \in SUBSET D /\ IsFiniteSet(A(i)) /\ i \in A(i)
             /\ Cardinality(A(i)) \in Nat /\ Cardinality(A(i)) \in D
  <2>1. A(i) \in SUBSET D /\ i \in A(i) BY DEF notAfter
  <2> HIDE DEF A, D
  <2>2. IsFiniteSet(A(i)) /\ Cardinality(A(i)) <= n BY <1>1, <2>1, FS_Subset
  <2>3. Cardinality(A(i)) \in Nat /\ Cardinality(A(i)) # 0
    BY <2>1, <2>2, FS_CardinalityType, FS_EmptySet
  <2> QED BY <2>1, <2>2, <2>3 DEF D
<1>3. ASSUME NEW i \in D, NEW j \in D, i # j, k[i] < k[j] \/ (k[i] = k[j] /\ i <= j)
      PROVE  Cardinality(A(i)) # Cardinality(A(j))
  <2>1. \A x \in A(i) : x \in A(j) BY <1>3 DEF notAfter
  <2>2. j \notin A(i) /\ j \in A(j) BY <1>3 DEF notAfter
  <2> HIDE DEF A
  <2>3. A(i) \in SUBSET A(j) /\ A(i) # A(j) BY <2>1, <2>2
  <2> QED BY <1>2, <2>3, FS_Subset
<1>4. \A i, j \in D : i # j => Cardinality(A(i)) # Cardinality(A(j))
  <2> SUFFICES ASSUME NEW i \in D, NEW j \in D, i # j
               PROVE  Cardinality(A(i)) # Cardinality(A(j))
    OBVIOUS
  <2>1. \/ k[i] < k[j] \/ (k[i] = k[j] /\ i <= j)
        \/ k[j] < k[i] \/ (k[j] = k[i] /\ j <= i)
    OBVIOUS
  <2> HIDE DEF A, D
  <2> QED BY <1>3, <2>1
<1>5. r \in Injection(D, D)
  <2>1. \A i \in D : r[i] = Cardinality(A(i)) BY DEF rankBy
  <2>2. r \in [D -> D]
    <3>1. r = [i \in D |-> r[i]] BY DEF rankBy
    <3> HIDE DEF r, A, D
    <3> QED BY <1>2, <2>1, <3>1
  <2> HIDE DEF r, A, D
  <2> QED BY <1>4, <2>1, <2>2 DEF Injection, IsInjective
<1> HIDE DEF r, D
<1>6. r \in Surjection(D, D) BY <1>1, <1>5, FS_Injection
<1> QED BY <1>5, <1>6 DEF Bijection, r, D

\* s in the order of the ranks of its elements.
ranked(s, rank) == [m \in DOMAIN s |-> s[CHOOSE i \in DOMAIN s : rank[i] = m]]

LEMMA OrderedIsReordered ==
  ASSUME NEW T, NEW s \in Seq(T), NEW k, \A i \in 1 .. Len(s) : k[i] \in Int,
         NEW t, t = ranked(s, rankBy(k, Len(s)))
  PROVE  t \in Seq(T) /\ Reordered(s, t)
<1> DEFINE n == Len(s)  D == 1 .. n  r == rankBy(k, n)
           q == [m \in D |-> CHOOSE i \in D : r[i] = m]
<1>1. n \in Nat /\ \A i \in D : s[i] \in T OBVIOUS
<1>2. r \in Bijection(D, D)
  <2> HIDE DEF n
  <2> QED BY <1>1, RanksOnce DEF n
<1> HIDE DEF r
<1>3. /\ r \in [D -> D] /\ (\A i, j \in D : r[i] = r[j] => i = j)
      /\ \A m \in D : \E i \in D : r[i] = m
  <2> HIDE DEF D
  <2> QED BY <1>2 DEF Bijection, Injection, Surjection, IsInjective
<1> HIDE DEF D
<1>4. \A m \in D : q[m] \in D /\ r[q[m]] = m BY <1>3
<1>5. q \in Bijection(D, D)
  <2>1. q \in [D -> D]
    <3>1. q = [m \in D |-> q[m]] OBVIOUS
    <3> HIDE DEF q
    <3> QED BY <1>4, <3>1
  <2>2. \A i, j \in D : q[i] = q[j] => i = j
    <3> HIDE DEF q
    <3> QED BY <1>4
  <2>3. \A i \in D : q[r[i]] = i /\ r[i] \in D
    <3> HIDE DEF q
    <3> QED BY <1>3, <1>4
  <2> HIDE DEF q
  <2> QED BY <2>1, <2>2, <2>3 DEF Bijection, Injection, Surjection, IsInjective
<1>6. t = [m \in D |-> s[q[m]]]
  BY DOMAIN s = 1 .. Len(s) DEF D, r, ranked
<1> HIDE DEF q, n
<1>7. t \in [D -> T] /\ \A m \in D : t[m] = s[q[m]]
  BY ONLY <1>1, <1>4, <1>6
<1>8. t \in Seq(T) /\ Len(t) = n
  <2>1. n \in Nat /\ t \in [1 .. n -> T] BY <1>1, <1>7 DEF D
  <2> QED BY ONLY <2>1
<1> QED BY <1>5, <1>7, <1>8 DEF Reordered, n, D

\* They come in the order of their keys.
InKeyOrder(t, s, k) ==
  \A l, m \in 1 .. Len(s) :
    l <= m => \E i, j \in 1 .. Len(s) : t[l] = s[i] /\ t[m] = s[j] /\ k[i] <= k[j]

LEMMA RankedIsOrdered ==
  ASSUME NEW T, NEW s \in Seq(T), NEW k, \A i \in 1 .. Len(s) : k[i] \in Int,
         NEW t, t = ranked(s, rankBy(k, Len(s)))
  PROVE  InKeyOrder(t, s, k)
<1> DEFINE n == Len(s)
<1>0. n \in Nat /\ DOMAIN s = 1 .. n /\ t = ranked(s, rankBy(k, n)) /\ \A i \in 1 .. n : k[i] \in Int
  OBVIOUS
<1> SUFFICES ASSUME NEW l \in 1 .. n, NEW m \in 1 .. n, l <= m
             PROVE  \E i, j \in 1 .. n : t[l] = s[i] /\ t[m] = s[j] /\ k[i] <= k[j]
  BY DEF InKeyOrder
<1> HIDE DEF n
<1> DEFINE D == 1 .. n  r == rankBy(k, n)
           i == CHOOSE x \in DOMAIN s : r[x] = l  j == CHOOSE x \in DOMAIN s : r[x] = m
<1>1. r \in Bijection(D, D) BY <1>0, RanksOnce
<1>2. i \in D /\ r[i] = l /\ j \in D /\ r[j] = m
  <2> HIDE DEF r, D
  <2>1. \A y \in D : \E x \in D : r[x] = y BY <1>1 DEF Bijection, Surjection
  <2>2. l \in D /\ m \in D /\ DOMAIN s = D BY <1>0 DEF D
  <2> QED BY <2>1, <2>2
<1>3. t[l] = s[i] /\ t[m] = s[j]
  <2>1. t = ranked(s, r) /\ l \in DOMAIN s /\ m \in DOMAIN s BY <1>0
  <2> HIDE DEF r
  <2> QED BY <2>1 DEF ranked
<1> HIDE DEF i, j
<1>4. ~(k[j] < k[i])
  <2> SUFFICES ASSUME k[j] < k[i] PROVE FALSE OBVIOUS
  <2> DEFINE A == notAfter(k, n, i)  B == notAfter(k, n, j)
  <2>1. B \in SUBSET A
    <3> SUFFICES ASSUME NEW x \in B PROVE x \in A OBVIOUS
    <3>1. x \in D /\ (k[x] < k[j] \/ (k[x] = k[j] /\ x <= j)) BY DEF notAfter
    <3>2. k[x] \in Int /\ k[i] \in Int /\ k[j] \in Int BY <1>0, <1>2, <3>1
    <3>3. k[x] < k[i] BY <3>1, <3>2
    <3> QED BY <3>1, <3>3 DEF notAfter
  <2>2. i \in A /\ i \notin B
    <3>1. k[i] \in Int /\ k[j] \in Int BY <1>0, <1>2
    <3>2. ~(k[i] < k[j]) /\ k[i] # k[j] BY <3>1
    <3> QED BY <1>2, <3>2 DEF notAfter
  <2>3. IsFiniteSet(D) BY <1>0, FS_Interval
  <2>4. A \in SUBSET D BY DEF notAfter
  <2>5. r[i] = Cardinality(A) /\ r[j] = Cardinality(B) BY <1>2 DEF rankBy
  <2> HIDE DEF A, B, D, r
  <2>6. IsFiniteSet(A) BY <2>3, <2>4, FS_Subset
  <2>7. B # A BY <2>2
  <2>8. /\ IsFiniteSet(B) /\ Cardinality(B) <= Cardinality(A)
        /\ Cardinality(B) = Cardinality(A) => B = A
    BY <2>1, <2>6, FS_Subset
  <2>9. Cardinality(A) = l /\ Cardinality(B) = m BY <1>2, <2>5
  <2> QED BY <2>7, <2>8, <2>9
<1>5. k[i] <= k[j]
  <2>1. k[i] \in Int /\ k[j] \in Int BY <1>0, <1>2
  <2> QED BY <1>4, <2>1
<1> QED BY <1>2, <1>3, <1>5

\* Taking elements in turn keeps what each of them keeps: I has the pairs of a
\* number of elements taken and what they may leave.
LEMMA TakingKeeps ==
  ASSUME NEW n \in Nat, NEW S, NEW base, NEW step, NEW g, TakingInTurn(g, n, S, base, step),
         NEW I, <<0, base>> \in I,
         \A m \in 1 .. n, w \in S : <<m - 1, w>> \in I => <<m, step[<<m, w>>]>> \in I
  PROVE  <<n, g[1 .. n]>> \in I /\ g[1 .. n] \in S
<1> DEFINE F == {k \in 0 .. n : <<k, g[1 .. k]>> \in I}
<1>1. 0 \in F BY DEF TakingInTurn
<1>2. ASSUME NEW k \in F, k < n PROVE k + 1 \in F
  <2>1. k \in 0 .. n /\ k + 1 \in 1 .. n /\ k + 1 \in 0 .. n /\ (k + 1) - 1 = k
        /\ <<k, g[1 .. k]>> \in I
    BY <1>2
  <2>2. g[1 .. (k + 1)] = step[<<k + 1, g[1 .. k]>>] /\ g[1 .. k] \in S
    BY <1>2, <2>1 DEF TakingInTurn
  <2>3. <<k + 1, step[<<k + 1, g[1 .. k]>>]>> \in I
    <3> DEFINE m == k + 1  w == g[1 .. k]
    <3>1. m \in 1 .. n /\ w \in S /\ <<m - 1, w>> \in I BY <2>1, <2>2
    <3> HIDE DEF m, w
    <3>2. <<m, step[<<m, w>>]>> \in I BY <3>1
    <3> QED BY <3>2 DEF m, w
  <2> QED BY <2>1, <2>2, <2>3
<1>3. F \in SUBSET (0 .. n) OBVIOUS
<1> HIDE DEF F
<1>4. F = 0 .. n BY <1>1, <1>2, <1>3, NumbersUpTo
<1>5. n \in 0 .. n OBVIOUS
<1> QED BY <1>4, <1>5 DEF F, TakingInTurn

-----------------------------------------------------------------------------
\* The sequences that m makes of the elements of s, one after the other.
spread(m, s) == [i \in DOMAIN s |-> m[s[i]]]
flat(m, s) == FlattenSeq(spread(m, s))

\* t is what m makes of s.
SpreadOf(t, m, s, T) ==
  t \in Seq(Seq(T)) /\ Len(t) = Len(s) /\ \A i \in 1 .. Len(s) : t[i] = m[s[i]]

LEMMA SequenceOf ==
  ASSUME NEW n \in Nat, NEW V, NEW t \in [1 .. n -> V]
  PROVE  t \in Seq(V) /\ Len(t) = n
OBVIOUS

Joins(u, s, t) == u = s \o t

\* ab is a followed by b.
Concatenation(ab, a, b) ==
  /\ Len(ab) = Len(a) + Len(b)
  /\ \A i \in 1 .. Len(a) : ab[i] = a[i]
  /\ \A i \in 1 .. Len(b) : ab[Len(a) + i] = b[i]

LEMMA ConcatenationOf ==
  ASSUME NEW T, NEW a \in Seq(T), NEW b \in Seq(T)
  PROVE  a \o b \in Seq(T) /\ Concatenation(a \o b, a, b)
BY DEF Concatenation

LEMMA SpreadTyped ==
  ASSUME NEW T, NEW U, NEW m \in [U -> Seq(T)], NEW s \in Seq(U)
  PROVE  SpreadOf(spread(m, s), m, s, T)
<1> DEFINE t == spread(m, s)  V == Seq(T)  n == Len(s)
<1>1. n \in Nat /\ DOMAIN s = 1 .. n /\ \A i \in 1 .. n : s[i] \in U
  OBVIOUS
<1>2. t = [i \in 1 .. n |-> m[s[i]]] BY <1>1 DEF spread
<1>3. \A i \in 1 .. n : m[s[i]] \in V BY <1>1
<1> HIDE DEF t, V, n
<1>4. t \in [1 .. n -> V] /\ \A i \in 1 .. n : t[i] = m[s[i]] BY <1>2, <1>3
<1>5. t \in Seq(V) /\ Len(t) = n BY <1>1, <1>4, SequenceOf
<1> QED BY <1>4, <1>5 DEF t, V, n, SpreadOf

LEMMA SpreadConcat ==
  ASSUME NEW T, NEW U, NEW m \in [U -> Seq(T)], NEW s \in Seq(U), NEW t \in Seq(U),
         NEW a, SpreadOf(a, m, s, T), NEW b, SpreadOf(b, m, t, T),
         NEW u \in Seq(U), Joins(u, s, t), NEW c, SpreadOf(c, m, u, T)
  PROVE  Joins(c, a, b)
<1>1. /\ Len(u) = Len(s) + Len(t) /\ Len(s) \in Nat /\ Len(t) \in Nat
      /\ (\A i \in 1 .. Len(s) : u[i] = s[i]) /\ \A i \in 1 .. Len(t) : u[Len(s) + i] = t[i]
  BY DEF Joins
<1> DEFINE V == Seq(T)  ab == a \o b
<1>2. a \in Seq(V) /\ Len(a) = Len(s) /\ \A i \in 1 .. Len(s) : a[i] = m[s[i]]
  BY DEF SpreadOf
<1>3. b \in Seq(V) /\ Len(b) = Len(t) /\ \A i \in 1 .. Len(t) : b[i] = m[t[i]]
  BY DEF SpreadOf
<1>4. c \in Seq(V) /\ Len(c) = Len(u) /\ \A i \in 1 .. Len(u) : c[i] = m[u[i]]
  BY DEF SpreadOf
<1> HIDE DEF V
<1>5. /\ ab \in Seq(V) /\ Len(ab) = Len(s) + Len(t)
      /\ (\A i \in 1 .. Len(s) : ab[i] = a[i]) /\ \A i \in 1 .. Len(t) : ab[Len(s) + i] = b[i]
  <2>1. /\ ab \in Seq(V) /\ Len(ab) = Len(a) + Len(b)
        /\ (\A i \in 1 .. Len(a) : ab[i] = a[i]) /\ \A i \in 1 .. Len(b) : ab[Len(a) + i] = b[i]
    <3>1. ab \in Seq(V) /\ Concatenation(ab, a, b) BY <1>2, <1>3, ConcatenationOf
    <3> HIDE DEF ab
    <3> QED BY <3>1 DEF Concatenation
  <2> HIDE DEF ab
  <2> QED BY <2>1, <1>2, <1>3
<1> HIDE DEF ab
<1>6. ASSUME NEW i \in 1 .. Len(u) PROVE c[i] = ab[i]
  <2>1. CASE i <= Len(s)
    <3>1. i \in 1 .. Len(s) BY <1>1, <2>1
    <3>2. ab[i] = a[i] /\ a[i] = m[s[i]] /\ u[i] = s[i] /\ c[i] = m[u[i]]
      BY ONLY <1>1, <1>2, <1>4, <1>5, <3>1, i \in 1 .. Len(u)
    <3> QED BY <3>2
  <2>2. CASE i > Len(s)
    <3> DEFINE j == i - Len(s)
    <3>1. j \in 1 .. Len(t) /\ Len(s) + j = i BY <1>1, <2>2
    <3> HIDE DEF j
    <3>2. ab[i] = b[j] /\ b[j] = m[t[j]] /\ u[i] = t[j] /\ c[i] = m[u[i]]
      BY ONLY <1>1, <1>3, <1>4, <1>5, <3>1, i \in 1 .. Len(u)
    <3> QED BY <3>2
  <2> QED BY <1>1, <2>1, <2>2
<1>7. c = ab BY <1>1, <1>4, <1>5, <1>6, SeqEqual
<1> QED BY <1>7 DEF ab, Joins

LEMMA FlatConcat ==
  ASSUME NEW T, NEW U, NEW m \in [U -> Seq(T)], NEW s \in Seq(U), NEW t \in Seq(U)
  PROVE  /\ flat(m, s) \in Seq(T) /\ flat(m, t) \in Seq(T)
         /\ \A u : Joins(u, s, t) => Joins(flat(m, u), flat(m, s), flat(m, t))
<1> DEFINE u == s \o t  a == spread(m, s)  b == spread(m, t)  c == spread(m, u)
<1>1. u \in Seq(U) /\ Joins(u, s, t) BY DEF Joins
<1> HIDE DEF u
<1>2. SpreadOf(a, m, s, T) /\ SpreadOf(b, m, t, T) /\ SpreadOf(c, m, u, T)
  BY <1>1, SpreadTyped, Zenon
<1> HIDE DEF a, b, c
<1>3. a \in Seq(Seq(T)) /\ b \in Seq(Seq(T)) BY <1>2 DEF SpreadOf
<1>4. Joins(c, a, b) BY <1>1, <1>2, SpreadConcat, Zenon
<1>5. FlattenSeq(a \o b) = FlattenSeq(a) \o FlattenSeq(b) BY <1>3, FlattenConcat
<1>6. FlattenSeq(a) \in Seq(T) /\ FlattenSeq(b) \in Seq(T) BY <1>3, FlattenTyped
<1>7. Joins(flat(m, u), flat(m, s), flat(m, t))
  <2>1. FlattenSeq(c) = FlattenSeq(a) \o FlattenSeq(b) BY <1>4, <1>5 DEF Joins
  <2> QED BY <2>1 DEF flat, a, b, c, Joins
<1> QED BY <1>6, <1>7 DEF flat, a, b, u, Joins

LEMMA FlatFew ==
  ASSUME NEW T, NEW U, NEW m \in [U -> Seq(T)], NEW x \in U
  PROVE  flat(m, <<>>) = <<>> /\ flat(m, <<x>>) = m[x]
<1>1. flat(m, <<>>) = <<>>
  <2>1. spread(m, <<>>) = <<>> BY DEF spread
  <2> QED BY <2>1, FlattenOfNone DEF flat
<1>2. flat(m, <<x>>) = m[x]
  <2>1. <<x>> \in Seq(U) /\ Len(<<x>>) = 1 /\ <<x>>[1] = x /\ 1 \in 1 .. 1 OBVIOUS
  <2> DEFINE t == spread(m, <<x>>)
  <2>2. t \in Seq(Seq(T)) /\ Len(t) = 1 /\ t[1] = m[x]
    <3>1. SpreadOf(t, m, <<x>>, T) BY <2>1, SpreadTyped, Zenon
    <3> HIDE DEF t
    <3> QED BY <2>1, <3>1 DEF SpreadOf
  <2> HIDE DEF t
  <2>3. m[x] \in Seq(T) /\ <<>> \in Seq(Seq(T)) OBVIOUS
  <2>4. t = Append(<<>>, m[x]) BY <2>2, <2>3
  <2>5. FlattenSeq(t) = FlattenSeq(<<>>) \o m[x] BY <2>3, <2>4, FlattenAppend
  <2>6. <<>> \o m[x] = m[x] BY <2>3
  <2> QED BY <2>5, <2>6, FlattenOfNone DEF flat, t
<1> QED BY <1>1, <1>2

LEMMA FlatReordered ==
  ASSUME NEW T, NEW U, NEW m \in [U -> Seq(T)], NEW s \in Seq(U), NEW t \in Seq(U),
         Reordered(s, t)
  PROVE  Same(flat(m, t), flat(m, s))
<1> DEFINE a == spread(m, s)  b == spread(m, t)  D == 1 .. Len(s)
<1>0. SpreadOf(a, m, s, T) /\ SpreadOf(b, m, t, T)
  BY SpreadTyped, Zenon
<1> HIDE DEF a, b
<1>1. a \in Seq(Seq(T)) /\ Len(a) = Len(s) /\ \A i \in D : a[i] = m[s[i]]
  BY <1>0 DEF SpreadOf
<1>2. b \in Seq(Seq(T)) /\ Len(b) = Len(s) /\ \A i \in D : b[i] = m[t[i]]
  BY <1>0 DEF SpreadOf, Reordered
<1>3. Reordered(a, b)
  <2> PICK q \in Bijection(D, D) : \A i \in D : t[i] = s[q[i]] BY DEF Reordered
  <2>1. \A i \in D : q[i] \in D BY DEF Bijection, Injection
  <2>2. \A i \in D : b[i] = a[q[i]] BY <1>1, <1>2, <2>1
  <2>3. Len(b) = Len(a) /\ D = 1 .. Len(a) BY <1>1, <1>2
  <2> HIDE DEF D
  <2> QED BY <2>2, <2>3 DEF Reordered
<1> QED BY <1>1, <1>2, <1>3, FlattenReordered DEF flat, a, b

-----------------------------------------------------------------------------
\* What the elements of sequences make when these are flattened first: f has how
\* much each sequence makes.
FlatLengths(f, m, ss) == \A i \in 1 .. Len(ss) : f[i] = Len(flat(m, ss[i]))
FlatSizes(f, m, ss) ==
  /\ Len(flat(m, FlattenSeq(ss))) = SumFunctionOnSet(f, 1 .. Len(ss))
  /\ ToSet(flat(m, FlattenSeq(ss))) = UNION {ToSet(flat(m, ss[i])) : i \in 1 .. Len(ss)}

LEMMA FlatFlattened ==
  ASSUME NEW T, NEW U, NEW m \in [U -> Seq(T)], NEW ss \in Seq(Seq(U)),
         NEW f, FlatLengths(f, m, ss)
  PROVE  FlatSizes(f, m, ss)
<1> DEFINE n == Len(ss)
           some(k) == UNION {ToSet(flat(m, ss[i])) : i \in 1 .. k}
<1>1. n \in Nat /\ \A i \in 1 .. n : ss[i] \in Seq(U) OBVIOUS
<1>2. \A s \in Seq(U) : flat(m, s) \in Seq(T)
  <2> SUFFICES ASSUME NEW s \in Seq(U) PROVE flat(m, s) \in Seq(T) OBVIOUS
  <2> QED BY FlatConcat
<1>3. \A i \in 1 .. n : f[i] \in Int /\ f[i] = Len(flat(m, ss[i]))
  <2>1. \A s \in Seq(T) : Len(s) \in Int OBVIOUS
  <2> QED BY <1>1, <1>2, <2>1 DEF FlatLengths
<1>4. PICK up : Flattening(up, ss, U) /\ FlattenSeq(ss) = up[n]
  BY FlattensUp
<1> DEFINE ok(k) == Len(flat(m, up[k])) = SumFunctionOnSet(f, 1 .. k) /\ ToSet(flat(m, up[k])) = some(k)
           F == {k \in 0 .. n : ok(k)}
<1>5. 0 \in F
  <2>1. 1 .. 0 = {} /\ 0 \in 0 .. n /\ Len(<<>>) = 0 /\ ToSet(<<>>) = {} /\ some(0) = {}
    BY <1>1 DEF ToSet
  <2>2. SumFunctionOnSet(f, {}) = 0 BY SumEmpty
  <2>3. up[0] = <<>> BY <1>4 DEF Flattening
  <2>4. flat(m, <<>>) = <<>>
    <3>1. spread(m, <<>>) = <<>> BY DEF spread
    <3> QED BY <3>1, FlattenOfNone DEF flat
  <2> HIDE DEF some, n
  <2> QED BY <2>1, <2>2, <2>3, <2>4
<1>6. ASSUME NEW k \in F, k < n PROVE k + 1 \in F
  <2>1. k \in Nat /\ k \in 0 .. n /\ k + 1 \in 0 .. n /\ k + 1 \in 1 .. n /\ ok(k)
        /\ 1 .. k \subseteq 1 .. n
    BY <1>1, <1>6
  <2> HIDE DEF F
  <2> DEFINE s == up[k]  t == ss[k + 1]  u == up[k + 1]  a == flat(m, s)  b == flat(m, t)  c == flat(m, u)
  <2>2. s \in Seq(U) /\ t \in Seq(U) /\ Joins(u, s, t)
    BY <1>1, <1>4, <1>6, <2>1 DEF Flattening, Joins
  <2>3. a \in Seq(T) /\ b \in Seq(T) /\ Joins(c, a, b)
    <3> HIDE DEF s, t, u
    <3> QED BY <2>2, FlatConcat
  <2>4. Len(b) = f[k + 1] /\ f[k + 1] \in Int BY <1>3, <2>1
  <2>5. ok(k) <=> Len(a) = SumFunctionOnSet(f, 1 .. k) /\ ToSet(a) = some(k) OBVIOUS
  <2>6. ok(k + 1) <=> Len(c) = SumFunctionOnSet(f, 1 .. k + 1) /\ ToSet(c) = some(k + 1) OBVIOUS
  <2>7. some(k + 1) = some(k) \cup ToSet(b)
    <3>1. 1 .. k + 1 = (1 .. k) \cup {k + 1} BY <2>1
    <3> QED BY <3>1
  <2> HIDE DEF a, b, c
  <2>8. Len(c) = Len(a) + Len(b) /\ ToSet(c) = ToSet(a) \cup ToSet(b)
    <3>1. c = a \o b BY <2>3 DEF Joins
    <3> QED BY <2>3, <3>1, ConcatElements
  <2>9. SumFunctionOnSet(f, 1 .. k + 1) = SumFunctionOnSet(f, 1 .. k) + f[k + 1]
    <3> DEFINE x == f[k + 1]
    <3>1. k \in Nat /\ x \in Int /\ f[k + 1] = x /\ \A i \in 1 .. k : f[i] \in Int /\ f[i] = f[i]
      BY <1>3, <2>1, <2>4
    <3> HIDE DEF x
    <3>2. SumFunctionOnSet(f, 1 .. k + 1) = SumFunctionOnSet(f, 1 .. k) + x
      BY ONLY <3>1, SumOneMore
    <3> QED BY <3>1, <3>2
  <2> HIDE DEF some, ok
  <2>10. ok(k + 1) BY <2>1, <2>4, <2>5, <2>6, <2>7, <2>8, <2>9
  <2> HIDE DEF n
  <2> QED BY <2>1, <2>10 DEF F
<1>7. F \in SUBSET (0 .. n) OBVIOUS
<1> HIDE DEF F, n
<1>8. F = 0 .. n BY <1>1, <1>5, <1>6, <1>7, NumbersUpTo
<1>9. n \in F BY <1>1, <1>8
<1> QED BY <1>4, <1>9 DEF F, n, FlatSizes

\* A sum over the indices of one sequence after another.
LEMMA SumJoined ==
  ASSUME NEW n \in Nat, NEW f, \A i \in 1 .. n : f[i] \in Int,
         NEW m \in Nat, NEW g, \A i \in 1 .. m : g[i] \in Int,
         NEW h, \A i \in 1 .. n : h[i] = f[i], \A i \in 1 .. m : h[n + i] = g[i]
  PROVE  SumFunctionOnSet(h, 1 .. n + m) = SumFunctionOnSet(f, 1 .. n) + SumFunctionOnSet(g, 1 .. m)
<1> DEFINE F == {k \in 0 .. m : SumFunctionOnSet(h, 1 .. n + k)
                                  = SumFunctionOnSet(f, 1 .. n) + SumFunctionOnSet(g, 1 .. k)}
<1>1. SumFunctionOnSet(f, 1 .. n) \in Int
  <2>1. IsFiniteSet(1 .. n) BY FS_Interval
  <2> DEFINE D == 1 .. n
  <2>2. IsFiniteSet(D) /\ \A i \in D : f[i] \in Int BY <2>1
  <2> HIDE DEF D
  <2>3. SumFunctionOnSet(f, D) \in Int BY <2>2, SumType
  <2> QED BY <2>3 DEF D
<1>2. SumFunctionOnSet(h, 1 .. n) = SumFunctionOnSet(f, 1 .. n)
  <2>1. IsFiniteSet(1 .. n) BY FS_Interval
  <2> DEFINE D == 1 .. n
  <2>2. IsFiniteSet(D) /\ (\A i \in D : f[i] \in Int) /\ \A i \in D : h[i] = f[i] BY <2>1
  <2> HIDE DEF D
  <2>3. SumFunctionOnSet(h, D) = SumFunctionOnSet(f, D) BY <2>2, SumSame
  <2> QED BY <2>3 DEF D
<1>3. 0 \in F
  <2>1. n + 0 = n /\ 1 .. 0 = {} /\ 0 \in 0 .. m OBVIOUS
  <2>2. SumFunctionOnSet(g, {}) = 0 BY SumEmpty
  <2>3. SumFunctionOnSet(h, 1 .. n + 0) = SumFunctionOnSet(f, 1 .. n) + SumFunctionOnSet(g, 1 .. 0)
    BY <1>1, <1>2, <2>1, <2>2
  <2> QED BY <2>1, <2>3
<1>4. ASSUME NEW k \in F, k < m PROVE k + 1 \in F
  <2> DEFINE j == n + k  x == g[k + 1]
  <2>1. /\ k \in Nat /\ k + 1 \in 0 .. m /\ k + 1 \in 1 .. m /\ j \in Nat /\ j + 1 = n + (k + 1)
        /\ SumFunctionOnSet(h, 1 .. j) = SumFunctionOnSet(f, 1 .. n) + SumFunctionOnSet(g, 1 .. k)
    BY <1>4
  <2>2. x \in Int /\ h[j + 1] = x BY <2>1
  <2>3. \A i \in 1 .. j : h[i] \in Int
    <3> SUFFICES ASSUME NEW i \in 1 .. j PROVE h[i] \in Int OBVIOUS
    <3>1. CASE i <= n
      <4>1. i \in 1 .. n BY <3>1
      <4> QED BY <4>1
    <3>2. CASE i > n
      <4>1. i - n \in 1 .. m /\ n + (i - n) = i BY <1>4, <3>2
      <4>2. h[n + (i - n)] = g[i - n] /\ g[i - n] \in Int BY <4>1
      <4> QED BY <4>1, <4>2
    <3> QED BY <3>1, <3>2
  <2>4. \A i \in 1 .. k : g[i] \in Int BY <1>4
  <2> HIDE DEF F, j, x
  <2>5. SumFunctionOnSet(h, 1 .. j + 1) = SumFunctionOnSet(h, 1 .. j) + x
    <3>1. \A i \in 1 .. j : h[i] = h[i] OBVIOUS
    <3> QED BY ONLY <2>1, <2>2, <2>3, <3>1, SumOneMore
  <2>6. SumFunctionOnSet(g, 1 .. k + 1) = SumFunctionOnSet(g, 1 .. k) + x
        /\ SumFunctionOnSet(g, 1 .. k) \in Int
    <3>1. g[k + 1] = x /\ \A i \in 1 .. k : g[i] = g[i] BY DEF x
    <3> QED BY ONLY <2>1, <2>2, <2>4, <3>1, SumOneMore
  <2>7. SumFunctionOnSet(h, 1 .. n + (k + 1))
          = SumFunctionOnSet(f, 1 .. n) + SumFunctionOnSet(g, 1 .. k + 1)
    <3> DEFINE z == n + (k + 1)  sf == SumFunctionOnSet(f, 1 .. n)  sg == SumFunctionOnSet(g, 1 .. k)
               sh == SumFunctionOnSet(h, 1 .. j)
    <3>1. j + 1 = z /\ sh = sf + sg BY <2>1
    <3>2. sf \in Int /\ sg \in Int /\ x \in Int BY <1>1, <2>2, <2>6
    <3>3. SumFunctionOnSet(h, 1 .. j + 1) = sh + x /\ SumFunctionOnSet(g, 1 .. k + 1) = sg + x
      BY <2>5, <2>6
    <3> HIDE DEF z, sf, sg, sh
    <3>4. SumFunctionOnSet(h, 1 .. z) = sh + x BY <3>1, <3>3
    <3>5. SumFunctionOnSet(h, 1 .. z) = sf + SumFunctionOnSet(g, 1 .. k + 1)
      BY <3>1, <3>2, <3>3, <3>4
    <3> QED BY <3>5 DEF z, sf
  <2> QED BY <2>1, <2>7 DEF F
<1>5. F \in SUBSET (0 .. m) OBVIOUS
<1> HIDE DEF F
<1>6. F = 0 .. m BY <1>3, <1>4, <1>5, NumbersUpTo
<1>7. m \in F BY <1>6
<1> QED BY <1>7 DEF F
=============================================================================

--------------------------- MODULE MirrorTheorems ---------------------------
(***************************************************************************)
(* What the inductive invariant of MirrorInv gives for the two-way         *)
(* protocol (-2, mirror-copy, mirror-stream), for every value of the       *)
(* constants: the safety properties of Mirror, that the synchronization    *)
(* point never moves back, and that the two processes implement the        *)
(* abstract specification MirrorSync.                                      *)
(***************************************************************************)
EXTENDS MirrorStepProofs, FiniteSetTheorems

-----------------------------------------------------------------------------
(* The histogram of generate_histogram. *)

\* A quotient by h lies between 0 and r when the dividend is at most h * r: the
\* arithmetic of histogram boundaries.
LEMMA DivBound ==
    ASSUME NEW a \in Nat, NEW r \in Nat, NEW h \in Nat \ {0}, a <= h * r
    PROVE  a \div h \in 0..r
<1>1. a \div h \in Nat
  BY SMT
<1>2. h * (a \div h) <= a
  BY SMT
<1>3. SUFFICES ASSUME a \div h >= r + 1 PROVE FALSE
  BY <1>1, SMT
<1>4. h * (a \div h) >= h * (r + 1)
  BY <1>1, <1>3, SMT
<1>5. h * (r + 1) = h * r + h
  BY SMT
<1> QED BY <1>1, <1>2, <1>4, <1>5, SMT

\* generate_histogram: a boundary lies within the range it divides.
LEMMA BoundaryBound ==
    ASSUME NEW beg \in Nat, NEW end \in Nat, beg <= end, NEW i \in 0..HIST_COUNT
    PROVE  Boundary(i, beg, end) \in beg..end
<1> DEFINE r == end - beg
<1>1. r \in Nat
  BY SMT
<1>2. i * r \in Nat /\ i * r <= HIST_COUNT * r
  BY <1>1, BoundAssumption, SMT
<1> HIDE DEF r
<1>3. (i * r) \div HIST_COUNT \in 0..r
  BY <1>1, <1>2, DivBound, BoundAssumption
<1> QED BY <1>3, SMT DEF Boundary, r

\* generate_histogram: the last boundary is the end of the range.
LEMMA BoundaryEnd ==
    ASSUME NEW beg \in Nat, NEW end \in Nat, beg <= end
    PROVE  Boundary(HIST_COUNT, beg, end) = end
<1> DEFINE r == end - beg
<1>1. r \in Nat
  BY SMT
<1> HIDE DEF r
<1>2. (HIST_COUNT * r) \div HIST_COUNT = r
  BY <1>1, BoundAssumption, SMT
<1> QED BY <1>2, SMT DEF Boundary, r

\* The reduction of the histogram leaves between 1 and HIST_COUNT slices.
LEMMA CutsCardinality ==
    ASSUME NEW C \in SUBSET (1..(HIST_COUNT - 1))
    PROVE  Cardinality(C) + 1 \in 1..HIST_COUNT /\ IsFiniteSet(C)
<1>1. HIST_COUNT - 1 \in Int /\ 1 \in Int
  BY BoundAssumption
<1>2. /\ IsFiniteSet(1..(HIST_COUNT - 1))
      /\ Cardinality(1..(HIST_COUNT - 1)) =
            IF 1 > HIST_COUNT - 1 THEN 0 ELSE HIST_COUNT - 1 - 1 + 1
  BY <1>1, FS_Interval
<1>3. IsFiniteSet(C) /\ Cardinality(C) <= Cardinality(1..(HIST_COUNT - 1))
  BY <1>2, FS_Subset, Zenon
<1>4. Cardinality(C) \in Nat
  BY <1>3, FS_CardinalityType
<1> QED BY <1>2, <1>3, <1>4, BoundAssumption

\* Every cut is the index of a bucket, or HIST_COUNT.
LEMMA NthCutType ==
    ASSUME NEW C \in SUBSET (1..(HIST_COUNT - 1)), NEW k
    PROVE  NthCut(C, k) \in 0..HIST_COUNT
<1> DEFINE S == {c \in C : Cardinality({d \in C : d <= c}) = k}
<1>1. CASE S = {}
  BY <1>1, BoundAssumption DEF NthCut
<1>2. CASE S # {}
  <2>1. (CHOOSE c \in S : TRUE) \in S
    BY <1>2
  <2>2. (CHOOSE c \in S : TRUE) \in 1..(HIST_COUNT - 1)
    BY <2>1, Zenon
  <2> QED BY <1>2, <2>2, BoundAssumption DEF NthCut
<1> QED BY <1>1, <1>2

\* The slice after the last cut ends where the range ends.
LEMMA LastCutIsEnd ==
    ASSUME NEW C \in SUBSET (1..(HIST_COUNT - 1))
    PROVE  NthCut(C, Cardinality(C) + 1) = HIST_COUNT
<1> DEFINE Below(c) == {d \in C : d <= c}
<1>1. \A c \in C : Cardinality(Below(c)) # Cardinality(C) + 1
  <2> SUFFICES ASSUME NEW c \in C PROVE Cardinality(Below(c)) # Cardinality(C) + 1
    OBVIOUS
  <2>1. IsFiniteSet(C) /\ Below(c) \subseteq C
    BY CutsCardinality
  <2>2. IsFiniteSet(Below(c)) /\ Cardinality(Below(c)) <= Cardinality(C)
    BY <2>1, FS_Subset
  <2> HIDE DEF Below
  <2>3. Cardinality(Below(c)) \in Nat /\ Cardinality(C) \in Nat
    BY <2>1, <2>2, FS_CardinalityType
  <2> QED BY <2>2, <2>3
<1>2. {c \in C : Cardinality({d \in C : d <= c}) = Cardinality(C) + 1} = {}
  BY <1>1, Zenon
<1> QED BY <1>2 DEF NthCut

\* What the reduction leaves in histogram_ary: entries within the range or older,
\* and the end of the range in its last slice.
LEMMA ReducedFacts ==
    ASSUME NEW C \in SUBSET (1..(HIST_COUNT - 1)), NEW beg \in Nat, NEW end \in Nat,
           beg <= end, hist \in [0..(HIST_COUNT + 1) -> Nat],
           \A k \in 0..(HIST_COUNT + 1) : hist[k] <= end
    PROVE  /\ Reduced(C, beg, end) \in [0..(HIST_COUNT + 1) -> 0..end]
           /\ Reduced(C, beg, end)[Cardinality(C) + 1] = end
           /\ Cardinality(C) + 1 \in 1..HIST_COUNT
<1>1. Cardinality(C) + 1 \in 1..HIST_COUNT
  BY CutsCardinality
<1>2. ASSUME NEW k \in 0..(HIST_COUNT + 1)
      PROVE  Boundary(NthCut(C, k), beg, end) \in 0..end
  <2>1. Boundary(NthCut(C, k), beg, end) \in beg..end
    BY NthCutType, BoundaryBound
  <2> QED BY <2>1
<1>3. Reduced(C, beg, end) \in [0..(HIST_COUNT + 1) -> 0..end]
  BY <1>2, BoundAssumption DEF Reduced
<1>4. Boundary(NthCut(C, Cardinality(C) + 1), beg, end) = end
  BY LastCutIsEnd, BoundaryEnd
<1>5. Reduced(C, beg, end)[Cardinality(C) + 1] = end
  BY <1>1, <1>4, BoundAssumption DEF Reduced
<1> QED BY <1>1, <1>3, <1>5

\* Division by h as the comparison of a product: the arithmetic of buckets.
LEMMA DivCompare ==
    ASSUME NEW a \in Nat, NEW h \in Nat \ {0}, NEW t \in Nat
    PROVE  /\ a \div h \in Nat
           /\ h * t <= a => t <= a \div h
           /\ a < h * t => a \div h < t
<1> DEFINE q == a \div h
<1>1. q \in Nat /\ h * q <= a /\ a < h * q + h
  BY SMT
<1> HIDE DEF q
<1>2. ASSUME h * t <= a PROVE t <= q
  <2>1. SUFFICES ASSUME t >= q + 1 PROVE FALSE
    BY <1>1
  <2>2. h * t >= h * (q + 1)
    BY <1>1, <2>1, SMT
  <2>3. h * (q + 1) = h * q + h
    BY <1>1, SMT
  <2>4. h * t \in Nat /\ h * q \in Nat /\ h * (q + 1) \in Nat
    BY <1>1, SMT
  <2> QED BY <1>1, <1>2, <2>2, <2>3, <2>4
<1>3. ASSUME a < h * t PROVE q < t
  <2>1. SUFFICES ASSUME q >= t PROVE FALSE
    BY <1>1
  <2>2. h * q >= h * t
    BY <1>1, <2>1, SMT
  <2>3. h * t \in Nat /\ h * q \in Nat
    BY <1>1, SMT
  <2> QED BY <1>1, <1>3, <2>2, <2>3
<1> QED BY <1>1, <1>2, <1>3 DEF q

\* generate_histogram: boundaries come in the order of their buckets.
LEMMA BoundaryOrder ==
    ASSUME NEW beg \in Nat, NEW end \in Nat, beg < end,
           NEW i \in Nat, NEW j \in Nat, i <= j
    PROVE  /\ Boundary(i, beg, end) \in Nat /\ Boundary(j, beg, end) \in Nat
           /\ Boundary(i, beg, end) <= Boundary(j, beg, end)
<1> DEFINE r == end - beg
           a == i * r
           b == j * r
           qa == a \div HIST_COUNT
           qb == b \div HIST_COUNT
<1>1. r \in Nat
  BY SMT
<1>2. a \in Nat /\ b \in Nat /\ a <= b
  <2> HIDE DEF r
  <2> QED BY <1>1, SMT
<1>3. /\ Boundary(i, beg, end) = beg + qa
      /\ Boundary(j, beg, end) = beg + qb
  BY DEF Boundary
<1> HIDE DEF a, b
<1>4. qa \in Nat /\ qb \in Nat /\ HIST_COUNT * qa <= a
  BY <1>2, BoundAssumption, SMT
<1> HIDE DEF qa
<1>5. HIST_COUNT * qa \in Nat
  BY <1>4, BoundAssumption, SMT
<1>6. HIST_COUNT * qa <= b
  BY <1>2, <1>4, <1>5
<1>7. qa <= b \div HIST_COUNT
  BY <1>2, <1>4, <1>6, BoundAssumption, DivCompare
<1> HIDE DEF qb
<1> QED BY <1>3, <1>4, <1>7 DEF qb

\* The bucket a record is counted in covers its tid: the tid is past the
\* bucket's boundary, or in the first bucket, and at most at the next one.
LEMMA BucketCovers ==
    ASSUME NEW beg \in Nat, NEW end \in Nat, beg < end, NEW t \in beg..end
    PROVE  LET n == BucketOf(t, beg, end)
           IN  /\ n \in Nat /\ t <= Boundary(n + 1, beg, end)
               /\ n # 0 => Boundary(n, beg, end) < t
<1> DEFINE r == end - beg
           u == t - beg
           p == u * HIST_COUNT
           b == p \div r
           H == HIST_COUNT
<1>1. r \in Nat \ {0} /\ u \in Nat /\ H \in Nat \ {0} /\ t = beg + u
  BY BoundAssumption
<1>2. Boundary(b, beg, end) = beg + (b * r) \div H
  BY DEF Boundary
<1>3. BucketOf(t, beg, end) =
        IF t = Boundary(b, beg, end) /\ b # 0 THEN b - 1 ELSE b
  BY DEF BucketOf
<1>x. \A n : Boundary(n, beg, end) = beg + (n * r) \div H
  BY DEF Boundary
<1> HIDE DEF r, u, H
<1>4. p \in Nat /\ p = H * u
  BY <1>1, SMT DEF H
<1> HIDE DEF p
<1>5. b \in Nat /\ r * b <= p /\ p < r * b + r
  BY <1>1, <1>4, SMT
<1> HIDE DEF b
<1>6. /\ b * r \in Nat /\ b * r <= H * u
      /\ (b + 1) * r \in Nat /\ H * u <= (b + 1) * r
  <2>1. r * b = b * r /\ (b + 1) * r = r * b + r /\ r * b \in Nat
    BY <1>1, <1>5, SMT
  <2> QED BY <1>1, <1>4, <1>5, <2>1
<1>7. t <= Boundary(b + 1, beg, end)
  <2> DEFINE c == (b + 1) * r
  <2>1. c \in Nat /\ H * u <= c
    BY <1>6
  <2>2. Boundary(b + 1, beg, end) = beg + c \div H
    BY <1>x
  <2> HIDE DEF c
  <2>3. u <= c \div H /\ c \div H \in Nat
    BY <1>1, <2>1, DivCompare
  <2> QED BY <1>1, <2>2, <2>3
<1>8. Boundary(b, beg, end) <= t /\ Boundary(b, beg, end) \in Nat
  <2> DEFINE c == b * r
  <2>1. c \in Nat /\ c <= H * u
    BY <1>6
  <2>2. Boundary(b, beg, end) = beg + c \div H
    BY <1>x
  <2> HIDE DEF c
  <2>3. c \div H \in 0..u
    BY <1>1, <2>1, DivBound
  <2> QED BY <1>1, <2>2, <2>3
<1>9. b # 0 => Boundary(b - 1, beg, end) < t
  <2>1. SUFFICES ASSUME b # 0 PROVE Boundary(b - 1, beg, end) < t
    OBVIOUS
  <2> DEFINE c == (b - 1) * r
  <2>2. c \in Nat /\ c + r = b * r
    <3>1. b - 1 \in Nat
      BY <1>5, <2>1
    <3> QED BY <1>1, <1>5, <3>1, SMT
  <2>3. H * u \in Nat
    BY <1>1, SMT
  <2>4. c < H * u
    <3> HIDE DEF c
    <3> QED BY <1>1, <1>6, <2>2, <2>3
  <2>5. Boundary(b - 1, beg, end) = beg + c \div H
    BY <1>x
  <2> HIDE DEF c
  <2>6. c \div H \in Nat /\ c \div H < u
    BY <1>1, <2>2, <2>4, DivCompare
  <2> QED BY <1>1, <2>5, <2>6
<1> DEFINE n == BucketOf(t, beg, end)
<1>10. CASE t = Boundary(b, beg, end) /\ b # 0
  <2>1. n = b - 1
    BY <1>3, <1>10
  <2>2. n \in Nat /\ n + 1 = b
    BY <1>5, <1>10, <2>1
  <2> HIDE DEF n
  <2>3. t <= Boundary(n + 1, beg, end)
    BY <1>8, <1>10, <2>2
  <2>4. Boundary(n, beg, end) < t
    BY <1>9, <1>10, <2>1
  <2> QED BY <2>2, <2>3, <2>4 DEF n
<1>11. CASE ~(t = Boundary(b, beg, end) /\ b # 0)
  <2>1. n = b
    BY <1>3, <1>11
  <2> HIDE DEF n
  <2>2. n # 0 => Boundary(n, beg, end) < t
    BY <1>1, <1>8, <1>11, <2>1
  <2> QED BY <1>5, <1>7, <2>1, <2>2 DEF n
<1> QED BY <1>10, <1>11

-----------------------------------------------------------------------------
(* The slices that the reduction of the histogram leaves. *)

\* The place of a cut among the cuts, counted from 1.
Rank(C, c) == Cardinality({d \in C : d <= c})

\* A cut has a place among the cuts, and a later cut has a later one.
LEMMA RankOrder ==
    ASSUME NEW C \in SUBSET (1..(HIST_COUNT - 1))
    PROVE  /\ \A c \in C : Rank(C, c) \in 1..Cardinality(C)
           /\ \A c, d \in C : c < d => Rank(C, c) < Rank(C, d)
<1> DEFINE Below(c) == {d \in C : d <= c}
<1>1. IsFiniteSet(C) /\ Cardinality(C) \in Nat /\ \A c \in C : c \in Int
  BY CutsCardinality, FS_CardinalityType, BoundAssumption
<1>2. ASSUME NEW c \in C
      PROVE  /\ IsFiniteSet(Below(c)) /\ Cardinality(Below(c)) \in Nat
             /\ Cardinality(Below(c)) <= Cardinality(C) /\ Cardinality(Below(c)) # 0
  <2>1. Below(c) \in SUBSET C /\ c \in Below(c)
    BY <1>1
  <2> HIDE DEF Below
  <2>2. IsFiniteSet(Below(c)) /\ Cardinality(Below(c)) <= Cardinality(C)
    BY <1>1, <2>1, FS_Subset
  <2> QED BY <2>1, <2>2, FS_CardinalityType, FS_EmptySet
<1>3. ASSUME NEW c \in C, NEW d \in C, c < d
      PROVE  Cardinality(Below(c)) < Cardinality(Below(d))
  <2>1. Below(c) \cup {d} \in SUBSET Below(d) /\ d \notin Below(c)
    <3>1. \A e \in Below(c) : e \in C /\ e <= d
      BY <1>1, <1>3
    <3>2. d \in Below(d) /\ d \notin Below(c)
      BY <1>1, <1>3
    <3>3. \A e \in Below(c) : e \in Below(d)
      BY <3>1
    <3> HIDE DEF Below
    <3> QED BY <3>2, <3>3
  <2>2. IsFiniteSet(Below(c)) /\ Cardinality(Below(c)) \in Nat
        /\ IsFiniteSet(Below(d)) /\ Cardinality(Below(d)) \in Nat
    BY <1>2
  <2> HIDE DEF Below
  <2>3. Cardinality(Below(c) \cup {d}) = Cardinality(Below(c)) + 1
    BY <2>1, <2>2, FS_AddElement, Zenon
  <2>4. Cardinality(Below(c) \cup {d}) <= Cardinality(Below(d))
    BY <2>1, <2>2, FS_Subset
  <2> QED BY <2>2, <2>3, <2>4
<1>4. \A c \in C : Rank(C, c) = Cardinality(Below(c))
  BY DEF Rank
<1> HIDE DEF Below
<1>5. ASSUME NEW c \in C PROVE Rank(C, c) \in 1..Cardinality(C)
  BY <1>1, <1>2, <1>4
<1> QED BY <1>3, <1>4, <1>5

\* Every place among the cuts is taken.
LEMMA RankOnto ==
    ASSUME NEW C \in SUBSET (1..(HIST_COUNT - 1)), NEW k \in 1..Cardinality(C)
    PROVE  \E c \in C : Rank(C, c) = k
<1> DEFINE n == Cardinality(C)
           f == [c \in C |-> Rank(C, c)]
<1>1. IsFiniteSet(C) /\ n \in Nat /\ \A c \in C : c \in Int
  BY CutsCardinality, FS_CardinalityType, BoundAssumption
<1>2. IsFiniteSet(1..n) /\ Cardinality(1..n) = n
  <2> HIDE DEF n
  <2>1. 1 \in Int /\ n \in Int
    BY <1>1
  <2>2. IsFiniteSet(1..n) /\ Cardinality(1..n) = IF 1 > n THEN 0 ELSE n - 1 + 1
    BY <2>1, FS_Interval
  <2> QED BY <1>1, <2>2
<1>3. f \in [C -> 1..n]
  BY RankOrder
<1>4. ASSUME NEW c \in C, NEW d \in C, f[c] = f[d] PROVE c = d
  <2>1. Rank(C, c) = Rank(C, d) /\ Rank(C, c) \in Int /\ c \in Int /\ d \in Int
    BY <1>1, <1>4, RankOrder
  <2>2. ~(c < d) /\ ~(d < c)
    BY <2>1, RankOrder
  <2> QED BY <2>1, <2>2
<1> HIDE DEF n
<1>5. f \in Injection(C, 1..n)
  BY <1>3, <1>4 DEF Injection, IsInjective
<1>6. f \in Surjection(C, 1..n)
  BY <1>2, <1>5, FS_Injection DEF n
<1>7. k \in 1..n
  BY DEF n
<1>8. PICK c \in C : f[c] = k
  BY <1>6, <1>7, Zenon DEF Surjection
<1> QED BY <1>8

\* The k-th cut is a cut in the k-th place, and the only one.
LEMMA NthCutRank ==
    ASSUME NEW C \in SUBSET (1..(HIST_COUNT - 1)), NEW k \in 1..Cardinality(C)
    PROVE  NthCut(C, k) \in C /\ Rank(C, NthCut(C, k)) = k
<1> DEFINE S == {c \in C : Cardinality({d \in C : d <= c}) = k}
<1>1. S = {c \in C : Rank(C, c) = k}
  BY DEF Rank
<1>2. S # {}
  BY <1>1, RankOnto, Zenon
<1>3. NthCut(C, k) = CHOOSE c \in S : TRUE
  BY <1>2 DEF NthCut
<1> HIDE DEF S
<1>4. NthCut(C, k) \in S
  BY <1>2, <1>3
<1> QED BY <1>1, <1>4

\* The slice that cut k closes began at cut k - 1, or at bucket 0.
LEMMA LastCutIsPrevious ==
    ASSUME NEW C \in SUBSET (1..(HIST_COUNT - 1)), NEW k \in 1..Cardinality(C)
    PROVE  LastCut(C, NthCut(C, k)) = IF k = 1 THEN 0 ELSE NthCut(C, k - 1)
<1> DEFINE i == NthCut(C, k)
           z == IF k = 1 THEN 0 ELSE NthCut(C, k - 1)
           Last(c) == c < i /\ \A d \in C \cup {0} : d < i => d <= c
<1>1. Cardinality(C) \in Nat /\ k \in Nat /\ \A c \in C : c \in Nat /\ 0 < c
  BY CutsCardinality, FS_CardinalityType, BoundAssumption
<1>2. i \in C /\ Rank(C, i) = k
  BY NthCutRank
<1>3. ASSUME NEW d \in C, d < i PROVE Rank(C, d) \in Nat /\ Rank(C, d) < k /\ k # 1
  <2>1. Rank(C, d) \in 1..Cardinality(C) /\ Rank(C, d) < k
    BY <1>2, <1>3, RankOrder, Zenon
  <2> QED BY <1>1, <2>1
<1>4. z \in C \cup {0} /\ Last(z)
  <2>1. CASE k = 1
    <3> HIDE DEF i
    <3> QED BY <1>1, <1>2, <1>3, <2>1
  <2>2. CASE k # 1
    <3>1. k - 1 \in 1..Cardinality(C)
      BY <1>1, <2>2
    <3>2. z \in C /\ Rank(C, z) = k - 1
      BY <2>2, <3>1, NthCutRank
    <3> HIDE DEF i, z
    <3>3. z < i
      <4>1. ~(i < z) /\ z # i
        <5>1. i < z => k < k - 1
          BY <1>2, <3>2, RankOrder
        <5> QED BY <1>1, <1>2, <3>2, <5>1
      <4> QED BY <1>1, <1>2, <3>2, <4>1
    <3>4. ASSUME NEW d \in C, d < i PROVE d <= z
      <4>1. ~(z < d)
        <5>1. z < d => k - 1 < Rank(C, d)
          BY <3>2, RankOrder
        <5> QED BY <1>1, <1>3, <3>4, <5>1
      <4> QED BY <1>1, <3>2, <4>1
    <3> QED BY <1>1, <3>2, <3>3, <3>4
  <2> QED BY <2>1, <2>2
<1>5. ASSUME NEW c \in C \cup {0}, Last(c) PROVE c = z
  <2> HIDE DEF i, z
  <2>1. c <= z /\ z <= c /\ c \in Nat /\ z \in Nat
    BY <1>1, <1>4, <1>5
  <2> QED BY <2>1
<1>6. LastCut(C, i) = CHOOSE c \in C \cup {0} : Last(c)
  BY DEF LastCut
<1> HIDE DEF i, z, Last
<1>7. LastCut(C, i) = z
  BY <1>4, <1>5, <1>6
<1> QED BY <1>7 DEF i, z

\* The source has finitely many records, whatever the bounds.
LEMMA RecordsFinite == IsFiniteSet(Records)
<1> DEFINE f == [x \in Records |-> <<x.tid, x.key>>]
<1>1. IsFiniteSet(Tids) /\ IsFiniteSet(Keys)
  BY FS_Interval, BoundAssumption DEF Tids, Keys
<1>2. IsFiniteSet(Tids \X Keys)
  BY <1>1, FS_Product
<1>3. f \in [Records -> Tids \X Keys]
  BY DEF Records
<1>4. ASSUME NEW x \in Records, NEW y \in Records, f[x] = f[y] PROVE x = y
  BY <1>4 DEF Records
<1>5. f \in Injection(Records, Tids \X Keys)
  BY <1>3, <1>4 DEF Injection, IsInjective
<1> QED BY <1>2, <1>5, FS_Injection

\* A smaller part of the source's records counts no more than a larger one.
LEMMA RecordsCount ==
    ASSUME NEW R \in SUBSET Records, NEW Q \in SUBSET R
    PROVE  /\ Cardinality(Q) \in Nat /\ Cardinality(R) \in Nat
           /\ Cardinality(Q) <= Cardinality(R)
<1>1. IsFiniteSet(R)
  BY RecordsFinite, FS_Subset
<1> QED BY <1>1, FS_Subset, FS_CardinalityType

\* generate_histogram: every slice that a cut closes holds at least SplitupOpt
\* of the source's records, when a slice is taken to include its end.
LEMMA CutSlices ==
    ASSUME src \subseteq Records,
           NEW C \in SUBSET (1..(HIST_COUNT - 1)), NEW beg \in Nat, NEW end \in Nat,
           beg < end, IsCuts(C, beg, end), NEW k \in 1..Cardinality(C)
    PROVE  SplitupOpt <= Cardinality({x \in src :
             /\ x.tid <= Boundary(NthCut(C, k), beg, end)
             /\ IF k = 1 THEN x.tid >= beg
                ELSE x.tid > Boundary(NthCut(C, k - 1), beg, end)})
<1> DEFINE j == NthCut(C, k)
           i == IF k = 1 THEN 0 ELSE NthCut(C, k - 1)
           Q == {x \in InRange(beg, end, 1) : BucketOf(x.tid, beg, end) \in i..(j - 1)}
           R == {x \in src : /\ x.tid <= Boundary(NthCut(C, k), beg, end)
                             /\ IF k = 1 THEN x.tid >= beg
                                ELSE x.tid > Boundary(NthCut(C, k - 1), beg, end)}
<1>1. Cardinality(C) \in Nat /\ k \in Nat
  BY CutsCardinality, FS_CardinalityType
<1>2. j \in C /\ j \in Nat /\ i \in Nat /\ (k # 1 => i # 0)
  <2>1. j \in C
    BY NthCutRank
  <2>2. k # 1 => NthCut(C, k - 1) \in C
    BY <1>1, NthCutRank
  <2>3. \A c \in C : c \in Nat /\ c # 0
    BY BoundAssumption
  <2> QED BY <2>1, <2>2, <2>3, Zenon
<1>3. Counted(LastCut(C, j), j - 1, beg, end) >= SplitupOpt
  BY <1>2 DEF IsCuts
<1>4. LastCut(C, j) = i
  BY LastCutIsPrevious
<1>5. Cardinality(Q) >= SplitupOpt
  BY <1>3, <1>4 DEF Counted
<1>6. ASSUME NEW x \in Q PROVE x \in R
  <2> DEFINE n == BucketOf(x.tid, beg, end)
  <2>1. x \in src /\ x.tid \in Nat /\ x.tid \in beg..end
    BY BoundAssumption DEF InRange, Records, Tids
  <2>2. n \in i..(j - 1)
    BY <1>6
  <2>3. /\ n \in Nat /\ x.tid <= Boundary(n + 1, beg, end)
        /\ n # 0 => Boundary(n, beg, end) < x.tid
    BY <2>1, BucketCovers
  <2> HIDE DEF n, i, j
  <2>4. n + 1 \in Nat /\ n + 1 <= j /\ i <= n
    BY <1>2, <2>2, <2>3
  <2>5. /\ Boundary(n + 1, beg, end) \in Nat /\ Boundary(j, beg, end) \in Nat
        /\ Boundary(n + 1, beg, end) <= Boundary(j, beg, end)
    BY <1>2, <2>4, BoundaryOrder
  <2>6. /\ Boundary(i, beg, end) \in Nat /\ Boundary(n, beg, end) \in Nat
        /\ Boundary(i, beg, end) <= Boundary(n, beg, end)
    BY <1>2, <2>3, <2>4, BoundaryOrder, Zenon
  <2>7. x.tid <= Boundary(j, beg, end) /\ x.tid >= beg
    BY <2>1, <2>3, <2>5
  <2>8. k # 1 => n # 0
    BY <1>2, <2>3, <2>4
  <2>9. k # 1 => x.tid > Boundary(i, beg, end)
    BY <2>1, <2>3, <2>6, <2>8
  <2> QED BY <2>1, <2>7, <2>9 DEF i, j
<1>7. Q \in SUBSET R /\ R \in SUBSET Records
  <2>1. R \in SUBSET Records
    OBVIOUS
  <2> HIDE DEF Q, R
  <2> QED BY <1>6, <2>1
<1> HIDE DEF Q, R
<1>8. Cardinality(Q) \in Nat /\ Cardinality(R) \in Nat /\ Cardinality(Q) <= Cardinality(R)
  BY <1>7, RecordsCount
<1>9. SplitupOpt <= Cardinality(R)
  BY <1>5, <1>8, BoundAssumption
<1> QED BY <1>9 DEF R

-----------------------------------------------------------------------------
(* The range of a round. *)

\* What a step that sends range r, cut from histogram h, leaves behind.
Sent(r, h) ==
    /\ rd' \in RdType
    /\ toTgt' = Append(toTgt, PFSD(rd'.tid_end))
    /\ rd'.tid_beg = r.tid_beg /\ rd'.key_beg = r.key_beg
    /\ rd'.histmax = r.histmax
    /\ \/ rd'.tid_end = r.tid_end
       \/ \E k \in 0..(HIST_COUNT + 1) : rd'.tid_end = h[k]
    /\ \/ rd'.pc = "done" /\ ~rd'.didwork /\ ~rd'.histogram
       \/ /\ rd'.pc = "bulk" /\ rd'.didwork /\ rd'.tid_beg < rd'.tid_end
          /\ rd'.histogram => /\ rd'.histindex \in 1..rd'.histmax
                              /\ rd'.streaming # 0
                              /\ rd'.tid_end = h[rd'.histindex]

\* The locals r once a histogram of m slices has been made.
SlicedRd(r, m) ==
    [[r EXCEPT !.histogram = TRUE, !.histindex = 0,
               !.streaming = IF @ = 0 THEN -1 ELSE @] EXCEPT !.histmax = m]

\* The fields of SlicedRd.
LEMMA SlicedFacts ==
    ASSUME NEW r \in RdType, NEW m \in 0..HIST_COUNT
    PROVE  /\ SlicedRd(r, m) \in RdType
           /\ SlicedRd(r, m).tid_beg = r.tid_beg
           /\ SlicedRd(r, m).key_beg = r.key_beg
           /\ SlicedRd(r, m).tid_end = r.tid_end
           /\ SlicedRd(r, m).histogram /\ SlicedRd(r, m).histindex = 0
           /\ SlicedRd(r, m).histmax = m /\ SlicedRd(r, m).streaming # 0
<1> DEFINE st == IF r.streaming = 0 THEN -1 ELSE r.streaming
<1>1. st \in {-1, 0, 1} /\ st # 0 /\ 0 \in 0..(HIST_COUNT + 1) /\ TRUE \in BOOLEAN
  BY BoundAssumption DEF RdType
<1>2. SlicedRd(r, m) = [r EXCEPT !.histogram = TRUE, !.histindex = 0,
                                 !.streaming = st, !.histmax = m]
  BY DEF SlicedRd, RdType
<1> HIDE DEF st
<1> QED BY <1>1, <1>2, Zenon DEF RdType

\* Sending a range, or a slice of histogram h, either starts a scan that lies
\* within h or finds nothing to do.
LEMMA SendRangeFacts ==
    ASSUME TwoWayPipeOpt, NEW r \in RdType,
           NEW h \in [0..(HIST_COUNT + 1) -> Tids],
           r.histogram => /\ r.streaming # 0 /\ r.histindex <= r.histmax
                          /\ r.histindex = r.histmax =>
                               r.tid_beg >= h[r.histindex + 1],
           SendRange(r, h)
    PROVE  Sent(r, h)
<1> USE DEF Sent
<1> DEFINE sl == r.streaming # 0 /\ r.histogram
           r1 == IF sl THEN [r EXCEPT !.histindex = @ + 1,
                                      !.tid_end = h[r.histindex + 1]]
                 ELSE r
<1>1. r.histogram => r.histindex + 1 \in 0..(HIST_COUNT + 1)
                     /\ h[r.histindex + 1] \in Tids
  BY BoundAssumption DEF RdType
<1>2. /\ r1 \in RdType /\ r1.tid_beg = r.tid_beg /\ r1.key_beg = r.key_beg
      /\ r1.histmax = r.histmax /\ r1.histogram = r.histogram
      /\ r1.streaming = r.streaming
      /\ sl => r1.histindex = r.histindex + 1 /\ r1.tid_end = h[r1.histindex]
      /\ ~sl => r1.histindex = r.histindex /\ r1.tid_end = r.tid_end
  BY <1>1, Zenon DEF RdType
<1>3. toTgt' = Append(toTgt, PFSD(r1.tid_end)) /\ rd' = StartScan(r1)
  BY DEF SendRange, WithCycle
<1>4. \/ r1.tid_end = r.tid_end
      \/ \E k \in 0..(HIST_COUNT + 1) : r1.tid_end = h[k]
  BY <1>1, <1>2
<1> HIDE DEF r1
<1>5. /\ r1.tid_beg \in Nat /\ r1.tid_end \in Nat /\ r.histindex \in Nat
      /\ r.histmax \in Nat
  BY <1>2, BoundAssumption DEF RdType, Tids
<1>6. "done" \in RdPcs /\ "bulk" \in RdPcs
  BY DEF RdPcs
<1>7. CASE NoWork(r1)
  <2>1. rd' = [r1 EXCEPT !.pc = "done", !.didwork = FALSE, !.histogram = FALSE]
    BY <1>3, <1>7 DEF StartScan
  <2>2. rd' \in RdType
    BY <1>2, <1>6, <2>1, Zenon DEF RdType
  <2>3. /\ rd'.pc = "done" /\ ~rd'.didwork /\ ~rd'.histogram
        /\ rd'.tid_beg = r1.tid_beg /\ rd'.key_beg = r1.key_beg
        /\ rd'.histmax = r1.histmax /\ rd'.tid_end = r1.tid_end
    BY <1>2, <2>1 DEF RdType
  <2> QED BY <1>2, <1>3, <1>4, <2>2, <2>3
<1>8. CASE ~NoWork(r1)
  <2>1. rd' = [r1 EXCEPT !.pc = "bulk", !.didwork = TRUE]
    BY <1>3, <1>8 DEF StartScan
  <2>2. rd' \in RdType
    BY <1>2, <1>6, <2>1, Zenon DEF RdType
  <2>3. /\ rd'.pc = "bulk" /\ rd'.didwork /\ rd'.histogram = r1.histogram
        /\ rd'.tid_beg = r1.tid_beg /\ rd'.key_beg = r1.key_beg
        /\ rd'.histmax = r1.histmax /\ rd'.tid_end = r1.tid_end
        /\ rd'.histindex = r1.histindex /\ rd'.streaming = r1.streaming
    BY <1>2, <2>1 DEF RdType
  <2>4. r1.tid_beg < r1.tid_end
    BY <1>5, <1>8 DEF NoWork
  <2>5. r.histogram => r.histindex # r.histmax
    BY <1>2, <1>5, <2>4
  <2>6. r.histogram => r1.histindex \in 1..r1.histmax /\ r1.tid_end = h[r1.histindex]
    BY <1>2, <1>5, <2>5
  <2> QED BY <1>2, <1>3, <1>4, <2>2, <2>3, <2>4, <2>6
<1> QED BY <1>7, <1>8

\* What RdRange leaves behind.
RangeFacts ==
    /\ rd' \in RdType /\ hist' \in [0..(HIST_COUNT + 1) -> Tids]
    /\ toTgt' = Append(toTgt, PFSD(rd'.tid_end))
    /\ rd'.tid_beg = tgtEnd + 1 /\ rd'.key_beg = 1
    /\ rd'.tid_end <= srcEnd
    /\ \A k \in 0..(HIST_COUNT + 1) : hist'[k] <= srcEnd
    /\ rd'.histmax # 0 =>
         \A k \in 0..(HIST_COUNT + 1) : hist'[k] <= hist'[rd'.histmax]
    /\ \/ rd'.pc = "done" /\ ~rd'.didwork /\ ~rd'.histogram
       \/ /\ rd'.pc = "bulk" /\ rd'.didwork /\ rd'.tid_beg < rd'.tid_end
          /\ rd'.histogram => /\ rd'.histindex \in 1..rd'.histmax
                              /\ rd'.streaming # 0
                              /\ rd'.tid_end = hist'[rd'.histindex]

\* RdRange: the range sent begins after the target's snapshot and ends within
\* the source, whether it is the whole range, a slice or past the last slice.
LEMMA RdRangeFacts ==
    ASSUME TwoWayPipeOpt, IInv, RdRange
    PROVE  RangeFacts
<1> USE DEF IInv, TwoWayInv
<1> DEFINE beg == tgtEnd + 1
           r == [rd EXCEPT !.tid_beg = beg, !.tid_end = srcEnd]
<1>1. /\ rd \in RdType /\ rd.pc = "range" /\ ~Down(wr)
      /\ hist \in [0..(HIST_COUNT + 1) -> Tids]
      /\ srcEnd \in Tids /\ tgtEnd \in Tids
  BY Zenon DEF RdRange, CanSend, TypeOK
<1>2. /\ srcEnd \in Nat /\ tgtEnd \in Nat /\ beg \in Nat /\ beg \in 0..(MaxTid + 1)
      /\ hist \in [0..(HIST_COUNT + 1) -> Nat]
      /\ \A k \in 0..(HIST_COUNT + 1) : hist[k] \in Nat
  BY <1>1, BoundAssumption DEF Tids
<1>3. rd.tid_beg = beg /\ rd.key_beg = 1 /\ tgtEnd <= srcEnd
  BY <1>1 DEF RdPhase, RoundInv, FsInv
<1>4. /\ \A k \in 0..(HIST_COUNT + 1) : hist[k] <= srcEnd
      /\ rd.histmax # 0 => \A k \in 0..(HIST_COUNT + 1) : hist[k] <= hist[rd.histmax]
      /\ rd.histogram => /\ rd.streaming # 0 /\ rd.histindex <= rd.histmax
                         /\ rd.histmax # 0
                         /\ rd.histindex = rd.histmax => tgtEnd >= hist[rd.histmax]
  BY <1>1 DEF HistInv
<1>5. (IF rd.tid_beg < SyncBegTid THEN SyncBegTid ELSE rd.tid_beg) = beg
  BY <1>2, <1>3 DEF SyncBegTid
<1>6. /\ r \in RdType /\ r.tid_beg = beg /\ r.tid_end = srcEnd /\ r.key_beg = 1
      /\ r.histogram = rd.histogram /\ r.histindex = rd.histindex
      /\ r.histmax = rd.histmax /\ r.streaming = rd.streaming
  BY <1>1, <1>2, <1>3, Zenon DEF RdType
<1>7. \/ SendRange(r, hist) /\ UNCHANGED hist
      \/ beg >= srcEnd /\ SendRange(SlicedRd(r, 0), hist) /\ UNCHANGED hist
      \/ /\ beg < srcEnd
         /\ \E C \in SUBSET (1..(HIST_COUNT - 1)) :
              /\ hist' = Reduced(C, beg, srcEnd)
              /\ SendRange(SlicedRd(r, Cardinality(C) + 1), hist')
  BY <1>5, Zenon DEF RdRange, SlicedRd
<1> HIDE DEF r
<1>8. ASSUME NEW R \in RdType, Sent(R, hist'),
             R.tid_beg = beg, R.key_beg = 1, R.tid_end = srcEnd,
             hist' \in [0..(HIST_COUNT + 1) -> Tids],
             \A k \in 0..(HIST_COUNT + 1) : hist'[k] <= srcEnd,
             R.histmax # 0 =>
                \A k \in 0..(HIST_COUNT + 1) : hist'[k] <= hist'[R.histmax]
      PROVE  RangeFacts
  BY <1>2, <1>8 DEF Sent, RangeFacts
<1>9. CASE SendRange(r, hist) /\ UNCHANGED hist
  <2>1. r.histogram /\ r.histindex = r.histmax => r.tid_beg >= hist[r.histindex + 1]
    <3>1. r.histmax \in 0..HIST_COUNT
      BY <1>6 DEF RdType
    <3>2. r.histmax + 1 \in 0..(HIST_COUNT + 1) /\ r.histmax \in 0..(HIST_COUNT + 1)
      BY <3>1, BoundAssumption
    <3> QED BY <1>2, <1>4, <1>6, <3>2
  <2>2. Sent(r, hist)
    BY <1>1, <1>4, <1>6, <1>9, <2>1, SendRangeFacts, Zenon
  <2>3. hist' = hist
    BY <1>9
  <2>4. Sent(r, hist')
    BY <2>2, <2>3
  <2> QED BY <1>1, <1>4, <1>6, <1>8, <2>3, <2>4
<1>10. CASE beg >= srcEnd /\ SendRange(SlicedRd(r, 0), hist) /\ UNCHANGED hist
  <2> DEFINE z == SlicedRd(r, 0)
  <2>1. /\ z \in RdType /\ z.tid_beg = beg /\ z.tid_end = srcEnd
        /\ z.key_beg = 1 /\ z.histogram /\ z.histindex = 0
        /\ z.histmax = 0 /\ z.streaming # 0
    BY <1>6, SlicedFacts, BoundAssumption
  <2>2. SendRange(z, hist) /\ hist' = hist
    BY <1>10
  <2> HIDE DEF z
  <2>3. 1 \in 0..(HIST_COUNT + 1) /\ z.histindex + 1 = 1 /\ z.histindex <= z.histmax
    BY <2>1, BoundAssumption
  <2>4. z.tid_beg >= hist[z.histindex + 1]
    BY <1>2, <1>4, <1>10, <2>1, <2>3
  <2>5. Sent(z, hist)
    BY <1>1, <2>1, <2>2, <2>3, <2>4, SendRangeFacts, Zenon
  <2>6. Sent(z, hist')
    BY <2>2, <2>5
  <2> QED BY <1>1, <1>4, <1>8, <2>1, <2>2, <2>6
<1>11. CASE /\ beg < srcEnd
            /\ \E C \in SUBSET (1..(HIST_COUNT - 1)) :
                 /\ hist' = Reduced(C, beg, srcEnd)
                 /\ SendRange(SlicedRd(r, Cardinality(C) + 1), hist')
  <2> PICK C \in SUBSET (1..(HIST_COUNT - 1)) :
              /\ hist' = Reduced(C, beg, srcEnd)
              /\ SendRange(SlicedRd(r, Cardinality(C) + 1), hist')
    BY <1>11
  <2> DEFINE m == Cardinality(C) + 1
             z == SlicedRd(r, m)
  <2>1. beg <= srcEnd
    BY <1>2, <1>11
  <2> HIDE DEF beg
  <2>2. /\ Reduced(C, beg, srcEnd) \in [0..(HIST_COUNT + 1) -> 0..srcEnd]
        /\ Reduced(C, beg, srcEnd)[m] = srcEnd /\ m \in 1..HIST_COUNT
    BY <1>2, <1>4, <2>1, ReducedFacts
  <2>3. /\ hist' \in [0..(HIST_COUNT + 1) -> 0..srcEnd]
        /\ hist'[m] = srcEnd /\ m \in 0..HIST_COUNT /\ m # 0
    BY <2>2, BoundAssumption
  <2>4. SendRange(z, hist')
    OBVIOUS
  <2> HIDE DEF m
  <2>5. hist' \in [0..(HIST_COUNT + 1) -> Tids]
    <3>1. 0..srcEnd \subseteq Tids
      BY <1>1, BoundAssumption DEF Tids
    <3> QED BY <2>3, <3>1
  <2>6. \A k \in 0..(HIST_COUNT + 1) : hist'[k] <= srcEnd
    BY <1>2, <2>3
  <2>7. /\ z \in RdType /\ z.tid_beg = beg /\ z.tid_end = srcEnd
        /\ z.key_beg = 1 /\ z.histogram /\ z.histindex = 0
        /\ z.histmax = m /\ z.streaming # 0
    BY <1>6, <2>3, SlicedFacts
  <2> HIDE DEF z
  <2>8. z.histindex <= z.histmax /\ z.histindex # z.histmax
    BY <2>3, <2>7, BoundAssumption
  <2>9. Sent(z, hist')
    BY <2>4, <2>5, <2>7, <2>8, SendRangeFacts
  <2> QED BY <1>8, <2>3, <2>5, <2>6, <2>7, <2>9 DEF beg
<1> QED BY <1>7, <1>9, <1>10, <1>11

\* The range header preserves the invariant.
LEMMA RdRangeInv ==
    ASSUME TwoWayPipeOpt, IInv, RdRange PROVE IInv'
<1> USE DEF IInv, TwoWayInv
<1>1. /\ rd \in RdType /\ rd.pc = "range" /\ ~Down(wr) /\ toTgt \in Seq(Messages)
      /\ UNCHANGED <<src, srcEnd, tgt, tgtEnd, cycle, toSrc, wr, crashes>>
  BY Zenon DEF RdRange, CanSend, TypeOK, fs
<1>2. wr.pc = "range" /\ toTgt = <<>> /\ toSrc = <<>>
  BY <1>1 DEF RdPhase, ReplyInv, Down
<1>3. RangeFacts
  BY RdRangeFacts
<1>4. PFSD(rd'.tid_end) \in Messages
  BY <1>3, MessageTypes DEF RangeFacts, RdType
<1>5. /\ toTgt' \in Seq(Messages) /\ Len(toTgt') = 1
      /\ toTgt'[1] = PFSD(rd'.tid_end) /\ toTgt' # <<>>
  BY <1>1, <1>2, <1>3, <1>4, AppendFacts DEF RangeFacts
<1>6. TypeOK'
  BY <1>1, <1>3, <1>5 DEF RangeFacts, TypeOK
<1>7. FsInv' /\ SyncedMeansComplete'
  BY <1>1, <1>5 DEF FsInv, SyncedMeansComplete, PFSD
<1>8. HistInv'
  BY <1>1, <1>3 DEF RangeFacts, HistInv
<1>9. ReplyInv'
  BY <1>1, <1>2, <1>3 DEF RangeFacts, ReplyInv, Down
<1>10. WrPhase' /\ RdPhase'
  <2>1. /\ rd'.pc \in {"bulk", "done"} /\ wr'.pc = "range"
        /\ 2..Len(toTgt') = {} /\ toTgt'[1].type = "PFSD"
        /\ \A i \in 1..Len(toTgt') : i = 1
    BY <1>1, <1>2, <1>3, <1>5 DEF RangeFacts, PFSD
  <2>2. WrPhase'
    BY <1>5, <2>1 DEF WrPhase
  <2>3. RdPhase'
    BY <1>5, <2>1 DEF RdPhase
  <2> QED BY <2>2, <2>3
<1>11. /\ tgtEnd \in Nat /\ rd'.tid_end \in Nat /\ srcEnd \in Nat
       /\ \A x \in src : x.tid \in Nat /\ x.key \in Keys
  <2>1. tgtEnd \in Tids /\ srcEnd \in Tids /\ src \subseteq Records
    BY DEF TypeOK
  <2>2. rd'.tid_end \in Tids
    BY <1>3 DEF RangeFacts, RdType
  <2> QED BY <2>1, <2>2, BoundAssumption DEF Tids, Records
<1>12. \A x \in src : x.tid <= rd'.tid_end =>
          x \in tgt \/ (x.tid >= tgtEnd + 1 /\ x.key >= 1)
  BY <1>11 DEF SyncedMeansComplete, Keys
<1>13. RoundInv'
  BY <1>1, <1>3, <1>11, <1>12 DEF RangeFacts, RoundInv, InRange
<1>14. SyncInv'
  <2>1. \A i \in 1..Len(toTgt') : toTgt'[i].type = "PFSD"
    BY <1>5 DEF PFSD
  <2> QED BY <2>1 DEF SyncInv
<1> QED BY <1>1, <1>6, <1>7, <1>8, <1>9, <1>10, <1>13, <1>14

-----------------------------------------------------------------------------
(* The theorems. *)

\* Every step of the specification preserves the invariant.
LEMMA NextInv ==
    ASSUME TwoWayPipeOpt, IInv, [Next]_vars PROVE IInv'
<1>1. CASE Next
  BY <1>1, SourceFlushInv, RdHelloInv, RdTargetPfsdInv, RdRangeInv, RdBulkInv,
     RdDoneInv, RdCycleInv, RdUpdateInv, RdWaitInv, RdTermInv, RdFailsInv, RdCrashInv,
     WrHelloInv, WrOwnPfsdInv, WrRangeInv, WrRecordsInv, WrFinalInv, WrUpdateInv,
     WrFailsInv, RestartInv
     DEF Next, Reader, Writer
<1>2. CASE UNCHANGED vars
  <2>1. UNCHANGED <<src, srcEnd, tgt, tgtEnd, cycle, toTgt, toSrc, rd, hist, wr,
                    crashes>>
    BY <1>2 DEF vars
  <2>2. TypeOK'
    BY <2>1 DEF IInv, TypeOK
  <2>3. SyncedMeansComplete' = SyncedMeansComplete /\ FsInv' = FsInv
        /\ HistInv' = HistInv /\ ReplyInv' = ReplyInv
    BY <2>1 DEF SyncedMeansComplete, FsInv, HistInv, ReplyInv, Down
  <2>4. WrPhase' = WrPhase /\ RdPhase' = RdPhase
    BY <2>1 DEF WrPhase, InBody, RdPhase
  <2>5. RoundInv' = RoundInv /\ SyncInv' = SyncInv
    BY <2>1, Zenon DEF RoundInv, SyncInv, InRange, InFlight
  <2> QED BY <2>1, <2>2, <2>3, <2>4, <2>5 DEF IInv, TwoWayInv, Down
<1> QED BY <1>1, <1>2

\* The inductive invariant holds of every run of the two-way protocol: for any
\* number of keys, transactions, buckets and crashes.
THEOREM TwoWayInvariant == TwoWayPipeOpt => (Spec => []IInv)
<1> SUFFICES ASSUME TwoWayPipeOpt PROVE Spec => []IInv
  OBVIOUS
<1>1. Init => IInv
  BY InitInv
<1>2. IInv /\ [Next]_vars => IInv'
  BY NextInv
<1> QED BY <1>1, <1>2, PTL DEF Spec

\* Every variable keeps its type; histindex in particular never leaves
\* histogram_ary, which mirror-read indexes without a test.
THEOREM TwoWayTypes == TwoWayPipeOpt => (Spec => []TypeOK)
<1> SUFFICES ASSUME TwoWayPipeOpt PROVE Spec => []TypeOK
  OBVIOUS
<1>1. IInv => TypeOK
  BY DEF IInv
<1> QED BY <1>1, TwoWayInvariant, PTL

\* Whatever sync_end_tid update_pfs_snapshot publishes on the target, the
\* target holds every record of the source up to it.
THEOREM TwoWayComplete == TwoWayPipeOpt => (Spec => []SyncedMeansComplete)
<1> SUFFICES ASSUME TwoWayPipeOpt PROVE Spec => []SyncedMeansComplete
  OBVIOUS
<1>1. IInv => SyncedMeansComplete
  BY DEF IInv, TwoWayInv
<1> QED BY <1>1, TwoWayInvariant, PTL

\* The target never publishes a TID the source has not completed.
THEOREM TwoWayNotAhead == TwoWayPipeOpt => (Spec => []TargetNotAhead)
<1> SUFFICES ASSUME TwoWayPipeOpt PROVE Spec => []TargetNotAhead
  OBVIOUS
<1>1. IInv => TargetNotAhead
  BY DEF IInv, TwoWayInv, FsInv, TargetNotAhead
<1> QED BY <1>1, TwoWayInvariant, PTL

\* mirror-read and mirror-write agree on the protocol: neither ever meets a
\* record it exits on with an "unexpected type" error.
THEOREM TwoWayProtocol == TwoWayPipeOpt => (Spec => []NoProtocolError)
<1> SUFFICES ASSUME TwoWayPipeOpt PROVE Spec => []NoProtocolError
  OBVIOUS
<1>1. IInv => NoProtocolError
  BY DEF IInv, TwoWayInv, ReplyInv, NoProtocolError
<1> QED BY <1>1, TwoWayInvariant, PTL

\* An UPDATE that mirror-read takes answers the range it sent last.
THEOREM TwoWayUpdates == TwoWayPipeOpt => (Spec => []UpdateAnswersRange)
<1> SUFFICES ASSUME TwoWayPipeOpt PROVE Spec => []UpdateAnswersRange
  OBVIOUS
<1>1. ASSUME IInv, rd.pc = "wait_update", NEW i \in 1..Len(toSrc)
      PROVE  toSrc[i].type = "UPDATE" /\ toSrc[i].end = rd.tid_end /\ i = 1
  <2>1. toSrc \in Seq(Messages)
    BY <1>1 DEF IInv, TypeOK
  <2>2. toSrc # <<>>
    BY <2>1, LenFacts
  <2>3. Len(toSrc) = 1 /\ toSrc[1] = UPDATE(rd.tid_end)
    BY <1>1, <2>2 DEF IInv, TwoWayInv, ReplyInv
  <2> QED BY <2>3 DEF UPDATE
<1>2. IInv => UpdateAnswersRange
  BY <1>1 DEF UpdateAnswersRange
<1> QED BY <1>2, TwoWayInvariant, PTL

\* A scan in histogram mode is always of a slice of the current histogram.
THEOREM TwoWaySlices == TwoWayPipeOpt => (Spec => []SliceIsCurrent)
<1> SUFFICES ASSUME TwoWayPipeOpt PROVE Spec => []SliceIsCurrent
  OBVIOUS
<1>1. IInv => SliceIsCurrent
  <2>1. IInv => rd.histmax \in Nat
    BY BoundAssumption DEF IInv, TypeOK, RdType
  <2> QED BY <2>1 DEF IInv, TwoWayInv, HistInv, SliceIsCurrent
<1> QED BY <1>1, TwoWayInvariant, PTL

\* A round that scans a slice is one of the histogram that was made: sending a
\* range neither makes a histogram nor changes how many slices it has.
LEMMA SendRangeKeeps ==
    ASSUME TwoWayPipeOpt, NEW r \in RdType, NEW h, SendRange(r, h)
    PROVE  rd'.histmax = r.histmax /\ (rd'.histogram => r.histogram)
<1> DEFINE r1 == IF r.streaming # 0 /\ r.histogram
                 THEN [r EXCEPT !.histindex = @ + 1,
                                !.tid_end = h[r.histindex + 1]]
                 ELSE r
<1>1. /\ r1.histmax = r.histmax /\ r1.histogram = r.histogram
      /\ "histmax" \in DOMAIN r1 /\ "histogram" \in DOMAIN r1
  BY DEF RdType
<1>2. rd' = StartScan(r1)
  BY DEF SendRange, WithCycle
<1> HIDE DEF r1
<1>3. CASE NoWork(r1)
  <2>1. rd' = [r1 EXCEPT !.pc = "done", !.didwork = FALSE, !.histogram = FALSE]
    BY <1>2, <1>3 DEF StartScan
  <2> QED BY <1>1, <2>1
<1>4. CASE ~NoWork(r1)
  <2>1. rd' = [r1 EXCEPT !.pc = "bulk", !.didwork = TRUE]
    BY <1>2, <1>4 DEF StartScan
  <2> QED BY <1>1, <2>1
<1> QED BY <1>3, <1>4

\* Steps that leave the source and the histogram alone leave its slices filled.
LEMMA SlicesKept ==
    ASSUME SlicesFilled, src' = src, hist' = hist,
           rd'.histogram => rd.histogram /\ rd'.histmax = rd.histmax
    PROVE  SlicesFilled'
  BY DEF SlicesFilled

\* The source only grows, so a slice that is filled stays so.
LEMMA SourceFlushSlices ==
    ASSUME TwoWayPipeOpt, IInv, SlicesFilled, SourceFlush PROVE SlicesFilled'
<1> DEFINE In(x, k) == /\ x.tid <= hist[k]
                       /\ IF k = 1 THEN x.tid >= hist[0] ELSE x.tid > hist[k - 1]
           Slice(S, k) == {x \in S : In(x, k)}
<1>1. src \subseteq src' /\ rd' = rd /\ hist' = hist
  BY DEF SourceFlush
<1>2. src' \subseteq Records /\ src \subseteq Records
  BY SourceFlushInv DEF IInv, TypeOK
<1>3. SlicesFilled <=>
        (rd.histogram => \A k \in 1..(rd.histmax - 1) :
                            SplitupOpt <= Cardinality(Slice(src, k)))
  BY DEF SlicesFilled
<1>4. SlicesFilled' <=>
        (rd.histogram => \A k \in 1..(rd.histmax - 1) :
                            SplitupOpt <= Cardinality(Slice(src', k)))
  BY <1>1 DEF SlicesFilled
<1> HIDE DEF In
<1>5. ASSUME NEW k, SplitupOpt <= Cardinality(Slice(src, k))
      PROVE  SplitupOpt <= Cardinality(Slice(src', k))
  <2>1. Slice(src', k) \in SUBSET Records /\ Slice(src, k) \in SUBSET Slice(src', k)
    BY <1>1, <1>2
  <2> HIDE DEF Slice
  <2>2. /\ Cardinality(Slice(src, k)) \in Nat /\ Cardinality(Slice(src', k)) \in Nat
        /\ Cardinality(Slice(src, k)) <= Cardinality(Slice(src', k))
    BY <2>1, RecordsCount
  <2> QED BY <1>5, <2>2, BoundAssumption
<1> HIDE DEF Slice
<1> QED BY <1>3, <1>4, <1>5

\* A histogram that generate_histogram has made has filled slices.
LEMMA RdRangeSlices ==
    ASSUME TwoWayPipeOpt, IInv, SlicesFilled, RdRange PROVE SlicesFilled'
<1> DEFINE beg == IF rd.tid_beg < SyncBegTid THEN SyncBegTid ELSE rd.tid_beg
           r == [rd EXCEPT !.tid_beg = beg, !.tid_end = srcEnd]
<1>1. /\ rd \in RdType /\ src \subseteq Records /\ srcEnd \in Tids /\ srcEnd \in Nat
      /\ rd.tid_beg \in 0..(MaxTid + 1)
  BY BoundAssumption DEF IInv, TypeOK, RdType, Tids
<1>2. beg \in Nat /\ beg \in 0..(MaxTid + 1)
  BY <1>1, BoundAssumption DEF SyncBegTid
<1>3. src' = src
  BY Zenon DEF RdRange, fs
<1>4. \/ SendRange(r, hist) /\ hist' = hist
      \/ SendRange(SlicedRd(r, 0), hist) /\ hist' = hist
      \/ /\ beg < srcEnd
         /\ \E C \in SUBSET (1..(HIST_COUNT - 1)) :
              /\ IsCuts(C, beg, srcEnd)
              /\ hist' = Reduced(C, beg, srcEnd)
              /\ SendRange(SlicedRd(r, Cardinality(C) + 1), hist')
  BY Zenon DEF RdRange, SlicedRd
<1> HIDE DEF beg
<1>5. r \in RdType /\ r.histmax = rd.histmax /\ r.histogram = rd.histogram
  BY <1>1, <1>2, Zenon DEF RdType
<1> HIDE DEF r
<1>6. CASE SendRange(r, hist) /\ hist' = hist
  BY <1>3, <1>5, <1>6, SendRangeKeeps, SlicesKept
<1>7. CASE SendRange(SlicedRd(r, 0), hist) /\ hist' = hist
  <2>1. SlicedRd(r, 0) \in RdType /\ SlicedRd(r, 0).histmax = 0
    BY <1>5, SlicedFacts, BoundAssumption
  <2>2. rd'.histmax = 0
    BY <1>7, <2>1, SendRangeKeeps
  <2>3. 1..(rd'.histmax - 1) = {}
    BY <2>2
  <2> QED BY <2>3 DEF SlicesFilled
<1>8. CASE /\ beg < srcEnd
           /\ \E C \in SUBSET (1..(HIST_COUNT - 1)) :
                /\ IsCuts(C, beg, srcEnd)
                /\ hist' = Reduced(C, beg, srcEnd)
                /\ SendRange(SlicedRd(r, Cardinality(C) + 1), hist')
  <2> PICK C \in SUBSET (1..(HIST_COUNT - 1)) :
              /\ IsCuts(C, beg, srcEnd)
              /\ hist' = Reduced(C, beg, srcEnd)
              /\ SendRange(SlicedRd(r, Cardinality(C) + 1), hist')
    BY <1>8
  <2> DEFINE n == Cardinality(C)
             z == SlicedRd(r, n + 1)
  <2>1. n \in Nat /\ n + 1 \in 1..HIST_COUNT /\ n + 1 \in 0..HIST_COUNT
    BY CutsCardinality, FS_CardinalityType, BoundAssumption
  <2>2. SendRange(z, hist')
    OBVIOUS
  <2> HIDE DEF n
  <2>3. z \in RdType /\ z.histmax = n + 1
    BY <1>5, <2>1, SlicedFacts
  <2> HIDE DEF z
  <2>4. rd'.histmax = n + 1
    BY <2>2, <2>3, SendRangeKeeps
  <2>5. ASSUME NEW k \in 1..n
        PROVE  SplitupOpt <= Cardinality({x \in src :
                  /\ x.tid <= hist'[k]
                  /\ IF k = 1 THEN x.tid >= hist'[0] ELSE x.tid > hist'[k - 1]})
    <3>1. /\ 0 \in 0..(HIST_COUNT + 1) /\ k \in 0..(HIST_COUNT + 1)
          /\ k - 1 \in 0..(HIST_COUNT + 1) /\ k # 0 /\ k <= n + 1
          /\ k # 1 => k - 1 # 0 /\ k - 1 <= n + 1
      BY <2>1, <2>5, BoundAssumption
    <3>2. /\ hist'[0] = beg /\ hist'[k] = Boundary(NthCut(C, k), beg, srcEnd)
          /\ k # 1 => hist'[k - 1] = Boundary(NthCut(C, k - 1), beg, srcEnd)
      BY <3>1 DEF Reduced, n
    <3>3. k \in 1..Cardinality(C)
      BY DEF n
    <3>4. SplitupOpt <= Cardinality({x \in src :
             /\ x.tid <= Boundary(NthCut(C, k), beg, srcEnd)
             /\ IF k = 1 THEN x.tid >= beg
                ELSE x.tid > Boundary(NthCut(C, k - 1), beg, srcEnd)})
      BY <1>1, <1>2, <1>8, <3>3, CutSlices
    <3>5. {x \in src : /\ x.tid <= hist'[k]
                       /\ IF k = 1 THEN x.tid >= hist'[0] ELSE x.tid > hist'[k - 1]}
          = {x \in src :
               /\ x.tid <= Boundary(NthCut(C, k), beg, srcEnd)
               /\ IF k = 1 THEN x.tid >= beg
                  ELSE x.tid > Boundary(NthCut(C, k - 1), beg, srcEnd)}
      BY <3>2
    <3> QED BY <3>4, <3>5
  <2>6. 1..(rd'.histmax - 1) = 1..n
    BY <2>1, <2>4
  <2> QED BY <1>3, <2>5, <2>6, Zenon DEF SlicesFilled
<1> QED BY <1>4, <1>6, <1>7, <1>8

\* Every step keeps the slices filled.
LEMMA NextSlices ==
    ASSUME TwoWayPipeOpt, IInv, SlicesFilled, [Next]_vars PROVE SlicesFilled'
<1>1. rd \in RdType
  BY DEF IInv, TypeOK
<1>2. CASE Restart
  <2>1. ~rd'.histogram
    BY <1>2 DEF Restart, RdInit
  <2> QED BY <2>1 DEF SlicesFilled
<1>3. CASE RdUpdate \/ RdCycle
  <2>1. /\ src' = src /\ hist' = hist
        /\ rd' = NextRound(rd) \/ rd' = [rd EXCEPT !.pc = "proto"]
    BY <1>3 DEF RdUpdate, RdCycle, fs
  <2>2. rd'.histogram = rd.histogram /\ rd'.histmax = rd.histmax
    BY <1>1, <2>1, Zenon DEF NextRound, RdType
  <2> QED BY <2>1, <2>2, SlicesKept
<1>4. CASE \/ RdHello \/ RdTargetPfsd \/ RdBulk \/ RdDone \/ RdWait \/ RdTerm \/ RdFails
           \/ RdWaitFails \/ RdCrash
  <2>1. src' = src /\ hist' = hist
    BY <1>4, Zenon DEF RdHello, RdTargetPfsd, RdBulk, RdDone, RdWait, RdTerm, RdFails,
       RdWaitFails, RdCrash, fs
  <2>2. rd'.histogram = rd.histogram /\ rd'.histmax = rd.histmax
    <3>1. CASE RdHello
      BY <1>1, <3>1 DEF RdHello, RdType
    <3>2. CASE RdTargetPfsd
      BY <1>1, <3>2 DEF RdTargetPfsd, RdType
    <3>3. CASE RdBulk
      BY <1>1, <3>3 DEF RdBulk, RdType
    <3>4. CASE RdDone
      BY <1>1, <3>4 DEF RdDone, RdType
    <3>5. CASE RdWait \/ RdTerm \/ RdFails \/ RdWaitFails \/ RdCrash
      BY <1>1, <3>5 DEF RdWait, RdTerm, RdFails, RdWaitFails, RdCrash, RdType
    <3> QED BY <1>4, <3>1, <3>2, <3>3, <3>4, <3>5
  <2> QED BY <2>1, <2>2, SlicesKept
<1>5. CASE Writer \/ WrCrash \/ UNCHANGED vars
  <2>1. src' = src /\ hist' = hist /\ rd' = rd
    BY <1>5 DEF Writer, WrHello, WrOwnPfsd, WrRange, WrRecords, WrFinal, WrUpdate,
       WrFails, WrCrash, vars, fs
  <2> QED BY <2>1, SlicesKept
<1> QED BY <1>2, <1>3, <1>4, <1>5, SourceFlushSlices, RdRangeSlices DEF Next, Reader

\* What the two processes rely on without a check of their own holds of every
\* run: the target is not ahead, every record and UPDATE is the one expected,
\* and a scan is of a current slice, which generate_histogram has filled.
THEOREM TwoWaySafe == TwoWayPipeOpt => (Spec => []ProtocolSafe)
<1> SUFFICES ASSUME TwoWayPipeOpt PROVE Spec => []ProtocolSafe
  OBVIOUS
<1>1. Init => SlicesFilled
  BY DEF Init, RdInit, SlicesFilled
<1>2. IInv /\ SlicesFilled /\ [Next]_vars => SlicesFilled'
  BY NextSlices
<1>3. Spec => []SlicesFilled
  BY <1>1, <1>2, TwoWayInvariant, PTL DEF Spec
<1>4. TargetNotAhead /\ NoProtocolError /\ UpdateAnswersRange /\ SliceIsCurrent
      /\ SlicesFilled => ProtocolSafe
  BY DEF ProtocolSafe
<1> QED BY <1>3, <1>4, TwoWayNotAhead, TwoWayProtocol, TwoWayUpdates, TwoWaySlices, PTL

-----------------------------------------------------------------------------
(* What one step does to the two filesystems. *)

\* When mirror-write takes the termination record, SYNC moves the target to
\* the end of the range, which lies ahead and up to which nothing is missing.
LEMMA WrFinalPublishes ==
    ASSUME TwoWayPipeOpt, IInv, WrFinal
    PROVE  /\ UNCHANGED <<src, srcEnd, tgt>>
           /\ tgtEnd' >= tgtEnd /\ tgtEnd' \in 0..srcEnd
           /\ \A x \in src : x.tid <= tgtEnd' => x \in tgt
<1> USE DEF IInv, TwoWayInv
<1>1. /\ wr.pc = "final" /\ ~Down(wr) /\ UNCHANGED <<src, srcEnd, tgt>>
      /\ tgtEnd' = IF Head(toTgt).type = "SYNC" THEN wr.tid_end ELSE tgtEnd
  BY DEF WrFinal, Published, Down
<1>2. Len(toTgt) = 1 /\ toTgt[1].recs = {} /\ wr.tid_end = rd.tid_end
  BY <1>1 DEF WrPhase, InBody
<1>3. toTgt # <<>>
  BY <1>2
<1>4. Head(toTgt) = toTgt[1]
  BY <1>3, TailFacts DEF TypeOK
<1>5. /\ tgtEnd \in Nat /\ srcEnd \in Nat /\ tgtEnd <= srcEnd
      /\ rd.tid_end \in Nat /\ rd.tid_end <= srcEnd
  <2>1. tgtEnd \in Tids /\ srcEnd \in Tids /\ rd.tid_end \in Tids
    BY DEF TypeOK, RdType
  <2> QED BY <2>1, BoundAssumption DEF Tids, FsInv, HistInv
<1>6. CASE toTgt[1].type = "SYNC"
  <2>1. /\ tgtEnd < rd.tid_end
        /\ \A x \in src : x.tid <= rd.tid_end => x \in tgt
    BY <1>1, <1>2, <1>6 DEF SyncInv, InFlight
  <2> QED BY <1>1, <1>2, <1>4, <1>5, <1>6, <2>1
<1>7. CASE toTgt[1].type # "SYNC"
  BY <1>1, <1>4, <1>5, <1>7 DEF SyncedMeansComplete
<1> QED BY <1>6, <1>7

\* Creating the slave PFS gives it the sync_end_tid of a new PFS.
LEMMA WrHelloPublishes ==
    ASSUME TwoWayPipeOpt, IInv, WrHello
    PROVE  /\ UNCHANGED <<src, srcEnd, tgt>>
           /\ tgtEnd' >= tgtEnd /\ tgtEnd' \in 0..srcEnd
           /\ \A x \in src : x.tid <= tgtEnd' => x \in tgt
<1> USE DEF IInv, TwoWayInv
<1>1. /\ UNCHANGED <<src, srcEnd, tgt>>
      /\ tgtEnd' = tgtEnd \/ (tgtEnd = 0 /\ tgtEnd' = SyncBegTid)
  BY DEF WrHello
<1>2. /\ tgtEnd \in Nat /\ srcEnd \in Nat /\ tgtEnd <= srcEnd /\ SyncBegTid <= srcEnd
      /\ \A x \in src : x.tid \in Nat /\ SyncBegTid < x.tid
  BY BoundAssumption DEF TypeOK, Records, Tids, FsInv
<1> QED BY <1>1, <1>2 DEF SyncBegTid, SyncedMeansComplete

\* Records reach the target from the source only.
LEMMA WrRecordsReceives ==
    ASSUME TwoWayPipeOpt, IInv, WrRecords
    PROVE  /\ UNCHANGED <<src, srcEnd, tgtEnd>>
           /\ tgt \subseteq tgt' /\ tgt' \subseteq tgt \cup src
<1> USE DEF IInv, TwoWayInv
<1>1. /\ UNCHANGED <<src, srcEnd, tgtEnd>> /\ toTgt # <<>> /\ toTgt \in Seq(Messages)
      /\ tgt' = tgt \cup Head(toTgt).recs \/ tgt' = tgt
  BY DEF WrRecords, TypeOK
<1>2. Head(toTgt) = toTgt[1] /\ 1 \in 1..Len(toTgt)
  BY <1>1, TailFacts
<1>3. toTgt[1].recs \subseteq src
  BY <1>2 DEF FsInv
<1> QED BY <1>1, <1>2, <1>3

\* Every step commits on the source, receives or publishes on the target, or
\* leaves both filesystems alone.
LEMMA StepOnFs ==
    ASSUME TwoWayPipeOpt, IInv, [Next]_vars
    PROVE  \/ SourceFlush \/ WrHello \/ WrRecords \/ WrFinal
           \/ UNCHANGED <<src, srcEnd, tgt, tgtEnd>>
  BY Zenon DEF Next, Reader, Writer, vars, fs, RdHello, RdTargetPfsd, RdRange, RdBulk,
     RdDone, RdCycle, RdUpdate, RdWait, RdTerm, RdFails, RdWaitFails, RdCrash, WrCrash,
     WrOwnPfsd, WrRange, WrUpdate, WrFails, Restart

\* The target's synchronization point never moves back: not across rounds,
\* crashes, restarts or stale histogram entries.
THEOREM TwoWayForward == TwoWayPipeOpt => (Spec => SyncForward)
<1> SUFFICES ASSUME TwoWayPipeOpt PROVE Spec => SyncForward
  OBVIOUS
<1>1. ASSUME IInv, [Next]_vars PROVE [TwoWayPipeOpt => tgtEnd' >= tgtEnd]_vars
  <2>1. tgtEnd \in Nat
    BY <1>1, BoundAssumption DEF IInv, TypeOK, Tids
  <2>2. CASE SourceFlush
    BY <2>1, <2>2 DEF SourceFlush
  <2>3. CASE WrRecords
    BY <2>1, <2>3 DEF WrRecords
  <2>4. CASE UNCHANGED <<src, srcEnd, tgt, tgtEnd>>
    BY <2>1, <2>4
  <2> QED BY <1>1, <2>2, <2>3, <2>4, StepOnFs, WrHelloPublishes, WrFinalPublishes
<1> QED BY <1>1, TwoWayInvariant, PTL DEF Spec, SyncForward

\* The detailed protocol implements the abstract one: a run of mirror-read,
\* mirror-write and their restarts is a run of MirrorSync.
THEOREM TwoWayImplements == TwoWayPipeOpt => (Spec => ImplementsSync)
<1> SUFFICES ASSUME TwoWayPipeOpt PROVE Spec => ImplementsSync
  OBVIOUS
<1>1. Init => Sync!SyncInit
  BY DEF Init, Sync!SyncInit
<1>2. ASSUME IInv, [Next]_vars PROVE [Sync!SyncNext]_(Sync!syncVars)
  <2>1. CASE SourceFlush
    <3>1. /\ srcEnd' = srcEnd + 1 /\ src \subseteq src' /\ UNCHANGED <<tgt, tgtEnd>>
          /\ \A x \in src' \ src : x.tid = srcEnd + 1
      BY <2>1 DEF SourceFlush
    <3> QED BY <3>1 DEF Sync!SyncNext, Sync!Commit
  <2>2. CASE WrRecords
    BY <1>2, <2>2, WrRecordsReceives DEF Sync!SyncNext, Sync!Receive
  <2>3. CASE WrHello
    BY <1>2, <2>3, WrHelloPublishes
       DEF Sync!SyncNext, Sync!Publish, Sync!CompleteTo
  <2>4. CASE WrFinal
    BY <1>2, <2>4, WrFinalPublishes
       DEF Sync!SyncNext, Sync!Publish, Sync!CompleteTo
  <2>5. CASE UNCHANGED <<src, srcEnd, tgt, tgtEnd>>
    BY <2>5 DEF Sync!syncVars
  <2> QED BY <1>2, <2>1, <2>2, <2>3, <2>4, <2>5, StepOnFs
<1> QED BY <1>1, <1>2, TwoWayInvariant, PTL DEF Spec, ImplementsSync, Sync!SyncSpec
=============================================================================

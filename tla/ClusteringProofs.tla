-------------------------- MODULE ClusteringProofs --------------------------
(***************************************************************************)
(* What the arithmetic of Clustering.tla computes, for all inputs: the     *)
(* search for the nearest mean, the distances and the sums of groups.      *)
(***************************************************************************)
EXTENDS Clustering, FoldProofs

(* The search as a recursion: best[k] is where it is after k means.        *)
Searched(vec, means, N, best) ==
  /\ best[0] = 1
  /\ \A k \in 1 .. N :
       best[k] = IF Nearer(vec, means[k], means[best[k - 1]]) THEN k ELSE best[k - 1]
  /\ mFindNearestMean(vec, means) = means[best[N]].label

(* The search of mFindNearestMean is this recursion.                       *)
LEMMA SearchSteps ==
  ASSUME NEW vec, NEW means, NEW N \in Nat \ {0}, DOMAIN means = 1 .. N
  PROVE  \E best \in [0 .. N -> 1 .. N] : Searched(vec, means, N, best)
<1> DEFINE S == 1 .. N
<1> DEFINE D == [i \in DOMAIN means |-> i]
<1> DEFINE Body(iter) ==
      [s \in SUBSET DOMAIN D |->
         IF s = {} THEN 1
         ELSE IF Nearer(vec, means[D[Max(s)]], means[iter[s \ {Max(s)}]])
              THEN D[Max(s)] ELSE iter[s \ {Max(s)}]]
<1> DEFINE iter0 == CHOOSE iter : iter = Body(iter)
<1> DEFINE pick == [s \in SUBSET S |-> Max(s)]
<1> DEFINE step == [z \in S \X S |-> IF Nearer(vec, means[z[1]], means[z[2]]) THEN z[1] ELSE z[2]]
<1>1. mFindNearestMean(vec, means) = means[iter0[DOMAIN D]].label
  BY Zenon DEF mFindNearestMean, FoldLeftDomain, FoldLeft, MapThenFoldSet
<1>2. DOMAIN D = S /\ \A i \in S : D[i] = i
  OBVIOUS
<1>3. IsFiniteSet(S) /\ S \subseteq Nat /\ 1 \in S
  BY FS_Interval
<1>4. \A s \in SUBSET S : s # {} => pick[s] = Max(s) /\ Max(s) \in s
  BY <1>3, MaxOfInterval
<1>5. \A x, v \in S : step[<<x, v>>] = (IF Nearer(vec, means[x], means[v]) THEN x ELSE v)
  OBVIOUS
<1>6. \A x, v \in S : step[<<x, v>>] \in S
  BY <1>5
<1> HIDE DEF pick, step, D, S
<1>7. PICK g \in [SUBSET S -> S] : FoldSolved(S, 1, pick, step, g)
  <2>1. FoldData(S, S, 1, pick, step)
    BY <1>3, <1>4, <1>6 DEF FoldData
  <2> QED
    BY <2>1, FoldExists, Zenon
<1>8. g = Body(g)
  <2>1. ASSUME NEW s \in SUBSET S, s # {}
        PROVE  g[s] = IF Nearer(vec, means[D[Max(s)]], means[g[s \ {Max(s)}]])
                      THEN D[Max(s)] ELSE g[s \ {Max(s)}]
    <3>1. Max(s) \in S /\ pick[s] = Max(s) /\ g[s \ {Max(s)}] \in S
      BY <1>4, <2>1
    <3>2. g[s] = step[<<Max(s), g[s \ {Max(s)}]>>]
      BY <1>7, <2>1, <3>1 DEF FoldSolved
    <3>3. D[Max(s)] = Max(s)
      BY <1>2, <3>1
    <3> QED
      BY <1>5, <3>1, <3>2, <3>3, Zenon
  <2>2. \A s \in SUBSET S : Body(g)[s] = g[s]
    BY <1>2, <1>7, <2>1 DEF FoldSolved
  <2> QED
    BY <1>2, <1>7, <2>2
<1>9. iter0 = Body(iter0)
  <2> HIDE DEF Body
  <2> QED
    BY <1>8, Zenon
<1> DEFINE best == [k \in 0 .. N |-> iter0[1 .. k]]
<1> DEFINE Good == {k \in 0 .. N : iter0[1 .. k] \in S}
<1>10. iter0[{}] = 1
  BY <1>2, <1>9
<1>11. ASSUME NEW k \in 1 .. N
       PROVE  iter0[1 .. k] = IF Nearer(vec, means[k], means[iter0[1 .. (k - 1)]])
                              THEN k ELSE iter0[1 .. (k - 1)]
  <2>1. 1 .. k \in SUBSET S /\ 1 .. k # {} /\ k \in S
    BY DEF S
  <2>2. Max(1 .. k) = k
    <3>1. k \in Nat /\ k \in 1 .. k
      OBVIOUS
    <3>2. Max(1 .. k) \in 1 .. k /\ Max(1 .. k) >= k
      BY <2>1, <3>1, MaxOfInterval
    <3> QED
      BY <3>1, <3>2
  <2>3. (1 .. k) \ {k} = 1 .. (k - 1)
    OBVIOUS
  <2>4. iter0[1 .. k] = Body(iter0)[1 .. k]
    BY <1>9, Zenon
  <2>5. D[k] = k /\ DOMAIN D = S
    BY <1>2, <2>1
  <2> HIDE DEF iter0
  <2>6. Body(iter0)[1 .. k] =
          IF Nearer(vec, means[D[Max(1 .. k)]], means[iter0[(1 .. k) \ {Max(1 .. k)}]])
              THEN D[Max(1 .. k)] ELSE iter0[(1 .. k) \ {Max(1 .. k)}]
    BY <2>1, <2>5
  <2> QED
    BY <2>2, <2>3, <2>4, <2>5, <2>6
<1>12. 0 .. N \subseteq Good
  <2> HIDE DEF iter0
  <2>1. 0 \in Good
    BY <1>3, <1>10
  <2>2. ASSUME NEW k \in 1 .. N, k - 1 \in Good PROVE k \in Good
    <3>1. iter0[1 .. (k - 1)] \in S /\ k \in S
      BY <2>2 DEF S
    <3> QED
      BY <1>11, <3>1
  <2> HIDE DEF Good
  <2> QED
    BY <2>1, <2>2, IntervalInduction
<1> HIDE DEF iter0
<1>13. best \in [0 .. N -> 1 .. N]
  BY <1>12 DEF S
<1>14. best[0] = 1
  BY <1>10
<1>15. \A k \in 1 .. N :
         best[k] = IF Nearer(vec, means[k], means[best[k - 1]]) THEN k ELSE best[k - 1]
  BY <1>11
<1>16. mFindNearestMean(vec, means) = means[best[N]].label
  BY <1>1, <1>2 DEF S
<1> HIDE DEF best
<1> QED
  BY <1>13, <1>14, <1>15, <1>16 DEF Searched

\* The squares that a distance adds.
Squares(vec, m) ==
  [a \in DOMAIN vec |-> (vec[a] * m.n - m.sum[a]) * (vec[a] * m.n - m.sum[a])]

(* The squared distance of integers is a sum of natural numbers.           *)
LEMMA DistanceSum ==
  ASSUME NEW vec, NEW m, m.n \in Nat, \A a \in DOMAIN vec : vec[a] \in Int /\ m.sum[a] \in Int
  PROVE  /\ Squares(vec, m) \in [DOMAIN vec -> Nat]
         /\ mCalculateEuclideanDistance(vec, m).num = SumOver(Squares(vec, m), DOMAIN vec)
<1> DEFINE Diff(a) == vec[a] * m.n - m.sum[a]
<1> DEFINE f == [a \in DOMAIN vec |-> Diff(a) * Diff(a)]
<1>1. \A a \in DOMAIN vec : Diff(a) \in Int
  OBVIOUS
<1>2. f \in [DOMAIN vec -> Nat]
  <2>1. \A z \in Int : z * z \in Nat
    OBVIOUS
  <2> HIDE DEF Diff
  <2> QED
    BY <1>1, <2>1
<1>3. mCalculateEuclideanDistance(vec, m).num = SumOver(f, DOMAIN vec)
  <2> DEFINE one(s) == CHOOSE x \in s : TRUE
  <2> DEFINE A(g) == [s \in SUBSET DOMAIN vec |->
                        IF s = {} THEN 0 ELSE Diff(one(s)) * Diff(one(s)) + g[s \ {one(s)}]]
  <2> DEFINE B(g) == [s \in SUBSET DOMAIN vec |->
                        IF s = {} THEN 0 ELSE f[one(s)] + g[s \ {one(s)}]]
  <2>1. \A g : A(g) = B(g)
    <3> HIDE DEF Diff
    <3> QED
      OBVIOUS
  <2>2. (CHOOSE g : g = A(g)) = (CHOOSE g : g = B(g))
    <3> HIDE DEF A, B
    <3> QED
      BY <2>1, Zenon
  <2> HIDE DEF f
  <2> QED
    BY <2>2, Zenon DEF mCalculateEuclideanDistance, SumOver, MapThenSumSet, MapThenFoldSet
<1>4. f = Squares(vec, m)
  BY Zenon DEF Squares
<1> HIDE DEF f
<1> QED
  BY <1>2, <1>3, <1>4

(* The squared distance of integers is a fraction of natural numbers.      *)
LEMMA DistanceType ==
  ASSUME NEW vec, NEW m, IsFiniteSet(DOMAIN vec), m.n \in Nat,
         \A a \in DOMAIN vec : vec[a] \in Int /\ m.sum[a] \in Int
  PROVE  /\ mCalculateEuclideanDistance(vec, m).num \in Nat
         /\ mCalculateEuclideanDistance(vec, m).den \in Nat
<1>1. /\ Squares(vec, m) \in [DOMAIN vec -> Nat]
      /\ mCalculateEuclideanDistance(vec, m).num = SumOver(Squares(vec, m), DOMAIN vec)
  BY DistanceSum
<1>2. Squares(vec, m) \in [DOMAIN vec -> Int]
  BY <1>1
<1>3. SumOver(Squares(vec, m), DOMAIN vec) \in Nat
  BY <1>1, <1>2, SumType
<1>4. mCalculateEuclideanDistance(vec, m).den = m.n * m.n
  BY DEF mCalculateEuclideanDistance
<1>5. \A n \in Nat : n * n \in Nat
  OBVIOUS
<1> QED
  BY <1>1, <1>3, <1>4, <1>5

\* What the distance of a mean that is a point is like.
FromPoint(d, samePoint) ==
  d.num \in Nat /\ (d.num = 0 <=> samePoint) /\ d.den = 1 /\ ~d.nan

(* A mean that is a point is at distance 0 of that point alone.            *)
LEMMA DistanceToPoint ==
  ASSUME NEW w \in Nat, NEW u \in [1 .. w -> Int], NEW v \in [1 .. w -> Int], NEW label
  PROVE  FromPoint(mCalculateEuclideanDistance(u, MeanPoint(label, v)), u = v)
<1> DEFINE m == MeanPoint(label, v)
<1>1. m.n = 1 /\ m.n \in Nat /\ m.sum = v
  BY DEF MeanPoint
<1> HIDE DEF m
<1>2. /\ DOMAIN u = 1 .. w /\ IsFiniteSet(DOMAIN u)
      /\ \A a \in DOMAIN u : u[a] \in Int /\ m.sum[a] \in Int
  <2>1. DOMAIN u = 1 .. w /\ \A a \in 1 .. w : u[a] \in Int /\ v[a] \in Int
    OBVIOUS
  <2>2. IsFiniteSet(1 .. w)
    BY FS_Interval
  <2> QED
    BY <1>1, <2>1, <2>2
<1>3. /\ Squares(u, m) \in [DOMAIN u -> Nat]
      /\ mCalculateEuclideanDistance(u, m).num = SumOver(Squares(u, m), DOMAIN u)
  <2>1. \A a \in DOMAIN u : u[a] \in Int /\ m.sum[a] \in Int
    BY <1>2
  <2> QED
    BY <1>1, <2>1, DistanceSum, Zenon
<1>4. mCalculateEuclideanDistance(u, m).num = 0 <=> \A a \in 1 .. w : Squares(u, m)[a] = 0
  BY <1>2, <1>3, SumIsZero
<1>5. ASSUME NEW a \in 1 .. w PROVE Squares(u, m)[a] = 0 <=> u[a] = v[a]
  <2>1. u[a] \in Int /\ v[a] \in Int
    OBVIOUS
  <2>2. \A x, y \in Int : (x * 1 - y) * (x * 1 - y) = 0 <=> x = y
    OBVIOUS
  <2> QED
    BY <1>1, <1>2, <2>1, <2>2 DEF Squares
<1>6. u = v <=> \A a \in 1 .. w : u[a] = v[a]
  OBVIOUS
<1>7. mCalculateEuclideanDistance(u, m).num \in Nat
  BY <1>1, <1>2, DistanceType
<1>8. mCalculateEuclideanDistance(u, m).den = 1 /\ ~mCalculateEuclideanDistance(u, m).nan
  <2>1. mCalculateEuclideanDistance(u, m).den = m.n * m.n
    BY DEF mCalculateEuclideanDistance
  <2>2. mCalculateEuclideanDistance(u, m).nan
          = (~IsNumber(m) /\ \E a \in DOMAIN u : m.sum[a] = 0)
    BY DEF mCalculateEuclideanDistance
  <2>3. IsNumber(m) /\ 1 * 1 = 1
    BY <1>1 DEF IsNumber
  <2> QED
    BY <1>1, <2>1, <2>2, <2>3
<1> QED
  <2>1. mCalculateEuclideanDistance(u, m).num = 0 <=> u = v
    BY <1>4, <1>5, <1>6
  <2> QED
    BY <1>7, <1>8, <2>1 DEF m, FromPoint

(* Of means that are points, one that is the point itself is the nearest,  *)
(* and none but one like it is as near.                                    *)
LEMMA OwnPointNearest ==
  ASSUME NEW w \in Nat, NEW u \in [1 .. w -> Int], NEW v \in [1 .. w -> Int], NEW l1, NEW l2,
         ~Nearer(u, MeanPoint(l1, u), MeanPoint(l2, v))
  PROVE  u = v
<1> DEFINE d1 == mCalculateEuclideanDistance(u, MeanPoint(l1, u))
           d2 == mCalculateEuclideanDistance(u, MeanPoint(l2, v))
<1>1. FromPoint(d1, u = u)
  BY DistanceToPoint, Zenon
<1>2. FromPoint(d2, u = v)
  BY DistanceToPoint, Zenon
<1>3. ~(~d1.nan /\ ~d2.nan /\ d1.num * d2.den < d2.num * d1.den)
  BY DEF Nearer
<1> HIDE DEF d1, d2
<1> QED
  BY <1>1, <1>2, <1>3 DEF FromPoint

(* Fractions p/u < q/v and q/v < r/w, or q/v <= r/w, compared as the code  *)
(* compares distances: by products, with denominators that may be 0.       *)
LEMMA FractionsOrdered ==
  ASSUME NEW p \in Nat, NEW q \in Nat, NEW r \in Nat,
         NEW u \in Nat, NEW v \in Nat, NEW w \in Nat, p * v < q * u
  PROVE  /\ u # 0 /\ q # 0
         /\ q * w < r * v => p * w < r * u
         /\ ~(r * v < q * w) /\ w # 0 => p * w < r * u
<1>1. \A a, b \in Nat : a * b \in Nat /\ (a = 0 => a * b = 0) /\ (b = 0 => a * b = 0)
  OBVIOUS
<1>2. \A a, b, c \in Nat :
        /\ a < b /\ c # 0 => a * c < b * c
        /\ a <= b => a * c <= b * c
        /\ a * c < b * c => a < b
  OBVIOUS
<1>3. \A a, b, c \in Nat : (a * b) * c = (a * c) * b
  OBVIOUS
<1>4. u # 0 /\ q # 0
  BY <1>1
<1>5. (p * v) * w <= (q * u) * w
  BY <1>1, <1>2
<1>6. ASSUME q * w < r * v PROVE p * w < r * u
  <2>1. (q * w) * u < (r * v) * u
    BY <1>1, <1>2, <1>4, <1>6
  <2>2. (p * w) * v < (r * u) * v
    BY <1>1, <1>3, <1>5, <2>1
  <2> QED
    BY <1>1, <1>2, <2>2
<1>7. ASSUME ~(r * v < q * w), w # 0 PROVE p * w < r * u
  <2>1. (p * v) * w < (q * u) * w
    BY <1>1, <1>2, <1>7
  <2>2. (q * w) * u <= (r * v) * u
    BY <1>1, <1>2, <1>7
  <2>3. (p * w) * v < (r * u) * v
    BY <1>1, <1>3, <2>1, <2>2
  <2> QED
    BY <1>1, <1>2, <2>3
<1> QED
  BY <1>4, <1>6, <1>7

(* Distances from one vector: when they are defined, they are comparable.  *)
Measurable(vec, m) ==
  /\ m.n \in Nat
  /\ \A a \in DOMAIN vec : vec[a] \in Int /\ m.sum[a] \in Int

(* Nearer orders the means strictly; a mean that is not a number is never  *)
(* the nearer one of two.                                                  *)
LEMMA NearerOrders ==
  ASSUME NEW vec, IsFiniteSet(DOMAIN vec), NEW k, NEW b, NEW j,
         Measurable(vec, k), Measurable(vec, b), Measurable(vec, j), Nearer(vec, k, b)
  PROVE  /\ IsNumber(k)
         /\ ~Nearer(vec, k, k)
         /\ Nearer(vec, b, j) => Nearer(vec, k, j)
         /\ ~Nearer(vec, b, j) => ~Nearer(vec, j, k) \/ Nearer(vec, j, b)
         /\ ~Nearer(vec, j, b) /\ IsNumber(j) => Nearer(vec, k, j)
<1> DEFINE d(m) == mCalculateEuclideanDistance(vec, m)
<1>1. \A m : Measurable(vec, m) =>
        /\ d(m).num \in Nat /\ d(m).den \in Nat
        /\ d(m).den # 0 <=> IsNumber(m)
        /\ IsNumber(m) => ~d(m).nan
  <2> SUFFICES ASSUME NEW m, Measurable(vec, m)
               PROVE  /\ d(m).num \in Nat /\ d(m).den \in Nat
                      /\ d(m).den # 0 <=> IsNumber(m)
                      /\ IsNumber(m) => ~d(m).nan
    OBVIOUS
  <2>1. d(m).num \in Nat /\ d(m).den \in Nat
    BY DistanceType DEF Measurable
  <2>2. d(m).den = m.n * m.n /\ (IsNumber(m) => ~d(m).nan)
    BY DEF mCalculateEuclideanDistance
  <2>3. m.n * m.n # 0 <=> m.n # 0
    BY DEF Measurable
  <2> QED
    BY <2>1, <2>2, <2>3 DEF IsNumber
<1>2. \A m1, m2 : Nearer(vec, m1, m2) <=>
        ~d(m1).nan /\ ~d(m2).nan /\ d(m1).num * d(m2).den < d(m2).num * d(m1).den
  BY DEF Nearer
<1> HIDE DEF d
<1>3. /\ d(k).num \in Nat /\ d(b).num \in Nat /\ d(j).num \in Nat
      /\ d(k).den \in Nat /\ d(b).den \in Nat /\ d(j).den \in Nat
  BY <1>1
<1>4. ~d(k).nan /\ ~d(b).nan /\ d(k).num * d(b).den < d(b).num * d(k).den
  BY <1>2
<1>5. /\ d(k).den # 0
      /\ d(b).num * d(j).den < d(j).num * d(b).den => d(k).num * d(j).den < d(j).num * d(k).den
      /\ ~(d(j).num * d(b).den < d(b).num * d(j).den) /\ d(j).den # 0 =>
           d(k).num * d(j).den < d(j).num * d(k).den
  BY <1>3, <1>4, FractionsOrdered
<1>6. ASSUME Nearer(vec, j, k) PROVE Nearer(vec, j, b)
  <2>1. ~d(j).nan /\ d(j).num * d(k).den < d(k).num * d(j).den
    BY <1>2, <1>6
  <2>2. d(j).num * d(b).den < d(b).num * d(j).den
    BY <1>3, <1>4, <2>1, FractionsOrdered
  <2> QED
    BY <1>2, <1>4, <2>1, <2>2
<1>7. ~Nearer(vec, k, k)
  <2>1. ~(d(k).num * d(k).den < d(k).num * d(k).den)
    BY <1>3
  <2> QED
    BY <1>2, <2>1
<1>8. IsNumber(k)
  BY <1>1, <1>5
<1>9. ASSUME Nearer(vec, b, j) PROVE Nearer(vec, k, j)
  BY <1>2, <1>4, <1>5, <1>9
<1>10. ASSUME ~Nearer(vec, j, b), IsNumber(j) PROVE Nearer(vec, k, j)
  <2>1. d(j).den # 0 /\ ~d(j).nan
    BY <1>1, <1>10
  <2> QED
    BY <1>2, <1>4, <1>5, <1>10, <2>1
<1> QED
  BY <1>6, <1>7, <1>8, <1>9, <1>10

(* None of the means is nearer than the b-th, which is the first such      *)
(* mean, and a number unless the search never left its start.              *)
NearestOf(vec, means, b) ==
  /\ b # 1 => IsNumber(means[b])
  /\ \A j \in DOMAIN means : ~Nearer(vec, means[j], means[b])
  /\ \A j \in DOMAIN means : j < b => Nearer(vec, means[b], means[j]) \/ ~IsNumber(means[j])

(* What mFindNearestMean returns: the label of the first nearest mean.     *)
LEMMA NearestFacts ==
  ASSUME NEW vec, IsFiniteSet(DOMAIN vec),
         NEW means, NEW N \in Nat \ {0}, DOMAIN means = 1 .. N,
         \A j \in 1 .. N : Measurable(vec, means[j])
  PROVE  \E b \in 1 .. N :
           mFindNearestMean(vec, means) = means[b].label /\ NearestOf(vec, means, b)
<1>1. PICK best \in [0 .. N -> 1 .. N] : Searched(vec, means, N, best)
  BY SearchSteps
<1> USE DEF Searched
<1> DEFINE Best(b, k) ==
      /\ b # 1 => IsNumber(means[b])
      /\ b <= k \/ b = 1
      /\ \A j \in 1 .. k : ~Nearer(vec, means[j], means[b])
      /\ \A j \in 1 .. N :
           j < b => Nearer(vec, means[b], means[j]) \/ ~IsNumber(means[j])
<1> DEFINE G == {k \in 0 .. N : Best(best[k], k)}
<1>2. 0 \in G
  BY <1>1
<1>3. ASSUME NEW k \in 1 .. N, k - 1 \in G PROVE k \in G
  <2>1. PICK b \in 1 .. N :
          /\ best[k] = IF Nearer(vec, means[k], means[b]) THEN k ELSE b
          /\ Best(b, k - 1)
    BY <1>1, <1>3
  <2>2. Best(best[k], k) => k \in G
    <3> HIDE DEF Best
    <3> QED
      OBVIOUS
  <2>3. CASE ~Nearer(vec, means[k], means[b])
    <3>1. best[k] = b /\ (b <= k \/ b = 1)
      BY <2>1, <2>3
    <3>2. ASSUME NEW j \in 1 .. k PROVE ~Nearer(vec, means[j], means[b])
      <4>1. CASE j = k
        BY <2>3, <4>1
      <4>2. CASE j \in 1 .. (k - 1)
        BY <2>1, <4>2
      <4> QED
        BY <4>1, <4>2
    <3>3. Best(b, k)
      BY <2>1, <3>1, <3>2
    <3> HIDE DEF Best, G
    <3> QED
      BY <2>2, <3>1, <3>3
  <2>4. CASE Nearer(vec, means[k], means[b])
    <3>1. ASSUME NEW j \in 1 .. N
          PROVE  /\ IsNumber(means[k])
                 /\ ~Nearer(vec, means[k], means[k])
                 /\ Nearer(vec, means[b], means[j]) => Nearer(vec, means[k], means[j])
                 /\ Nearer(vec, means[j], means[k]) => Nearer(vec, means[j], means[b])
                 /\ ~Nearer(vec, means[j], means[b]) /\ IsNumber(means[j])
                      => Nearer(vec, means[k], means[j])
      <4>1. Measurable(vec, means[k]) /\ Measurable(vec, means[b]) /\ Measurable(vec, means[j])
        OBVIOUS
      <4>2. Nearer(vec, means[j], means[k]) => Nearer(vec, means[j], means[b])
        BY <2>4, <4>1, NearerOrders
      <4> QED
        BY <2>4, <4>1, <4>2, NearerOrders
    <3>2. ASSUME NEW j \in 1 .. k PROVE ~Nearer(vec, means[j], means[k])
      <4>1. CASE j = k
        BY <3>1, <4>1
      <4>2. CASE j \in 1 .. (k - 1)
        <5>1. ~Nearer(vec, means[j], means[b]) /\ j \in 1 .. N
          BY <2>1, <4>2
        <5> QED
          BY <3>1, <5>1
      <4> QED
        BY <4>1, <4>2
    <3>3. ASSUME NEW j \in 1 .. N, j < k
          PROVE  Nearer(vec, means[k], means[j]) \/ ~IsNumber(means[j])
      <4>1. CASE j < b
        BY <2>1, <3>1, <4>1
      <4>2. CASE ~(j < b)
        <5>1. ~Nearer(vec, means[j], means[b])
          BY <2>1, <3>3
        <5> QED
          BY <3>1, <5>1
      <4> QED
        BY <4>1, <4>2
    <3>4. best[k] = k /\ IsNumber(means[k])
      BY <2>1, <2>4, <3>1
    <3>5. Best(k, k)
      BY <3>2, <3>3, <3>4
    <3> HIDE DEF Best, G
    <3> QED
      BY <2>2, <3>4, <3>5
  <2> QED
    BY <2>3, <2>4
<1>4. N \in G
  <2>1. N \in 0 .. N
    OBVIOUS
  <2> HIDE DEF G
  <2> QED
    BY <1>2, <1>3, <2>1, IntervalInduction
<1> QED
  BY <1>1, <1>4 DEF NearestOf

(* Whatever the coordinates, NaN or infinite or too few, the search finds  *)
(* a mean, and an assignment gives labels of means.                        *)
LEMMA LabelsInRange ==
  ASSUME NEW points, NEW means, NumMeans \in Nat \ {0}, DOMAIN means = 1 .. NumMeans,
         \A j \in 1 .. NumMeans : means[j].label = j - 1,
         \A i \in DOMAIN points : points[i].mean \in Labels
  PROVE  NearestLabels(points, means) \in [DOMAIN points -> Labels]
<1>1. ASSUME NEW vec PROVE mFindNearestMean(vec, means) \in Labels
  <2>1. PICK best \in [0 .. NumMeans -> 1 .. NumMeans] : Searched(vec, means, NumMeans, best)
    BY SearchSteps
  <2>2. mFindNearestMean(vec, means) = means[best[NumMeans]].label
    BY <2>1 DEF Searched
  <2>3. best[NumMeans] \in 1 .. NumMeans
    BY <2>1
  <2>4. means[best[NumMeans]].label = best[NumMeans] - 1
    BY <2>3
  <2>5. \A j \in 1 .. NumMeans : j - 1 \in Labels
    BY DEF Labels
  <2> QED
    BY <2>2, <2>3, <2>4, <2>5, Zenon
<1>2. ASSUME NEW i \in DOMAIN points
      PROVE  (IF Reached(points, means, i) THEN mFindNearestMean(points[i].vec, means)
                                           ELSE points[i].mean) \in Labels
  BY <1>1, <1>2
<1> QED
  BY <1>2, Zenon DEF NearestLabels

(* A search that starts from a mean whose distance is NaN never leaves it. *)
LEMMA NearestFromNaN ==
  ASSUME NEW vec, NEW means, NEW N \in Nat \ {0}, DOMAIN means = 1 .. N,
         mCalculateEuclideanDistance(vec, means[1]).nan
  PROVE  mFindNearestMean(vec, means) = means[1].label
<1>1. PICK best \in [0 .. N -> 1 .. N] : Searched(vec, means, N, best)
  BY SearchSteps
<1>2. \A m : ~Nearer(vec, m, means[1])
  BY DEF Nearer
<1> DEFINE G == {k \in 0 .. N : best[k] = 1}
<1>3. 0 \in G
  BY <1>1 DEF Searched
<1>4. ASSUME NEW k \in 1 .. N, k - 1 \in G PROVE k \in G
  BY <1>1, <1>2, <1>4 DEF Searched
<1>5. N \in G
  <2>1. N \in 0 .. N
    OBVIOUS
  <2> HIDE DEF G
  <2> QED
    BY <1>3, <1>4, <2>1, IntervalInduction
<1> QED
  BY <1>1, <1>5 DEF Searched

(* The sum of a group as a fold of a function.                             *)
LEMMA GroupSumIsSum ==
  ASSUME NEW points, NEW label, NEW a
  PROVE  GroupSum(points, label, a)
           = SumOver([i \in Group(points, label) |-> points[i].vec[a]], Group(points, label))
<1> DEFINE S == Group(points, label)
           f == [i \in S |-> points[i].vec[a]]
           one(s) == CHOOSE x \in s : TRUE
           A(g) == [s \in SUBSET S |->
                      IF s = {} THEN 0 ELSE points[one(s)].vec[a] + g[s \ {one(s)}]]
           B(g) == [s \in SUBSET S |-> IF s = {} THEN 0 ELSE f[one(s)] + g[s \ {one(s)}]]
<1>1. \A g : A(g) = B(g)
  <2> HIDE DEF S
  <2> QED
    OBVIOUS
<1>2. (CHOOSE g : g = A(g)) = (CHOOSE g : g = B(g))
  <2> HIDE DEF A, B
  <2> QED
    BY <1>1, Zenon
<1> HIDE DEF f
<1>3. GroupSum(points, label, a) = SumOver(f, S)
  BY <1>2, Zenon DEF GroupSum, SumOver, MapThenSumSet, MapThenFoldSet
<1> QED
  BY <1>3 DEF f

(* The sum of a group of integers; that of no integers is 0.               *)
LEMMA GroupSumType ==
  ASSUME NEW points, NEW label, NEW a, IsFiniteSet(Group(points, label)),
         \A i \in Group(points, label) : points[i].vec[a] \in Int
  PROVE  /\ GroupSum(points, label, a) \in Int
         /\ Group(points, label) = {} => GroupSum(points, label, a) = 0
<1> DEFINE f == [i \in Group(points, label) |-> points[i].vec[a]]
<1>1. GroupSum(points, label, a) = SumOver(f, Group(points, label))
  BY GroupSumIsSum
<1>2. f \in [Group(points, label) -> Int]
  OBVIOUS
<1> HIDE DEF f
<1> QED
  BY <1>1, <1>2, SumType

-----------------------------------------------------------------------------
(* Means with a position in the space of w coordinates, as NaN or not.     *)
MeansOver(means, w) ==
  \A j \in DOMAIN means :
    /\ means[j].n \in Nat
    /\ 1 .. w \subseteq DOMAIN means[j].sum
    /\ \A a \in 1 .. w : means[j].sum[a] \in Int

(* Points and means as mAssignAll finds them when all analyses have w      *)
(* coordinates.                                                            *)
Clusterable(points, means, w) ==
  /\ w \in Nat
  /\ \E N \in Nat \ {0} : DOMAIN means = 1 .. N
  /\ MeansOver(means, w)
  /\ \A j \in DOMAIN means : means[j].label = j - 1
  /\ \E n \in Nat : DOMAIN points = 1 .. n
  /\ \A i \in DOMAIN points : points[i].vec \in [1 .. w -> Int]

(* mAssignAll reaches every point and gives it the label of a nearest mean.*)
LEMMA AssignedFacts ==
  ASSUME NEW points, NEW means, NEW w, Clusterable(points, means, w), NEW i \in DOMAIN points
  PROVE  /\ Assignable(points[i], means)
         /\ NearestLabels(points, means)[i] = mFindNearestMean(points[i].vec, means)
         /\ \E b \in DOMAIN means :
              NearestLabels(points, means)[i] = b - 1 /\ NearestOf(points[i].vec, means, b)
<1>1. PICK N \in Nat \ {0}, n \in Nat : DOMAIN means = 1 .. N /\ DOMAIN points = 1 .. n
  BY DEF Clusterable
<1>2. \A k \in 1 .. n : points[k].vec \in [1 .. w -> Int] /\ DOMAIN points[k].vec = 1 .. w
  BY <1>1 DEF Clusterable
<1>3. MeansOver(means, w) /\ w \in Nat /\ \A j \in 1 .. N : means[j].label = j - 1
  BY <1>1 DEF Clusterable
<1>4. \A k \in 1 .. n : Assignable(points[k], means)
  BY <1>2, <1>3 DEF Assignable, HasCoordinates, MeansOver
<1>5. i \in 1 .. n /\ \A k \in 1 .. i : k \in 1 .. n
  BY <1>1
<1>6. Reached(points, means, i)
  BY <1>4, <1>5 DEF Reached
<1>7. NearestLabels(points, means)[i] = mFindNearestMean(points[i].vec, means)
  BY <1>6 DEF NearestLabels
<1>8. IsFiniteSet(DOMAIN points[i].vec)
  <2>1. DOMAIN points[i].vec = 1 .. w
    BY <1>2, <1>5
  <2>2. IsFiniteSet(1 .. w)
    BY <1>3, FS_Interval
  <2> QED
    BY <2>1, <2>2
<1>9. \A j \in 1 .. N : Measurable(points[i].vec, means[j])
  <2>1. \A a \in 1 .. w : points[i].vec[a] \in Int
    BY <1>2, <1>5
  <2> QED
    BY <1>1, <1>2, <1>3, <1>5, <2>1 DEF Measurable, MeansOver
<1>10. PICK b \in 1 .. N :
         mFindNearestMean(points[i].vec, means) = means[b].label /\ NearestOf(points[i].vec, means, b)
  BY <1>1, <1>8, <1>9, NearestFacts
<1>11. NearestLabels(points, means)[i] = b - 1
  BY <1>3, <1>7, <1>10
<1> QED
  BY <1>1, <1>4, <1>5, <1>7, <1>10, <1>11

-----------------------------------------------------------------------------
(* What assignments and averages do to the distances.                      *)

(* Exact division.                                                         *)
LEMMA ExactDivision == ASSUME NEW d \in Nat \ {0}, NEW k \in Nat PROVE (d * k) \div d = k
OBVIOUS

(* Fractions a/u <= b/v, compared by products, over a common denominator.  *)
LEMMA CommonDenominator ==
  ASSUME NEW a \in Nat, NEW b \in Nat, NEW u \in Nat \ {0}, NEW v \in Nat \ {0},
         NEW p \in Nat \ {0}, NEW q \in Nat \ {0}, u * p = v * q
  PROVE  /\ a * v <= b * u => p * a <= q * b
         /\ a * v < b * u => p * a < q * b
<1>1. \A i, j \in Nat : i * j \in Nat
  OBVIOUS
<1>2. \A i, j \in Nat, l \in Nat \ {0} : (i * l <= j * l => i <= j) /\ (i * l < j * l => i < j)
  OBVIOUS
<1>3. \A i, j \in Nat, l \in Nat \ {0} : (i <= j => i * l <= j * l) /\ (i < j => i * l < j * l)
  OBVIOUS
<1>4. u * v \in Nat \ {0} /\ u * p \in Nat \ {0}
  OBVIOUS
<1>5. (p * a) * (u * v) = (a * v) * (u * p)
  OBVIOUS
<1>6. (q * b) * (u * v) = (b * u) * (v * q)
  OBVIOUS
<1>7. (q * b) * (u * v) = (b * u) * (u * p)
  BY <1>6
<1>8. ASSUME a * v <= b * u PROVE p * a <= q * b
  <2>1. (a * v) * (u * p) <= (b * u) * (u * p)
    BY <1>1, <1>3, <1>4, <1>8
  <2> QED
    BY <1>1, <1>2, <1>4, <1>5, <1>7, <2>1
<1>9. ASSUME a * v < b * u PROVE p * a < q * b
  <2>1. (a * v) * (u * p) < (b * u) * (u * p)
    BY <1>1, <1>3, <1>4, <1>9
  <2> QED
    BY <1>1, <1>2, <1>4, <1>5, <1>7, <2>1
<1> QED
  BY <1>8, <1>9

(* What the differences for n points that add up to s add up to is not     *)
(* negative: n times it is q * (m * s - n * t)^2.                          *)
LEMMA DifferenceIsNatural ==
  ASSUME NEW n \in Nat \ {0}, NEW m \in Nat, NEW p \in Nat, NEW q \in Nat, n * n * p = m * m * q,
         NEW s \in Int, NEW t \in Int
  PROVE  (2 * (p * n * s - q * m * t)) * s + (q * t * t - p * s * s) * n \in Nat
<1> DEFINE z == (2 * (p * n * s - q * m * t)) * s + (q * t * t - p * s * s) * n
           y == m * s - n * t
<1>1. z \in Int /\ y \in Int
  OBVIOUS
<1>2. z = (p * n) * s * s - 2 * (q * m * t) * s + q * t * t * n
  OBVIOUS
<1>3. n * z = (n * n * p) * s * s - 2 * (q * m * t * n) * s + q * t * t * n * n
  BY <1>2
<1>4. q * (y * y) = (m * m * q) * s * s - 2 * (q * m * t * n) * s + q * t * t * n * n
  OBVIOUS
<1>5. (n * n * p) * s * s = (m * m * q) * s * s
  OBVIOUS
<1> HIDE DEF z, y
<1>6. n * z = q * (y * y)
  BY <1>3, <1>4, <1>5
<1>7. y * y \in Nat
  BY <1>1
<1>8. \A i \in Nat : q * i \in Nat
  OBVIOUS
<1>9. \A i \in Int : n * i \in Nat => i \in Nat
  OBVIOUS
<1> QED
  BY <1>1, <1>6, <1>7, <1>8, <1>9 DEF z

\* The squared distance times z, as an integer.
Scaled(z, vec, m) ==
  (z * mCalculateEuclideanDistance(vec, m).num) \div mCalculateEuclideanDistance(vec, m).den

(* The scaling is exact when z is a multiple of the denominator.           *)
LEMMA ScaledDistance ==
  ASSUME NEW vec, IsFiniteSet(DOMAIN vec), NEW m, Measurable(vec, m), IsNumber(m),
         NEW k \in Nat, NEW z, z = (m.n * m.n) * k
  PROVE  /\ Squares(vec, m) \in [DOMAIN vec -> Nat]
         /\ mCalculateEuclideanDistance(vec, m).num = SumOver(Squares(vec, m), DOMAIN vec)
         /\ SumOver(Squares(vec, m), DOMAIN vec) \in Nat
         /\ Scaled(z, vec, m) = k * SumOver(Squares(vec, m), DOMAIN vec)
         /\ Scaled(z, vec, m) \in Nat
<1> DEFINE num == SumOver(Squares(vec, m), DOMAIN vec)
           den == m.n * m.n
<1>1. /\ Squares(vec, m) \in [DOMAIN vec -> Nat]
      /\ mCalculateEuclideanDistance(vec, m).num = num
  BY DistanceSum DEF Measurable
<1>2. mCalculateEuclideanDistance(vec, m).num \in Nat
  BY DistanceType DEF Measurable
<1>3. mCalculateEuclideanDistance(vec, m).den = den
  BY DEF mCalculateEuclideanDistance
<1>4. den \in Nat \ {0}
  BY DEF Measurable, IsNumber
<1>5. Scaled(z, vec, m) = (z * num) \div den
  BY <1>1, <1>3, Zenon DEF Scaled
<1> HIDE DEF num, den
<1>6. k * num \in Nat /\ (den * k) * num = den * (k * num)
  <2>1. \A a, b, c \in Nat : b * c \in Nat /\ (a * b) * c = a * (b * c)
    OBVIOUS
  <2> QED
    BY <1>1, <1>2, <1>4, <2>1
<1>7. z * num = den * (k * num)
  BY <1>6 DEF den
<1>8. (den * (k * num)) \div den = k * num
  BY <1>4, <1>6, ExactDivision
<1>9. Scaled(z, vec, m) = k * num
  BY <1>5, <1>7, <1>8
<1> QED
  BY <1>1, <1>2, <1>6, <1>9 DEF num

(* A mean that is not farther is not more expensive, a nearer one cheaper. *)
LEMMA NearerIsCheaper ==
  ASSUME NEW vec, IsFiniteSet(DOMAIN vec), NEW m1, NEW m2,
         Measurable(vec, m1), Measurable(vec, m2), IsNumber(m1), IsNumber(m2),
         NEW p \in Nat \ {0}, NEW q \in Nat \ {0}, NEW z,
         z = (m1.n * m1.n) * p, z = (m2.n * m2.n) * q
  PROVE  /\ ~Nearer(vec, m2, m1) => Scaled(z, vec, m1) <= Scaled(z, vec, m2)
         /\ Nearer(vec, m1, m2) => Scaled(z, vec, m1) < Scaled(z, vec, m2)
<1> DEFINE a == SumOver(Squares(vec, m1), DOMAIN vec)
           b == SumOver(Squares(vec, m2), DOMAIN vec)
           u == m1.n * m1.n
           v == m2.n * m2.n
<1>1. /\ mCalculateEuclideanDistance(vec, m1).num = a /\ a \in Nat
      /\ Scaled(z, vec, m1) = p * a
  BY ScaledDistance
<1>2. /\ mCalculateEuclideanDistance(vec, m2).num = b /\ b \in Nat
      /\ Scaled(z, vec, m2) = q * b
  BY ScaledDistance
<1>3. /\ mCalculateEuclideanDistance(vec, m1).den = u /\ ~mCalculateEuclideanDistance(vec, m1).nan
      /\ mCalculateEuclideanDistance(vec, m2).den = v /\ ~mCalculateEuclideanDistance(vec, m2).nan
  BY DEF mCalculateEuclideanDistance
<1>4. u \in Nat \ {0} /\ v \in Nat \ {0} /\ u * p = v * q
  BY DEF Measurable, IsNumber
<1> HIDE DEF a, b, u, v
<1>5. (Nearer(vec, m1, m2) <=> a * v < b * u) /\ (Nearer(vec, m2, m1) <=> b * u < a * v)
  BY <1>1, <1>2, <1>3 DEF Nearer
<1>6. (a * v <= b * u => p * a <= q * b) /\ (a * v < b * u => p * a < q * b)
  BY <1>1, <1>2, <1>4, CommonDenominator
<1>7. a * v \in Nat /\ b * u \in Nat
  BY <1>1, <1>2, <1>4
<1> QED
  BY <1>1, <1>2, <1>5, <1>6, <1>7

\* To f and g are added the squares of the distances of n numbers x to s/n,
\* their center, and to t/m.
AddsSquares(x, n, s, m, t, p, q, f, f1, g, g1, G) ==
  \A i \in G : /\ x[i] \in Int /\ f[i] \in Int /\ g[i] \in Int
               /\ f1[i] = f[i] + p * ((x[i] * n - s) * (x[i] * n - s))
               /\ g1[i] = g[i] + q * ((x[i] * m - t) * (x[i] * m - t))

(* One more coordinate: the sum for the center of a set of numbers stays   *)
(* at most the sum for any other.                                          *)
LEMMA CoordinateAdded ==
  ASSUME NEW G, IsFiniteSet(G), NEW n \in Nat \ {0}, n = Cardinality(G),
         NEW m \in Nat, NEW p \in Nat, NEW q \in Nat, n * n * p = m * m * q,
         NEW x, NEW s, s = SumOver(x, G), NEW t \in Int, NEW f, NEW g, NEW f1, NEW g1,
         AddsSquares(x, n, s, m, t, p, q, f, f1, g, g1, G), SumOver(f, G) <= SumOver(g, G)
  PROVE  SumOver(f1, G) <= SumOver(g1, G)
<1> USE DEF AddsSquares
<1>1. s \in Int
  <2>1. SumRules(x, G, Int)
    BY SumsOfParts
  <2> QED
    BY <2>1 DEF SumRules
<1> DEFINE h == [i \in G |-> p * ((x[i] * n - s) * (x[i] * n - s))]
           a == 2 * (p * n * s - q * m * t)
           b == q * t * t - p * s * s
<1>2. a \in Int /\ b \in Int
  BY <1>1
\* The squares of the distances of y to s/n and to t/m, over the common
\* denominator, differ by something linear in y.
<1>3. ASSUME NEW y \in Int
      PROVE  q * ((y * m - t) * (y * m - t)) = p * ((y * n - s) * (y * n - s)) + a * y + b
  <2>1. q * ((y * m - t) * (y * m - t)) = (m * m * q) * y * y - 2 * (q * m * t) * y + q * t * t
    OBVIOUS
  <2>2. p * ((y * n - s) * (y * n - s)) = (n * n * p) * y * y - 2 * (p * n * s) * y + p * s * s
    BY <1>1
  <2>3. a * y = 2 * (p * n * s) * y - 2 * (q * m * t) * y
    BY <1>1
  <2>4. (n * n * p) * y * y = (m * m * q) * y * y
    OBVIOUS
  <2> QED
    BY <1>1, <2>1, <2>2, <2>3, <2>4
<1>4. a * s + b * n \in Nat
  BY <1>1, DifferenceIsNatural, Zenon
<1>5. ASSUME NEW i \in G
      PROVE  /\ h[i] \in Int
             /\ f1[i] = f[i] + h[i]
             /\ q * ((x[i] * m - t) * (x[i] * m - t)) = h[i] + a * x[i] + b
  <2>1. \A y \in Int : p * ((y * n - s) * (y * n - s)) \in Int
    BY <1>1
  <2>2. h[i] = p * ((x[i] * n - s) * (x[i] * n - s))
    OBVIOUS
  <2>3. q * ((x[i] * m - t) * (x[i] * m - t))
          = p * ((x[i] * n - s) * (x[i] * n - s)) + a * x[i] + b
    <3>1. x[i] \in Int
      OBVIOUS
    <3> HIDE DEF a, b
    <3> QED
      BY <1>3, <3>1, Zenon
  <2> HIDE DEF h, a, b
  <2> QED
    BY <2>1, <2>2, <2>3
<1> HIDE DEF h, a, b
<1>6. /\ SumOver(f1, G) \in Int /\ SumOver(f, G) \in Int /\ SumOver(h, G) \in Int
      /\ SumOver(f1, G) = SumOver(f, G) + SumOver(h, G)
  <2>1. AffineTerms(f1, f, h, x, 0, 0, G) /\ 0 \in Int
    BY <1>5 DEF AffineTerms
  <2>2. AffineSums(f1, f, h, x, 0, 0, G)
    BY <2>1, SumAffine, Zenon
  <2> QED
    BY <1>1, <2>2 DEF AffineSums
<1>7. /\ SumOver(g1, G) \in Int /\ SumOver(g, G) \in Int
      /\ SumOver(g1, G) = SumOver(g, G) + SumOver(h, G) + a * SumOver(x, G) + b * Cardinality(G)
  <2>1. AffineTerms(g1, g, h, x, a, b, G)
    <3>1. \A y \in Int : a * y \in Int
      BY <1>2
    <3> QED
      BY <1>2, <1>5, <3>1 DEF AffineTerms
  <2>2. AffineSums(g1, g, h, x, a, b, G)
    BY <1>2, <2>1, SumAffine, Zenon
  <2> QED
    BY <2>2 DEF AffineSums
<1>8. a * s \in Int /\ b * n \in Int
  BY <1>1, <1>2
<1> QED
  BY <1>4, <1>6, <1>7, <1>8

\* A group G of vectors, a mean m that is a number, the average c of the
\* group, and a multiple z of both denominators.
Averaged(points, label, w, G, m, c, p, q, z) ==
  /\ w \in 0 .. NumArgs /\ G = Group(points, label)
  /\ IsFiniteSet(G) /\ G # {} /\ Cardinality(G) < UINT16
  /\ \A i \in G : points[i].vec \in [1 .. w -> Int]
  /\ m.n \in Nat /\ IsNumber(m) /\ \A a \in 1 .. w : m.sum[a] \in Int
  /\ c = Average(points, label)
  /\ p \in Nat /\ q \in Nat /\ z = (c.n * c.n) * p /\ z = (m.n * m.n) * q

\* The distances of the points of G to m, added up.
GroupCost(z, points, m, G) == SumOver([i \in G |-> Scaled(z, points[i].vec, m)], G)

(* Of all the places a mean can have, the average of a group is the        *)
(* cheapest for the group.                                                 *)
LEMMA AverageIsCheapest ==
  ASSUME NumArgs \in Nat, UINT16 \in Nat, NEW points, NEW label, NEW w, NEW G, NEW m, NEW c,
         NEW p, NEW q, NEW z, Averaged(points, label, w, G, m, c, p, q, z)
  PROVE  GroupCost(z, points, c, G) <= GroupCost(z, points, m, G)
<1> DEFINE vec(i) == points[i].vec
           f(A) == [i \in G |-> p * SumOver(Squares(vec(i), c), A)]
           g(A) == [i \in G |-> q * SumOver(Squares(vec(i), m), A)]
           Good == {A \in SUBSET (1 .. w) : SumOver(f(A), G) <= SumOver(g(A), G)}
<1> USE DEF Averaged
<1>1. c.n = Cardinality(G) /\ c.n \in Nat \ {0} /\ IsNumber(c)
  <2>1. Cardinality(G) \in Nat \ {0}
    BY FS_CardinalityType, FS_EmptySet
  <2>2. Cardinality(G) % UINT16 = Cardinality(G)
    BY <2>1, ModuloIsBelow
  <2>3. c.n = Cardinality(G) % UINT16
    BY DEF Average
  <2> QED
    BY <2>1, <2>2, <2>3 DEF IsNumber
<1>2. \A a \in 1 .. w : c.sum[a] = SumOver([i \in G |-> points[i].vec[a]], G)
  <2>1. \A a \in 1 .. w : a \in 1 .. NumArgs
    OBVIOUS
  <2>2. \A a \in 1 .. NumArgs : c.sum[a] = GroupSum(points, label, a)
    BY DEF Average
  <2> QED
    BY <2>1, <2>2, GroupSumIsSum
<1>3. \A i \in G : DOMAIN vec(i) = 1 .. w /\ \A a \in 1 .. w : vec(i)[a] \in Int
  OBVIOUS
<1>4. \A a \in 1 .. w : c.sum[a] \in Int
  <2> SUFFICES ASSUME NEW a \in 1 .. w PROVE c.sum[a] \in Int
    OBVIOUS
  <2> DEFINE x == [i \in G |-> points[i].vec[a]]
  <2>1. x \in [G -> Int]
    BY <1>3
  <2> HIDE DEF x
  <2>2. SumOver(x, G) \in Int
    BY <2>1, SumType
  <2> QED
    BY <1>2, <2>2 DEF x
<1>5. IsFiniteSet(1 .. w)
  BY FS_Interval
<1>6. ASSUME NEW i \in G
      PROVE  Measurable(vec(i), c) /\ Measurable(vec(i), m) /\ IsFiniteSet(DOMAIN vec(i))
  BY <1>1, <1>3, <1>4, <1>5 DEF Measurable
<1>7. ASSUME NEW i \in G
      PROVE  /\ Squares(vec(i), c) \in [1 .. w -> Nat] /\ Squares(vec(i), m) \in [1 .. w -> Nat]
             /\ Scaled(z, vec(i), c) = p * SumOver(Squares(vec(i), c), 1 .. w)
             /\ Scaled(z, vec(i), m) = q * SumOver(Squares(vec(i), m), 1 .. w)
  <2>1. DOMAIN vec(i) = 1 .. w
    BY <1>3
  <2> HIDE DEF vec
  <2>2. /\ Squares(vec(i), c) \in [DOMAIN vec(i) -> Nat]
        /\ Scaled(z, vec(i), c) = p * SumOver(Squares(vec(i), c), DOMAIN vec(i))
    BY <1>1, <1>6, ScaledDistance, Zenon
  <2>3. /\ Squares(vec(i), m) \in [DOMAIN vec(i) -> Nat]
        /\ Scaled(z, vec(i), m) = q * SumOver(Squares(vec(i), m), DOMAIN vec(i))
    BY <1>6, ScaledDistance, Zenon
  <2> QED
    BY <2>1, <2>2, <2>3, Zenon
<1> HIDE DEF vec
<1>8. ASSUME NEW i \in G
      PROVE  SumRules(Squares(vec(i), c), 1 .. w, Nat) /\ SumRules(Squares(vec(i), m), 1 .. w, Nat)
  <2>1. \A a \in 1 .. w : Squares(vec(i), c)[a] \in Nat
    BY <1>7
  <2>2. \A a \in 1 .. w : Squares(vec(i), m)[a] \in Nat
    BY <1>7
  <2>3. SumRules(Squares(vec(i), c), 1 .. w, Nat)
    BY <1>5, <2>1, SumsOfParts, Zenon
  <2>4. SumRules(Squares(vec(i), m), 1 .. w, Nat)
    BY <1>5, <2>2, SumsOfParts, Zenon
  <2> QED
    BY <2>3, <2>4
<1>9. ASSUME NEW A \in SUBSET (1 .. w), NEW i \in G PROVE f(A)[i] \in Int /\ g(A)[i] \in Int
  <2>1. SumOver(Squares(vec(i), c), A) \in Nat /\ SumOver(Squares(vec(i), m), A) \in Nat
    BY <1>8 DEF SumRules
  <2>2. \A k, l \in Nat : k * l \in Int
    OBVIOUS
  <2> QED
    BY <2>1, <2>2
<1>10. {} \in Good
  <2>1. \A i \in G : f({})[i] = p * 0 /\ g({})[i] = q * 0
    BY <1>8 DEF SumRules
  <2>2. \A i \in G : f({})[i] \in Int /\ g({})[i] \in Int /\ f({})[i] <= g({})[i]
    BY <2>1
  <2> HIDE DEF f, g
  <2>3. SumOver(f({}), G) <= SumOver(g({}), G)
    BY <2>2, SumMonotone
  <2> QED
    BY <2>3
<1>11. ASSUME NEW A \in SUBSET (1 .. w), A # {} PROVE \E a \in A : A \ {a} \in Good => A \in Good
  <2>1. PICK a \in A : TRUE
    BY <1>11
  <2> SUFFICES ASSUME A \ {a} \in Good PROVE A \in Good
    BY <2>1
  <2> DEFINE B == A \ {a}
             x == [i \in G |-> points[i].vec[a]]
             s == c.sum[a]
             t == m.sum[a]
             n == c.n
             k == m.n
  <2>2. a \in 1 .. w /\ B \in SUBSET (1 .. w) /\ s = SumOver(x, G) /\ s \in Int /\ t \in Int
    BY <1>2, <1>4
  <2>3. SumOver(f(B), G) <= SumOver(g(B), G)
    OBVIOUS
  <2>4. ASSUME NEW i \in G
        PROVE  /\ x[i] \in Int
               /\ f(A)[i] = f(B)[i] + p * ((x[i] * n - s) * (x[i] * n - s))
               /\ g(A)[i] = g(B)[i] + q * ((x[i] * k - t) * (x[i] * k - t))
    <3>1. x[i] = vec(i)[a] /\ x[i] \in Int /\ a \in DOMAIN vec(i)
      BY <1>3, <2>2 DEF vec
    <3>2. /\ Squares(vec(i), c)[a] = (x[i] * n - s) * (x[i] * n - s)
          /\ Squares(vec(i), m)[a] = (x[i] * k - t) * (x[i] * k - t)
      BY <3>1, Zenon DEF Squares
    <3>3. /\ SumOver(Squares(vec(i), c), A) = Squares(vec(i), c)[a] + SumOver(Squares(vec(i), c), B)
          /\ SumOver(Squares(vec(i), m), A) = Squares(vec(i), m)[a] + SumOver(Squares(vec(i), m), B)
          /\ SumOver(Squares(vec(i), c), B) \in Nat /\ SumOver(Squares(vec(i), m), B) \in Nat
      BY <1>8, <2>2 DEF SumRules
    <3>4. Squares(vec(i), c)[a] \in Nat /\ Squares(vec(i), m)[a] \in Nat
      BY <1>7, <2>2
    <3>5. \A e, u, v \in Nat : e * (u + v) = e * v + e * u
      OBVIOUS
    <3>6. /\ f(A)[i] = p * SumOver(Squares(vec(i), c), A)
          /\ f(B)[i] = p * SumOver(Squares(vec(i), c), B)
          /\ g(A)[i] = q * SumOver(Squares(vec(i), m), A)
          /\ g(B)[i] = q * SumOver(Squares(vec(i), m), B)
      BY Zenon
    <3> HIDE DEF f, g, x, s, t, n, k, B
    <3>7. f(A)[i] = f(B)[i] + p * Squares(vec(i), c)[a]
      BY <3>3, <3>4, <3>5, <3>6
    <3>8. g(A)[i] = g(B)[i] + q * Squares(vec(i), m)[a]
      BY <3>3, <3>4, <3>5, <3>6
    <3> QED
      BY <3>1, <3>2, <3>7, <3>8
  <2>5. n \in Nat \ {0} /\ n = Cardinality(G) /\ k \in Nat /\ n * n * p = k * k * q
    BY <1>1
  <2>6. \A i \in G : f(B)[i] \in Int /\ g(B)[i] \in Int
    BY <1>9, <2>2
  <2>7. SumOver(f(A), G) <= SumOver(g(A), G)
    <3> HIDE DEF f, g, x, s, t, n, k, B
    <3>1. AddsSquares(x, n, s, k, t, p, q, f(B), f(A), g(B), g(A), G)
      BY <2>4, <2>6, Zenon DEF AddsSquares
    <3> QED
      BY <2>2, <2>3, <2>5, <3>1, CoordinateAdded, Zenon
  <2> QED
    BY <2>7
<1> HIDE DEF Good
<1>12. 1 .. w \in Good
  <2>1. GrowsBySubset(1 .. w, Good)
    BY <1>10, <1>11 DEF GrowsBySubset
  <2> QED
    BY <1>5, <2>1, SubsetInduction
<1>13. SumOver(f(1 .. w), G) <= SumOver(g(1 .. w), G)
  BY <1>12 DEF Good
<1>14. /\ f(1 .. w) = [i \in G |-> Scaled(z, vec(i), c)]
       /\ g(1 .. w) = [i \in G |-> Scaled(z, vec(i), m)]
  BY <1>7
<1> QED
  BY <1>13, <1>14, Zenon DEF vec, GroupCost

=============================================================================

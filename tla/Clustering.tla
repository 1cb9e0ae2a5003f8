----------------------------- MODULE Clustering -----------------------------
(***************************************************************************)
(* The arithmetic of KMeans<T> (include/KMeans.hpp) as operators without   *)
(* state: the distance, the search for the nearest mean, mAssignAll and    *)
(* mUpdateMeans element by element.                                        *)
(*                                                                         *)
(* Coordinates are integers.  A mean is an exact fraction, the sum of its  *)
(* group over the size of its group, so a comparison of two distances is   *)
(* exact: the rounding of float is abstracted away, but not its special    *)
(* values.  A mean over 0 points has the coordinates 0/0 (NaN) or x/0      *)
(* (infinite), and every comparison with NaN is false, as in IEEE 754.     *)
(* Distances are compared squared, since sqrt is monotone.                 *)
(***************************************************************************)
EXTENDS Integers, Sequences, FiniteSets, FiniteSetsExt, SequencesExt

CONSTANTS
  NumArgs,    \* m_NumArgs: the number of coordinates the means are built with
  NumMeans,   \* aNumMeans: the number of clusters
  UINT16      \* 2^16, the modulus of std::uint16_t; smaller in a run that wraps

ASSUME ClusteringAssumption ==
  /\ NumArgs \in Nat
  /\ NumMeans \in Nat \ {0}
  /\ UINT16 \in Nat \ {0}

Labels == 0 .. NumMeans - 1

-----------------------------------------------------------------------------
(* DataPoint and MeanPoint.                                                *)

DataPoint(vec, index) == [mean |-> 0, vec |-> vec, index |-> index]

MeanPoint(label, vec) == [label |-> label, sum |-> vec, n |-> 1]

IsNumber(m) == m.n # 0

-----------------------------------------------------------------------------
(* mCalculateEuclideanDistance: the squared distance num/den.  The loop    *)
(* runs over the coordinates of the point, and .at() throws out_of_range   *)
(* when the mean has fewer (HasCoordinates is then false).                 *)

HasCoordinates(m, vec) == DOMAIN vec \subseteq DOMAIN m.sum

mCalculateEuclideanDistance(vec, m) ==
  LET Diff(a) == vec[a] * m.n - m.sum[a]
  IN  [num |-> MapThenSumSet(LAMBDA a : Diff(a) * Diff(a), DOMAIN vec),
       den |-> m.n * m.n,
       nan |-> ~IsNumber(m) /\ \E a \in DOMAIN vec : m.sum[a] = 0]

Nearer(vec, m1, m2) ==
  LET d1 == mCalculateEuclideanDistance(vec, m1)
      d2 == mCalculateEuclideanDistance(vec, m2)
  IN  ~d1.nan /\ ~d2.nan /\ d1.num * d2.den < d2.num * d1.den

\* Mutant: the search moves on unless the best mean so far is strictly nearer.
FindNearestMean_Negated(vec, means) ==
  LET Closest(best, j) == IF Nearer(vec, means[best], means[j]) THEN best ELSE j
  IN  means[FoldLeftDomain(Closest, 1, means)].label

\* The loop keeps the first mean and replaces it only by a strictly nearer one.
mFindNearestMean(vec, means) ==
  LET Closest(best, j) == IF Nearer(vec, means[j], means[best]) THEN j ELSE best
  IN  means[FoldLeftDomain(Closest, 1, means)].label

-----------------------------------------------------------------------------
(* mAssignAll walks the points in order and stops at the first one whose   *)
(* distance throws; the points before it keep their new assignment.        *)

Assignable(p, means) == \A j \in DOMAIN means : HasCoordinates(means[j], p.vec)

Reached(points, means, i) == \A j \in 1 .. i : Assignable(points[j], means)

NearestLabels(points, means) ==
  [i \in DOMAIN points |->
     IF Reached(points, means, i) THEN mFindNearestMean(points[i].vec, means)
                                  ELSE points[i].mean]

Relabelled(points, labels) ==
  [i \in DOMAIN points |-> [points[i] EXCEPT !.mean = labels[i]]]

\* the distance that each point stores with its label
Distances(points, means, stored) ==
  LET labels == NearestLabels(points, means)
  IN  [i \in DOMAIN points |->
         IF Reached(points, means, i)
         THEN mCalculateEuclideanDistance(points[i].vec, means[labels[i] + 1])
         ELSE stored[i]]

-----------------------------------------------------------------------------
(* mUpdateMeans, for one mean: the average of its group over the first     *)
(* NumArgs coordinates.  .at() throws when a member has fewer.  The size   *)
(* of the group is a uint16_t.                                             *)

Group(points, label) == {i \in DOMAIN points : points[i].mean = label}

\* Mutant: the coordinate is taken one too far.
Averageable_OneTooFar(points, label) ==
  \A i \in Group(points, label) : 1 .. NumArgs + 1 \subseteq DOMAIN points[i].vec

Averageable(points, label) ==
  \A i \in Group(points, label) : 1 .. NumArgs \subseteq DOMAIN points[i].vec

GroupSum(points, label, a) ==
  MapThenSumSet(LAMBDA i : points[i].vec[a], Group(points, label))

\* Mutant: the sum of the group is divided by the number of all points.
Average_OverAllPoints(points, label) ==
  [label |-> label,
   sum   |-> [a \in 1 .. NumArgs |-> GroupSum(points, label, a)],
   n     |-> Len(points) % UINT16]

Average(points, label) ==
  [label |-> label,
   sum   |-> [a \in 1 .. NumArgs |-> GroupSum(points, label, a)],
   n     |-> Cardinality(Group(points, label)) % UINT16]

\* The whole loop over the means, ended by the exception of the first group that throws.
Averages(points, means) ==
  [j \in DOMAIN means |->
     IF \A k \in 1 .. j : Averageable(points, means[k].label)
     THEN Average(points, means[j].label) ELSE means[j]]

=============================================================================

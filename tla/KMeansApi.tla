------------------------------ MODULE KMeansApi ------------------------------
(***************************************************************************)
(* KMeans<T> (include/KMeans.hpp) as one thread uses it, without           *)
(* mLaunchPeriodicClusteringAndAssignationThread: the way of every engine  *)
(* in src/KMeansTests.cpp.  Points are submitted, the engine is            *)
(* initialised once, then assignments, updates and further submissions     *)
(* come in any order.  KMeans.tla is the same engine under its worker.     *)
(***************************************************************************)
EXTENDS Clustering, Functions

CONSTANTS
  Vectors,    \* the vectors a caller submits
  MaxPoints   \* bound on the submissions

\* A uint16_t counts further than to the one point of a new mean.
ASSUME KMeansApiAssumption ==
  /\ MaxPoints \in Nat
  /\ Vectors \subseteq Seq(Int)
  /\ UINT16 > 1

VARIABLES
  m_PointVector, m_PointIndex, m_CurrentMeans, m_Initialised,
  distances  \* m_EuclideanDistanceFromAssignedMean of each point, squared

vars == <<m_PointVector, m_PointIndex, m_CurrentMeans, m_Initialised, distances>>

Init ==
  /\ m_PointVector = <<>>
  /\ m_PointIndex = 0
  /\ m_CurrentMeans = <<>>
  /\ m_Initialised = FALSE
  /\ distances = <<>>

mSubmit(vec) ==
  /\ Len(m_PointVector) < MaxPoints
  /\ m_PointVector' = Append(m_PointVector, DataPoint(vec, m_PointIndex))
  /\ m_PointIndex' = (m_PointIndex + 1) % UINT16
  /\ distances' = Append(distances, [num |-> 0, den |-> 1, nan |-> FALSE])
  /\ UNCHANGED <<m_CurrentMeans, m_Initialised>>

\* Mutant: fewer means than asked for.
Initial_OneLess(points, aNumMeans) ==
  [j \in 1 .. aNumMeans - 1 |-> MeanPoint(j - 1, points[j].vec)]

Initial(points, aNumMeans) == [j \in 1 .. aNumMeans |-> MeanPoint(j - 1, points[j].vec)]

\* It throws when the points are too few.  No caller initialises an engine twice.
mInitialise(aNumMeans) ==
  /\ ~m_Initialised
  /\ Len(m_PointVector) >= aNumMeans
  /\ \E shuffle \in Bijection(DOMAIN m_PointVector, DOMAIN m_PointVector) :
       LET Shuffled(s) == [i \in DOMAIN s |-> s[shuffle[i]]]
       IN  /\ m_PointVector' = Shuffled(m_PointVector)
           /\ distances' = Shuffled(distances)
  /\ m_CurrentMeans' = Initial(m_PointVector', aNumMeans)
  /\ m_Initialised' = TRUE
  /\ UNCHANGED m_PointIndex

\* Before mInitialise there is no first mean: the callers initialise first.
mAssignAll ==
  /\ m_Initialised
  /\ m_PointVector' = Relabelled(m_PointVector, NearestLabels(m_PointVector, m_CurrentMeans))
  /\ distances' = Distances(m_PointVector, m_CurrentMeans, distances)
  /\ UNCHANGED <<m_PointIndex, m_CurrentMeans, m_Initialised>>

mUpdateMeans ==
  /\ m_CurrentMeans' = Averages(m_PointVector, m_CurrentMeans)
  /\ UNCHANGED <<m_PointVector, m_PointIndex, m_Initialised, distances>>

\* mExtract and mExtractCurrentMeanBasedOnLabel: a position; they throw when it is 0.
mExtract(aIndex) == SelectInSeq(m_PointVector, LAMBDA a : a.index = aIndex)

mExtractCurrentMeanBasedOnLabel(aMeanLabel) ==
  SelectInSeq(m_CurrentMeans, LAMBDA a : a.label = aMeanLabel)

Next ==
  \/ \E vec \in Vectors : mSubmit(vec)
  \/ mInitialise(NumMeans)
  \/ mAssignAll
  \/ mUpdateMeans

Spec == Init /\ [][Next]_vars

-----------------------------------------------------------------------------
(* The cost of a clustering: the sum of the squared distances between the  *)
(* points and the means they are assigned to, times Scale, which makes     *)
(* every term an integer.                                                  *)

Scale == ProductSet(1 .. MaxPoints) * ProductSet(1 .. MaxPoints)

MeanOf(p) == m_CurrentMeans[p.mean + 1]

Cost ==
  LET Term(i) ==
        LET d == mCalculateEuclideanDistance(m_PointVector[i].vec, MeanOf(m_PointVector[i]))
        IN  (Scale * d.num) \div d.den
  IN  MapThenSumSet(Term, DOMAIN m_PointVector)

\* Every point is assigned to a mean that has a position.
Located == m_Initialised /\ \A i \in DOMAIN m_PointVector : IsNumber(MeanOf(m_PointVector[i]))

LabelSum == MapThenSumSet(LAMBDA i : m_PointVector[i].mean, DOMAIN m_PointVector)

(* The engine's data keeps its shape: points in order of submission or     *)
(* shuffled, each with a distance, and one mean per label once initialised.*)
TypeOK ==
  /\ m_PointVector \in Seq([mean : Labels, vec : Vectors, index : 0 .. UINT16 - 1])
  /\ m_PointIndex \in 0 .. UINT16 - 1
  /\ m_Initialised \in BOOLEAN
  /\ Len(distances) = Len(m_PointVector)
  /\ m_CurrentMeans \in Seq([label : Labels, sum : Seq(Int), n : 0 .. UINT16 - 1])
  /\ Len(m_CurrentMeans) = IF m_Initialised THEN NumMeans ELSE 0

(* Why repeating mAssignAll and mUpdateMeans settles (the test with 1000   *)
(* points relies on it): an assignment that changes anything lowers the    *)
(* cost, or keeps it and moves points to lower labels (ties go to the      *)
(* first mean), and the averages never raise it.  Only a NaN first mean is *)
(* an exception: see NaNFirstMeanCollapses.                                *)
CostDescends ==
  [][/\ (mAssignAll /\ Located /\ IsNumber(m_CurrentMeans[1]) /\ m_PointVector' # m_PointVector) =>
          /\ Located'
          /\ Cost' < Cost \/ (Cost' = Cost /\ LabelSum' < LabelSum)
     /\ (mUpdateMeans /\ Located) => Located' /\ Cost' <= Cost]_vars

(* A mean is lost for good: once an update divides by an empty group, the  *)
(* mean is NaN, no comparison prefers it, so no point is ever assigned to  *)
(* it again.  The mean with label 0 is the exception, since the search     *)
(* starts from it.                                                         *)
EmptyMeanStaysEmpty ==
  [][\A j \in 2 .. Len(m_CurrentMeans) :
        ~IsNumber(m_CurrentMeans[j]) =>
           ~IsNumber(m_CurrentMeans[j]') /\ Group(m_PointVector, j - 1)' = {}]_vars

(* The collapse: when the mean with label 0 is NaN the search never leaves *)
(* it, and the next assignment gathers every point under label 0.          *)
NaNFirstMeanCollapses ==
  [][(mAssignAll /\ ~IsNumber(m_CurrentMeans[1])) =>
        Group(m_PointVector, 0)' = DOMAIN m_PointVector]_vars

=============================================================================

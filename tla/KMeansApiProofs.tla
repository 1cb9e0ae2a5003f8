-------------------------- MODULE KMeansApiProofs --------------------------
(***************************************************************************)
(* Proofs about the engine as one thread uses it (KMeansApi.tla), for any  *)
(* number of means, coordinates and submissions and any vectors.  ShapeInv *)
(* is inductive by itself.  LostInv, what a mean that is NaN says about    *)
(* its group and its coordinates, is inductive relative to it as long as   *)
(* the size of a group does not wrap, and WidthInv when all vectors have   *)
(* the same number of coordinates.                                         *)
(***************************************************************************)
EXTENDS KMeansApi, ClusteringProofs

PointSet == [mean : Labels, vec : Vectors, index : 0 .. UINT16 - 1]

MeanSet == [label : Labels, sum : Seq(Int), n : 0 .. UINT16 - 1]

ShapeInv ==
  /\ TypeOK
  /\ distances \in Seq(Range(distances))
  /\ \A j \in DOMAIN m_CurrentMeans : m_CurrentMeans[j].label = j - 1

\* A mean is NaN because its group was empty when it was last averaged.
LostInv ==
  /\ Len(m_PointVector) <= MaxPoints
  /\ \A j \in DOMAIN m_CurrentMeans :
       ~IsNumber(m_CurrentMeans[j]) =>
         /\ \A a \in DOMAIN m_CurrentMeans[j].sum : m_CurrentMeans[j].sum[a] = 0
         /\ j # 1 => Group(m_PointVector, j - 1) = {}

WidthInv(w) == \A j \in DOMAIN m_CurrentMeans : 1 .. w \subseteq DOMAIN m_CurrentMeans[j].sum

USE ClusteringAssumption, KMeansApiAssumption

(* The parts of the state that ShapeInv describes, spelled out.            *)
LEMMA ShapeFacts ==
  ASSUME ShapeInv
  PROVE  /\ m_PointVector \in Seq(PointSet)
         /\ DOMAIN m_PointVector = 1 .. Len(m_PointVector) /\ Len(m_PointVector) \in Nat
         /\ \A i \in DOMAIN m_PointVector :
              /\ m_PointVector[i] \in PointSet
              /\ m_PointVector[i].mean \in Labels
              /\ m_PointVector[i].vec \in Seq(Int)
         /\ m_CurrentMeans \in Seq(MeanSet)
         /\ DOMAIN m_CurrentMeans = IF m_Initialised THEN 1 .. NumMeans ELSE {}
         /\ \A j \in DOMAIN m_CurrentMeans :
              /\ m_CurrentMeans[j] \in MeanSet
              /\ m_CurrentMeans[j].label = j - 1
              /\ m_CurrentMeans[j].sum \in Seq(Int)
              /\ m_CurrentMeans[j].n \in Nat
<1>1. /\ m_PointVector \in Seq(PointSet)
      /\ m_CurrentMeans \in Seq(MeanSet)
      /\ Len(m_CurrentMeans) = IF m_Initialised THEN NumMeans ELSE 0
      /\ \A j \in DOMAIN m_CurrentMeans : m_CurrentMeans[j].label = j - 1
  BY DEF ShapeInv, TypeOK, PointSet, MeanSet
<1>2. /\ DOMAIN m_PointVector = 1 .. Len(m_PointVector) /\ Len(m_PointVector) \in Nat
      /\ \A i \in DOMAIN m_PointVector : m_PointVector[i] \in PointSet
  BY <1>1, SeqFacts
<1>3. /\ DOMAIN m_CurrentMeans = IF m_Initialised THEN 1 .. NumMeans ELSE {}
      /\ \A j \in DOMAIN m_CurrentMeans : m_CurrentMeans[j] \in MeanSet
  BY <1>1, SeqFacts
<1>4. \A p \in PointSet : p.mean \in Labels /\ p.vec \in Seq(Int)
  BY DEF PointSet
<1>5. \A m \in MeanSet : m.sum \in Seq(Int) /\ m.n \in Nat
  BY DEF MeanSet
<1> QED
  BY <1>1, <1>2, <1>3, <1>4, <1>5

(* Any assignment leaves a point where it was, or gives it the label of a  *)
(* mean, of one that is a number unless it is the first.                   *)
LEMMA LabelFacts ==
  ASSUME ShapeInv, m_Initialised, NEW i \in DOMAIN m_PointVector
  PROVE  /\ NearestLabels(m_PointVector, m_CurrentMeans)[i] \in Labels
         /\ \/ NearestLabels(m_PointVector, m_CurrentMeans)[i] = m_PointVector[i].mean
            \/ NearestLabels(m_PointVector, m_CurrentMeans)[i] = 0
            \/ IsNumber(m_CurrentMeans[NearestLabels(m_PointVector, m_CurrentMeans)[i] + 1])
<1> DEFINE label == NearestLabels(m_PointVector, m_CurrentMeans)[i]
           vec == m_PointVector[i].vec
<1>1. m_PointVector[i].mean \in Labels /\ vec \in Seq(Int) /\ i \in 1 .. i
  BY ShapeFacts
<1>2. DOMAIN m_CurrentMeans = 1 .. NumMeans
  BY ShapeFacts
<1>3. CASE ~Reached(m_PointVector, m_CurrentMeans, i)
  BY <1>1, <1>3 DEF NearestLabels
<1>4. CASE Reached(m_PointVector, m_CurrentMeans, i)
  <2>1. label = mFindNearestMean(vec, m_CurrentMeans)
    BY <1>4 DEF NearestLabels
  <2>2. \A j \in 1 .. NumMeans : DOMAIN vec \subseteq DOMAIN m_CurrentMeans[j].sum
    BY <1>1, <1>2, <1>4 DEF Reached, Assignable, HasCoordinates
  <2>3. IsFiniteSet(DOMAIN vec) /\ \A a \in DOMAIN vec : vec[a] \in Int
    <3>1. DOMAIN vec = 1 .. Len(vec) /\ Len(vec) \in Nat /\ \A a \in 1 .. Len(vec) : vec[a] \in Int
      BY <1>1, SeqFacts
    <3>2. \A n \in Nat : IsFiniteSet(1 .. n)
      BY FS_Interval
    <3> QED
      BY <3>1, <3>2
  <2>4. ASSUME NEW j \in 1 .. NumMeans PROVE Measurable(vec, m_CurrentMeans[j])
    <3>1. m_CurrentMeans[j].sum \in Seq(Int) /\ m_CurrentMeans[j].n \in Nat
      BY <1>2, ShapeFacts
    <3>2. \A a \in DOMAIN m_CurrentMeans[j].sum : m_CurrentMeans[j].sum[a] \in Int
      BY <3>1, SeqFacts
    <3> QED
      BY <2>2, <2>3, <3>1, <3>2 DEF Measurable
  <2>5. PICK b \in 1 .. NumMeans :
          /\ mFindNearestMean(vec, m_CurrentMeans) = m_CurrentMeans[b].label
          /\ NearestOf(vec, m_CurrentMeans, b)
    <3> HIDE DEF vec
    <3> QED
      BY <1>2, <2>3, <2>4, NearestFacts
  <2>6. label = b - 1
    BY <1>2, <2>1, <2>5, ShapeFacts
  <2> HIDE DEF label
  <2>7. label \in Labels /\ label + 1 = b /\ (label = 0 \/ b # 1)
    BY <2>6 DEF Labels
  <2> QED
    BY <2>5, <2>7 DEF NearestOf, label
<1> QED
  BY <1>3, <1>4

(* The shuffle permutes points and distances alike.                        *)
LEMMA InitialiseData ==
  ASSUME ShapeInv, mInitialise(NumMeans)
  PROVE  /\ m_PointVector' \in Seq(PointSet)
         /\ Len(m_PointVector') = Len(m_PointVector)
         /\ distances' \in Seq(Range(distances'))
         /\ Len(distances') = Len(m_PointVector)
         /\ m_CurrentMeans' \in Seq(MeanSet)
         /\ Len(m_CurrentMeans') = NumMeans
         /\ \A j \in 1 .. NumMeans :
              /\ j \in DOMAIN m_PointVector'
              /\ m_CurrentMeans'[j] = MeanPoint(j - 1, m_PointVector'[j].vec)
              /\ m_CurrentMeans'[j].label = j - 1
              /\ m_CurrentMeans'[j].n = 1
<1>1. /\ m_PointVector \in Seq(PointSet) /\ distances \in Seq(Range(distances))
      /\ Len(distances) = Len(m_PointVector)
      /\ DOMAIN m_PointVector = 1 .. Len(m_PointVector) /\ Len(m_PointVector) \in Nat
  BY ShapeFacts DEF ShapeInv, TypeOK
<1>2. PICK p \in Bijection(DOMAIN m_PointVector, DOMAIN m_PointVector) :
        /\ m_PointVector' = [i \in DOMAIN m_PointVector |-> m_PointVector[p[i]]]
        /\ distances' = [i \in DOMAIN distances |-> distances[p[i]]]
  BY DEF mInitialise
<1>3. m_PointVector' \in Seq(PointSet) /\ Len(m_PointVector') = Len(m_PointVector)
  BY <1>1, <1>2, ShuffledIsSeq
<1>4. DOMAIN distances = DOMAIN m_PointVector
  BY <1>1, SeqFacts
<1>5. distances' \in Seq(Range(distances)) /\ Len(distances') = Len(m_PointVector)
  <2>1. p \in Bijection(DOMAIN distances, DOMAIN distances)
    BY <1>1, <1>4
  <2>2. distances \in Seq(Range(distances))
    BY <1>1
  <2> DEFINE moved == [i \in DOMAIN distances |-> distances[p[i]]]
  <2>3. moved \in Seq(Range(distances)) /\ Len(moved) = Len(distances)
    BY <2>1, <2>2, ShuffledIsSeq, Zenon
  <2> HIDE DEF moved
  <2>4. distances' = moved
    BY <1>2 DEF moved
  <2> QED
    BY <1>1, <2>3, <2>4
<1>6. distances' \in Seq(Range(distances'))
  BY <1>5, SeqOfRange
<1>7. /\ m_CurrentMeans' = [j \in 1 .. NumMeans |-> MeanPoint(j - 1, m_PointVector'[j].vec)]
      /\ Len(m_PointVector) >= NumMeans
  BY DEF mInitialise, Initial
<1>8. ASSUME NEW j \in 1 .. NumMeans
      PROVE  /\ j \in DOMAIN m_PointVector'
             /\ MeanPoint(j - 1, m_PointVector'[j].vec) \in MeanSet
  <2>1. j \in DOMAIN m_PointVector' /\ m_PointVector'[j] \in PointSet
    BY <1>1, <1>3, <1>7, SeqFacts
  <2>2. m_PointVector'[j].vec \in Seq(Int) /\ j - 1 \in Labels /\ 1 \in 0 .. UINT16 - 1
    BY <2>1 DEF PointSet, Labels
  <2> QED
    BY <2>1, <2>2 DEF MeanPoint, MeanSet
<1>9. m_CurrentMeans' \in Seq(MeanSet) /\ Len(m_CurrentMeans') = NumMeans
  BY <1>7, <1>8
<1>10. \A j \in 1 .. NumMeans : m_CurrentMeans'[j] = MeanPoint(j - 1, m_PointVector'[j].vec)
  BY <1>7
<1>11. \A j, v : MeanPoint(j, v).label = j /\ MeanPoint(j, v).n = 1
  BY DEF MeanPoint
<1> QED
  BY <1>3, <1>5, <1>6, <1>8, <1>9, <1>10, <1>11

(* An assignment changes labels only.                                      *)
LEMMA AssignData ==
  ASSUME ShapeInv, mAssignAll
  PROVE  /\ m_PointVector' \in Seq(PointSet)
         /\ DOMAIN m_PointVector' = DOMAIN m_PointVector
         /\ Len(m_PointVector') = Len(m_PointVector)
         /\ distances' \in Seq(Range(distances'))
         /\ Len(distances') = Len(m_PointVector)
         /\ \A i \in DOMAIN m_PointVector :
              /\ m_PointVector'[i].mean = NearestLabels(m_PointVector, m_CurrentMeans)[i]
              /\ m_PointVector'[i].vec = m_PointVector[i].vec
              /\ m_PointVector'[i].mean = m_PointVector[i].mean =>
                   m_PointVector'[i] = m_PointVector[i]
<1> DEFINE labels == NearestLabels(m_PointVector, m_CurrentMeans)
<1>1. /\ m_PointVector' = Relabelled(m_PointVector, labels)
      /\ distances' = Distances(m_PointVector, m_CurrentMeans, distances)
      /\ m_Initialised
  BY DEF mAssignAll
<1>2. DOMAIN m_PointVector = 1 .. Len(m_PointVector) /\ Len(m_PointVector) \in Nat
  BY ShapeFacts
<1>3. ASSUME NEW i \in DOMAIN m_PointVector
      PROVE  /\ [m_PointVector[i] EXCEPT !.mean = labels[i]] \in PointSet
             /\ [m_PointVector[i] EXCEPT !.mean = labels[i]].mean = labels[i]
             /\ [m_PointVector[i] EXCEPT !.mean = labels[i]].vec = m_PointVector[i].vec
             /\ labels[i] = m_PointVector[i].mean =>
                  [m_PointVector[i] EXCEPT !.mean = labels[i]] = m_PointVector[i]
  <2>1. m_PointVector[i] \in PointSet /\ labels[i] \in Labels
    BY <1>1, ShapeFacts, LabelFacts
  <2> HIDE DEF labels
  <2> QED
    BY <2>1 DEF PointSet
<1> HIDE DEF labels
<1>4. m_PointVector' = [i \in DOMAIN m_PointVector |-> [m_PointVector[i] EXCEPT !.mean = labels[i]]]
  BY <1>1 DEF Relabelled
<1>5. m_PointVector' \in Seq(PointSet) /\ Len(m_PointVector') = Len(m_PointVector)
  BY <1>2, <1>3, <1>4
<1>6. \A i \in DOMAIN m_PointVector :
        /\ m_PointVector'[i].mean = labels[i]
        /\ m_PointVector'[i].vec = m_PointVector[i].vec
        /\ labels[i] = m_PointVector[i].mean => m_PointVector'[i] = m_PointVector[i]
  BY <1>3, <1>4
<1>7. distances' = [i \in DOMAIN m_PointVector |-> distances'[i]]
  BY <1>1 DEF Distances
<1>8. distances' \in Seq(Range(distances')) /\ Len(distances') = Len(m_PointVector)
  <2>1. \A i \in DOMAIN m_PointVector : distances'[i] \in Range(distances')
    BY <1>7, Zenon DEF Range
  <2> QED
    BY <1>2, <1>7, <2>1
<1> QED
  BY <1>4, <1>5, <1>6, <1>8 DEF labels

(* The average of a group, and what it says when it is not a number.       *)
LEMMA AverageData ==
  ASSUME ShapeInv, NEW label \in Labels, Averageable(m_PointVector, label)
  PROVE  LET e == Average(m_PointVector, label)
         IN  /\ e \in MeanSet /\ e.label = label /\ DOMAIN e.sum = 1 .. NumArgs
             /\ e.n <= Len(m_PointVector)
             /\ Len(m_PointVector) < UINT16 /\ ~IsNumber(e) =>
                  /\ Group(m_PointVector, label) = {}
                  /\ \A a \in 1 .. NumArgs : e.sum[a] = 0
<1> DEFINE g == Group(m_PointVector, label)
<1>1. DOMAIN m_PointVector = 1 .. Len(m_PointVector) /\ Len(m_PointVector) \in Nat
  BY ShapeFacts
<1>2. IsFiniteSet(DOMAIN m_PointVector) /\ Cardinality(DOMAIN m_PointVector) = Len(m_PointVector)
  <2>1. \A n \in Nat : IsFiniteSet(1 .. n) /\ Cardinality(1 .. n) = n
    BY FS_Interval
  <2> QED
    BY <1>1, <2>1
<1>3. IsFiniteSet(g) /\ Cardinality(g) \in Nat /\ Cardinality(g) <= Len(m_PointVector)
  <2>1. g \in SUBSET DOMAIN m_PointVector
    BY DEF Group
  <2> HIDE DEF g
  <2> QED
    BY <1>2, <2>1, FS_Subset, FS_CardinalityType
<1>4. ASSUME NEW a \in 1 .. NumArgs
      PROVE  /\ GroupSum(m_PointVector, label, a) \in Int
             /\ g = {} => GroupSum(m_PointVector, label, a) = 0
  <2>1. ASSUME NEW i \in g PROVE m_PointVector[i].vec[a] \in Int
    <3>1. i \in DOMAIN m_PointVector /\ a \in DOMAIN m_PointVector[i].vec
      BY DEF Averageable, Group
    <3>2. m_PointVector[i].vec \in Seq(Int)
      BY <3>1, ShapeFacts
    <3> QED
      BY <3>1, <3>2, SeqFacts
  <2> QED
    BY <1>3, <2>1, GroupSumType
<1> DEFINE e == Average(m_PointVector, label)
           sums == [a \in 1 .. NumArgs |-> GroupSum(m_PointVector, label, a)]
           size == Cardinality(g) % UINT16
<1>5. e = [label |-> label, sum |-> sums, n |-> size]
  BY DEF Average
<1>6. /\ sums \in Seq(Int) /\ DOMAIN sums = 1 .. NumArgs
      /\ g = {} => \A a \in 1 .. NumArgs : sums[a] = 0
  BY <1>4
<1>7. /\ size \in 0 .. UINT16 - 1 /\ (Len(m_PointVector) < UINT16 => size = Cardinality(g))
      /\ size <= Len(m_PointVector)
  <2> HIDE DEF g
  <2>1. size \in 0 .. UINT16 - 1 /\ (Cardinality(g) < UINT16 => size = Cardinality(g))
    BY <1>3, ModuloIsBelow
  <2> QED
    BY <1>1, <1>3, <2>1
<1> HIDE DEF e, sums, size
<1>8. e \in MeanSet /\ e.label = label /\ e.sum = sums /\ e.n = size
  BY <1>5, <1>6, <1>7 DEF MeanSet
<1>9. ASSUME Len(m_PointVector) < UINT16, ~IsNumber(e) PROVE g = {}
  BY <1>3, <1>7, <1>8, <1>9, FS_EmptySet DEF IsNumber
<1>10. DOMAIN e.sum = 1 .. NumArgs /\ (g = {} => \A a \in 1 .. NumArgs : e.sum[a] = 0)
  BY <1>6, <1>8
<1> QED
  BY <1>7, <1>8, <1>9, <1>10 DEF e

(* An update leaves a mean as it was, or takes the average of its group.   *)
LEMMA UpdateData ==
  ASSUME ShapeInv, mUpdateMeans
  PROVE  /\ DOMAIN m_CurrentMeans' = DOMAIN m_CurrentMeans
         /\ m_CurrentMeans' \in Seq(MeanSet)
         /\ Len(m_CurrentMeans') = Len(m_CurrentMeans)
         /\ \A j \in DOMAIN m_CurrentMeans :
              \/ m_CurrentMeans'[j] = m_CurrentMeans[j]
              \/ /\ j - 1 \in Labels
                 /\ Averageable(m_PointVector, j - 1)
                 /\ m_CurrentMeans'[j] = Average(m_PointVector, j - 1)
<1>1. m_CurrentMeans' = Averages(m_PointVector, m_CurrentMeans)
  BY DEF mUpdateMeans
<1>2. /\ m_CurrentMeans \in Seq(MeanSet)
      /\ DOMAIN m_CurrentMeans = 1 .. Len(m_CurrentMeans)
      /\ Len(m_CurrentMeans) \in Nat
  BY ShapeFacts, SeqFacts
<1>3. ASSUME NEW j \in DOMAIN m_CurrentMeans
      PROVE  /\ m_CurrentMeans'[j] \in MeanSet
             /\ \/ m_CurrentMeans'[j] = m_CurrentMeans[j]
                \/ /\ j - 1 \in Labels
                   /\ Averageable(m_PointVector, j - 1)
                   /\ m_CurrentMeans'[j] = Average(m_PointVector, j - 1)
  <2>1. m_CurrentMeans[j].label = j - 1 /\ m_CurrentMeans[j] \in MeanSet
    BY ShapeFacts
  <2>2. j - 1 \in Labels
    BY <2>1 DEF MeanSet
  <2>3. CASE \A k \in 1 .. j : Averageable(m_PointVector, m_CurrentMeans[k].label)
    <3>1. m_CurrentMeans'[j] = Average(m_PointVector, j - 1)
      BY <1>1, <2>1, <2>3 DEF Averages
    <3>2. Averageable(m_PointVector, j - 1)
      BY <1>2, <2>1, <2>3
    <3> QED
      BY <2>2, <3>1, <3>2, AverageData
  <2>4. CASE ~\A k \in 1 .. j : Averageable(m_PointVector, m_CurrentMeans[k].label)
    BY <1>1, <2>1, <2>4 DEF Averages
  <2> QED
    BY <2>3, <2>4
<1>4. m_CurrentMeans' = [j \in DOMAIN m_CurrentMeans |-> m_CurrentMeans'[j]]
  BY <1>1 DEF Averages
<1>5. m_CurrentMeans' \in Seq(MeanSet) /\ Len(m_CurrentMeans') = Len(m_CurrentMeans)
  BY <1>2, <1>3, <1>4
<1> QED
  BY <1>3, <1>4, <1>5

(* A submission adds a point with label 0, at distance 0.                  *)
LEMMA SubmitData ==
  ASSUME ShapeInv, NEW vec \in Vectors, mSubmit(vec)
  PROVE  /\ m_PointVector' \in Seq(PointSet)
         /\ Len(m_PointVector') = Len(m_PointVector) + 1
         /\ Len(m_PointVector') <= MaxPoints
         /\ DOMAIN m_PointVector' = 1 .. Len(m_PointVector) + 1
         /\ m_PointVector'[Len(m_PointVector) + 1].mean = 0
         /\ \A i \in DOMAIN m_PointVector : m_PointVector'[i] = m_PointVector[i]
         /\ m_PointIndex' \in 0 .. UINT16 - 1
         /\ distances' \in Seq(Range(distances'))
         /\ Len(distances') = Len(m_PointVector')
<1> DEFINE e == DataPoint(vec, m_PointIndex)
<1>1. /\ m_PointVector \in Seq(PointSet)
      /\ DOMAIN m_PointVector = 1 .. Len(m_PointVector) /\ Len(m_PointVector) \in Nat
  BY ShapeFacts
<1>2. /\ m_PointIndex \in 0 .. UINT16 - 1
      /\ Len(distances) = Len(m_PointVector) /\ distances \in Seq(Range(distances))
  BY DEF ShapeInv, TypeOK
<1>3. e \in PointSet /\ e.mean = 0
  BY <1>2 DEF DataPoint, PointSet, Labels
<1> HIDE DEF e
<1>4. m_PointVector' = Append(m_PointVector, e) /\ Len(m_PointVector) < MaxPoints
  BY DEF mSubmit, e
<1>5. /\ m_PointVector' \in Seq(PointSet)
      /\ Len(m_PointVector') = Len(m_PointVector) + 1
      /\ m_PointVector'[Len(m_PointVector) + 1] = e
      /\ \A i \in 1 .. Len(m_PointVector) : m_PointVector'[i] = m_PointVector[i]
  BY <1>1, <1>3, <1>4, AppendProperties
<1>6. DOMAIN m_PointVector' = 1 .. Len(m_PointVector) + 1
  BY <1>5, SeqFacts
<1>7. m_PointIndex' \in 0 .. UINT16 - 1
  <2>1. m_PointIndex' = (m_PointIndex + 1) % UINT16
    BY DEF mSubmit
  <2> QED
    BY <1>2, <2>1, ModuloIsBelow
<1>8. /\ distances' \in Seq(Range(distances'))
      /\ Len(distances') = Len(distances) + 1
  BY <1>2, AppendToAny DEF mSubmit
<1> QED
  BY <1>1, <1>2, <1>3, <1>4, <1>5, <1>6, <1>7, <1>8

(* Points, means and distances keep their shape.                           *)
LEMMA ShapeInit == Init => ShapeInv
<1> SUFFICES ASSUME Init PROVE ShapeInv
  OBVIOUS
<1>1. /\ m_PointVector = <<>> /\ m_CurrentMeans = <<>> /\ distances = <<>>
      /\ ~m_Initialised /\ m_Initialised \in BOOLEAN
  BY Zenon DEF Init
<1>3. m_PointIndex \in 0 .. UINT16 - 1
  BY DEF Init
<1>2. /\ m_PointVector \in Seq(PointSet) /\ m_CurrentMeans \in Seq(MeanSet)
      /\ distances \in Seq(Range(distances))
      /\ Len(m_PointVector) = 0 /\ Len(m_CurrentMeans) = 0 /\ Len(distances) = 0
      /\ DOMAIN m_CurrentMeans = {}
  BY <1>1, EmptySeq
<1> QED
  BY <1>1, <1>2, <1>3 DEF ShapeInv, TypeOK, PointSet, MeanSet

\* Every operation keeps the shape of the data.
LEMMA ShapeStep == ShapeInv /\ [Next]_vars => ShapeInv'
<1> SUFFICES ASSUME ShapeInv, [Next]_vars PROVE ShapeInv'
  OBVIOUS
<1>1. /\ m_PointVector \in Seq(PointSet) /\ m_CurrentMeans \in Seq(MeanSet)
      /\ distances \in Seq(Range(distances)) /\ Len(distances) = Len(m_PointVector)
      /\ m_PointIndex \in 0 .. UINT16 - 1 /\ m_Initialised \in BOOLEAN
      /\ Len(m_CurrentMeans) = IF m_Initialised THEN NumMeans ELSE 0
      /\ \A j \in DOMAIN m_CurrentMeans : m_CurrentMeans[j].label = j - 1
  BY DEF ShapeInv, TypeOK, PointSet, MeanSet
<1> USE DEF ShapeInv, TypeOK
<1>2. ASSUME NEW vec \in Vectors, mSubmit(vec) PROVE ShapeInv'
  <2>1. UNCHANGED <<m_CurrentMeans, m_Initialised>>
    BY <1>2 DEF mSubmit
  <2> QED
    BY <1>1, <1>2, <2>1, SubmitData DEF PointSet, MeanSet
<1>3. CASE mInitialise(NumMeans)
  <2>1. m_Initialised' /\ m_Initialised' \in BOOLEAN /\ m_PointIndex' = m_PointIndex
    BY <1>3 DEF mInitialise
  <2>2. DOMAIN m_CurrentMeans' = 1 .. NumMeans
    BY <1>3, InitialiseData, SeqFacts
  <2> QED
    BY <1>1, <1>3, <2>1, <2>2, InitialiseData DEF PointSet, MeanSet
<1>4. CASE mAssignAll
  <2>1. UNCHANGED <<m_PointIndex, m_CurrentMeans, m_Initialised>>
    BY <1>4 DEF mAssignAll
  <2> QED
    BY <1>1, <1>4, <2>1, AssignData DEF PointSet, MeanSet
<1>5. CASE mUpdateMeans
  <2>1. UNCHANGED <<m_PointVector, m_PointIndex, m_Initialised, distances>>
    BY <1>5 DEF mUpdateMeans
  <2>2. ASSUME NEW j \in DOMAIN m_CurrentMeans PROVE m_CurrentMeans'[j].label = j - 1
    BY <1>1, <1>5, UpdateData, AverageData
  <2> QED
    BY <1>1, <1>5, <2>1, <2>2, UpdateData DEF PointSet, MeanSet
<1>6. CASE UNCHANGED vars
  BY <1>1, <1>6 DEF vars
<1> QED
  BY <1>2, <1>3, <1>4, <1>5, <1>6 DEF Next

\* The shape of the data is invariant.
LEMMA Shape == Spec => []ShapeInv
BY ShapeInit, ShapeStep, PTL DEF Spec

(* The engine's data keeps its shape: points, each with a distance, and    *)
(* one mean per label once mInitialise has run.                            *)
THEOREM TypeCorrect == Spec => []TypeOK
<1>1. ShapeInv => TypeOK
  BY DEF ShapeInv
<1> QED
  BY <1>1, Shape, PTL

-----------------------------------------------------------------------------
(* Means that are NaN.                                                     *)

(* mAssignAll adds no point to the group of a mean that is NaN, except to  *)
(* the first.                                                              *)
LEMMA AssignLeavesLost ==
  ASSUME ShapeInv, mAssignAll, NEW j \in DOMAIN m_CurrentMeans, j # 1,
         ~IsNumber(m_CurrentMeans[j]), Group(m_PointVector, j - 1) = {}
  PROVE  Group(m_PointVector', j - 1) = {}
<1> SUFFICES ASSUME NEW i \in DOMAIN m_PointVector', m_PointVector'[i].mean = j - 1
             PROVE  FALSE
  BY DEF Group
<1>1. i \in DOMAIN m_PointVector /\ m_Initialised
  BY AssignData DEF mAssignAll
<1>2. NearestLabels(m_PointVector, m_CurrentMeans)[i] = j - 1
  BY <1>1, AssignData
<1>3. m_PointVector[i].mean # j - 1
  BY <1>1 DEF Group
<1>4. j \in 1 .. NumMeans
  BY <1>1, ShapeFacts
<1>5. j - 1 # 0 /\ (j - 1) + 1 = j
  BY <1>4
<1> QED
  BY <1>1, <1>2, <1>3, <1>5, LabelFacts

\* There is no lost mean before there are means.
LEMMA LostInit == Init => LostInv
<1> SUFFICES ASSUME Init PROVE LostInv
  OBVIOUS
<1>1. Len(m_PointVector) = 0 /\ DOMAIN m_CurrentMeans = {}
  BY EmptySeq DEF Init
<1> QED
  BY <1>1 DEF LostInv

\* Every operation keeps what is said of lost means.
LEMMA LostStep ==
  ASSUME MaxPoints < UINT16, ShapeInv, LostInv, [Next]_vars
  PROVE  LostInv'
<1>1. /\ Len(m_PointVector) <= MaxPoints /\ Len(m_PointVector) \in Nat
      /\ DOMAIN m_PointVector = 1 .. Len(m_PointVector)
      /\ DOMAIN m_CurrentMeans = IF m_Initialised THEN 1 .. NumMeans ELSE {}
  BY ShapeFacts DEF LostInv
<1> DEFINE Lost(m, j, points) ==
      ~IsNumber(m) => /\ \A a \in DOMAIN m.sum : m.sum[a] = 0
                      /\ j # 1 => Group(points, j - 1) = {}
<1>2. \A j \in DOMAIN m_CurrentMeans : Lost(m_CurrentMeans[j], j, m_PointVector)
  BY DEF LostInv
<1>3. SUFFICES /\ Len(m_PointVector') <= MaxPoints
               /\ \A j \in DOMAIN m_CurrentMeans' : Lost(m_CurrentMeans'[j], j, m_PointVector')
  BY DEF LostInv
<1>4. ASSUME NEW vec \in Vectors, mSubmit(vec)
      PROVE  /\ Len(m_PointVector') <= MaxPoints
             /\ \A j \in DOMAIN m_CurrentMeans' : Lost(m_CurrentMeans'[j], j, m_PointVector')
  <2>1. m_CurrentMeans' = m_CurrentMeans
    BY <1>4 DEF mSubmit
  <2>2. ASSUME NEW j \in DOMAIN m_CurrentMeans, j # 1, Group(m_PointVector, j - 1) = {}
        PROVE  Group(m_PointVector', j - 1) = {}
    <3> SUFFICES ASSUME NEW i \in DOMAIN m_PointVector', m_PointVector'[i].mean = j - 1
                 PROVE  FALSE
      BY DEF Group
    <3>1. j - 1 # 0
      BY <1>1, <2>2
    <3>2. i # Len(m_PointVector) + 1
      BY <1>4, <3>1, SubmitData
    <3>3. i \in DOMAIN m_PointVector
      BY <1>1, <1>4, <3>2, SubmitData
    <3> QED
      BY <1>4, <2>2, <3>3, SubmitData DEF Group
  <2> QED
    BY <1>2, <1>4, <2>1, <2>2, SubmitData
<1>5. ASSUME mInitialise(NumMeans)
      PROVE  /\ Len(m_PointVector') <= MaxPoints
             /\ \A j \in DOMAIN m_CurrentMeans' : Lost(m_CurrentMeans'[j], j, m_PointVector')
  <2>1. DOMAIN m_CurrentMeans' = 1 .. NumMeans
    BY <1>5, InitialiseData, SeqFacts
  <2> QED
    BY <1>1, <1>5, <2>1, InitialiseData DEF IsNumber
<1>6. ASSUME mAssignAll
      PROVE  /\ Len(m_PointVector') <= MaxPoints
             /\ \A j \in DOMAIN m_CurrentMeans' : Lost(m_CurrentMeans'[j], j, m_PointVector')
  <2>1. m_CurrentMeans' = m_CurrentMeans
    BY <1>6 DEF mAssignAll
  <2> QED
    BY <1>1, <1>2, <1>6, <2>1, AssignData, AssignLeavesLost
<1>7. ASSUME mUpdateMeans
      PROVE  /\ Len(m_PointVector') <= MaxPoints
             /\ \A j \in DOMAIN m_CurrentMeans' : Lost(m_CurrentMeans'[j], j, m_PointVector')
  <2>1. m_PointVector' = m_PointVector /\ DOMAIN m_CurrentMeans' = DOMAIN m_CurrentMeans
    BY <1>7, UpdateData DEF mUpdateMeans
  <2>2. ASSUME NEW j \in DOMAIN m_CurrentMeans PROVE Lost(m_CurrentMeans'[j], j, m_PointVector)
    <3>1. CASE m_CurrentMeans'[j] = m_CurrentMeans[j]
      BY <1>2, <3>1
    <3>2. CASE /\ j - 1 \in Labels
               /\ Averageable(m_PointVector, j - 1)
               /\ m_CurrentMeans'[j] = Average(m_PointVector, j - 1)
      <4>1. Len(m_PointVector) < UINT16
        BY <1>1
      <4> QED
        BY <3>2, <4>1, AverageData
    <3> QED
      BY <1>7, <3>1, <3>2, UpdateData
  <2> QED
    BY <1>1, <2>1, <2>2
<1>8. ASSUME UNCHANGED vars
      PROVE  /\ Len(m_PointVector') <= MaxPoints
             /\ \A j \in DOMAIN m_CurrentMeans' : Lost(m_CurrentMeans'[j], j, m_PointVector')
  BY <1>1, <1>2, <1>8 DEF vars
<1> QED
  BY <1>4, <1>5, <1>6, <1>7, <1>8 DEF Next

(* A mean that is NaN and has no points stays NaN.                         *)
LEMMA LostStays ==
  ASSUME MaxPoints < UINT16, ShapeInv, LostInv, [Next]_vars,
         NEW j \in 2 .. Len(m_CurrentMeans), ~IsNumber(m_CurrentMeans[j])
  PROVE  j \in DOMAIN m_CurrentMeans' /\ ~IsNumber(m_CurrentMeans'[j])
<1>1. /\ m_CurrentMeans \in Seq(MeanSet) /\ DOMAIN m_CurrentMeans = 1 .. Len(m_CurrentMeans)
      /\ Len(m_CurrentMeans) \in Nat
      /\ DOMAIN m_CurrentMeans = IF m_Initialised THEN 1 .. NumMeans ELSE {}
  BY ShapeFacts, SeqFacts
<1>2. j \in DOMAIN m_CurrentMeans /\ j # 1 /\ m_Initialised
  BY <1>1
<1>3. Group(m_PointVector, j - 1) = {}
  BY <1>2 DEF LostInv
<1>4. CASE m_CurrentMeans' = m_CurrentMeans
  BY <1>2, <1>4
<1>5. CASE mUpdateMeans
  <2>1. CASE m_CurrentMeans'[j] = m_CurrentMeans[j]
    BY <1>2, <1>5, <2>1, UpdateData
  <2>2. CASE m_CurrentMeans'[j] = Average(m_PointVector, j - 1)
    <3>1. Cardinality({}) = 0 /\ 0 % UINT16 = 0
      BY FS_EmptySet, ModuloIsBelow
    <3>2. Cardinality(Group(m_PointVector, j - 1)) % UINT16 = 0
      BY <1>3, <3>1, Zenon
    <3>3. Average(m_PointVector, j - 1).n = 0
      BY <3>2 DEF Average
    <3> QED
      BY <1>2, <1>5, <2>2, <3>3, UpdateData DEF IsNumber
  <2> QED
    BY <1>2, <1>5, <2>1, <2>2, UpdateData
<1>6. m_CurrentMeans' = m_CurrentMeans \/ mUpdateMeans
  BY <1>2 DEF Next, vars, mSubmit, mInitialise, mAssignAll
<1> QED
  BY <1>4, <1>5, <1>6

(* A mean other than the first is lost for good once it is NaN: with fewer *)
(* points than a uint16_t counts, so that the size of a group cannot wrap  *)
(* to 0, no step of mAssignAll, mUpdateMeans or mSubmit gives it points or *)
(* makes it a number again.                                                *)
THEOREM EmptyMeansStayEmpty == MaxPoints < UINT16 => (Spec => EmptyMeanStaysEmpty)
<1> SUFFICES ASSUME MaxPoints < UINT16 PROVE Spec => EmptyMeanStaysEmpty
  OBVIOUS
<1>1. ShapeInv /\ LostInv /\ [Next]_vars => LostInv'
  BY LostStep
<1>2. ShapeInv /\ LostInv /\ LostInv' /\ [Next]_vars =>
        [\A j \in 2 .. Len(m_CurrentMeans) :
           ~IsNumber(m_CurrentMeans[j]) =>
             ~IsNumber(m_CurrentMeans[j]') /\ Group(m_PointVector, j - 1)' = {}]_vars
  <2> SUFFICES ASSUME ShapeInv, LostInv, LostInv', [Next]_vars,
                      NEW j \in 2 .. Len(m_CurrentMeans), ~IsNumber(m_CurrentMeans[j])
               PROVE  ~IsNumber(m_CurrentMeans'[j]) /\ Group(m_PointVector', j - 1) = {}
    OBVIOUS
  <2>1. j \in DOMAIN m_CurrentMeans' /\ ~IsNumber(m_CurrentMeans'[j])
    BY LostStays
  <2>2. j # 1
    BY ShapeFacts, SeqFacts
  <2> QED
    BY <2>1, <2>2 DEF LostInv
<1> QED
  BY <1>1, <1>2, LostInit, Shape, PTL DEF Spec, EmptyMeanStaysEmpty

-----------------------------------------------------------------------------
(* The collapse onto the first mean.                                       *)

\* All vectors have the same coordinates, at least one, at most NumArgs.
OneWidth == \E w \in 1 .. NumArgs : Vectors \subseteq [1 .. w -> Int]

(* Then the means have the coordinates of every vector.                    *)
LEMMA WidthStep ==
  ASSUME NEW w \in 1 .. NumArgs, Vectors \subseteq [1 .. w -> Int],
         ShapeInv, WidthInv(w), [Next]_vars
  PROVE  WidthInv(w)'
<1>1. ASSUME mInitialise(NumMeans) PROVE WidthInv(w)'
  <2>1. /\ DOMAIN m_CurrentMeans' = 1 .. NumMeans
        /\ m_PointVector' \in Seq(PointSet)
    BY <1>1, InitialiseData, SeqFacts
  <2>2. ASSUME NEW j \in 1 .. NumMeans PROVE 1 .. w \subseteq DOMAIN m_CurrentMeans'[j].sum
    <3>1. m_PointVector'[j] \in PointSet
      BY <1>1, <2>1, InitialiseData, SeqFacts
    <3>2. DOMAIN m_PointVector'[j].vec = 1 .. w
      BY <3>1 DEF PointSet
    <3> QED
      BY <1>1, <3>2, InitialiseData DEF MeanPoint
  <2> QED
    BY <2>1, <2>2 DEF WidthInv
<1>2. ASSUME mUpdateMeans PROVE WidthInv(w)'
  <2>1. ASSUME NEW j \in DOMAIN m_CurrentMeans PROVE 1 .. w \subseteq DOMAIN m_CurrentMeans'[j].sum
    <3>1. CASE m_CurrentMeans'[j] = m_CurrentMeans[j]
      BY <3>1 DEF WidthInv
    <3>2. CASE m_CurrentMeans'[j] = Average(m_PointVector, j - 1)
      BY <3>2 DEF Average
    <3> QED
      BY <1>2, <3>1, <3>2, UpdateData
  <2> QED
    BY <1>2, <2>1, UpdateData DEF WidthInv
<1>3. ASSUME m_CurrentMeans' = m_CurrentMeans PROVE WidthInv(w)'
  BY <1>3 DEF WidthInv
<1> QED
  BY <1>1, <1>2, <1>3 DEF Next, vars, mSubmit, mAssignAll

(* An assignment that starts from a first mean that is NaN.                *)
LEMMA Collapse ==
  ASSUME NEW w \in 1 .. NumArgs, Vectors \subseteq [1 .. w -> Int],
         ShapeInv, LostInv, WidthInv(w), mAssignAll, ~IsNumber(m_CurrentMeans[1])
  PROVE  Group(m_PointVector', 0) = DOMAIN m_PointVector'
<1> SUFFICES ASSUME NEW i \in DOMAIN m_PointVector' PROVE m_PointVector'[i].mean = 0
  BY DEF Group
<1>1. /\ m_Initialised /\ i \in DOMAIN m_PointVector
      /\ m_PointVector'[i].mean = NearestLabels(m_PointVector, m_CurrentMeans)[i]
  BY AssignData DEF mAssignAll
<1>2. /\ DOMAIN m_CurrentMeans = 1 .. NumMeans /\ 1 \in 1 .. NumMeans
      /\ DOMAIN m_PointVector = 1 .. Len(m_PointVector) /\ Len(m_PointVector) \in Nat
  BY <1>1, ShapeFacts
<1>3. \A k \in DOMAIN m_PointVector : DOMAIN m_PointVector[k].vec = 1 .. w
  <2>1. \A p \in PointSet : DOMAIN p.vec = 1 .. w
    BY DEF PointSet
  <2> QED
    BY <2>1, ShapeFacts
<1>4. \A k \in 1 .. i : k \in DOMAIN m_PointVector
  BY <1>1, <1>2
<1>5. Reached(m_PointVector, m_CurrentMeans, i)
  BY <1>2, <1>3, <1>4 DEF Reached, Assignable, HasCoordinates, WidthInv
<1>6. NearestLabels(m_PointVector, m_CurrentMeans)[i]
        = mFindNearestMean(m_PointVector[i].vec, m_CurrentMeans)
  BY <1>1, <1>5 DEF NearestLabels
<1>7. mCalculateEuclideanDistance(m_PointVector[i].vec, m_CurrentMeans[1]).nan
  <2>1. 1 \in DOMAIN m_PointVector[i].vec /\ 1 \in DOMAIN m_CurrentMeans[1].sum
    BY <1>1, <1>2, <1>3 DEF WidthInv
  <2>2. m_CurrentMeans[1].sum[1] = 0
    BY <1>2, <2>1 DEF LostInv
  <2> QED
    BY <2>1, <2>2 DEF mCalculateEuclideanDistance
<1>8. mFindNearestMean(m_PointVector[i].vec, m_CurrentMeans) = m_CurrentMeans[1].label
  BY <1>2, <1>7, NearestFromNaN
<1>9. m_CurrentMeans[1].label = 0
  BY <1>2, ShapeFacts
<1> QED
  BY <1>1, <1>6, <1>8, <1>9

(* When the first mean is NaN every distance to it is NaN, the search      *)
(* never leaves it, and mAssignAll gathers all points under label 0.       *)
THEOREM NaNCollapses ==
  MaxPoints < UINT16 /\ OneWidth => (Spec => NaNFirstMeanCollapses)
<1> SUFFICES ASSUME MaxPoints < UINT16, NEW w \in 1 .. NumArgs, Vectors \subseteq [1 .. w -> Int]
             PROVE  Spec => NaNFirstMeanCollapses
  BY DEF OneWidth
<1>1. ShapeInv /\ LostInv /\ [Next]_vars => LostInv'
  BY LostStep
<1>2. Init => WidthInv(w)
  BY DEF Init, WidthInv
<1>3. ShapeInv /\ WidthInv(w) /\ [Next]_vars => WidthInv(w)'
  BY WidthStep
<1>4. ShapeInv /\ LostInv /\ WidthInv(w) /\ [Next]_vars =>
        [(mAssignAll /\ ~IsNumber(m_CurrentMeans[1])) =>
            Group(m_PointVector, 0)' = DOMAIN m_PointVector]_vars
  <2> SUFFICES ASSUME ShapeInv, LostInv, WidthInv(w), mAssignAll, ~IsNumber(m_CurrentMeans[1])
               PROVE  Group(m_PointVector', 0) = DOMAIN m_PointVector
    OBVIOUS
  <2> QED
    BY Collapse, AssignData
<1> QED
  BY <1>1, <1>2, <1>3, <1>4, LostInit, Shape, PTL DEF Spec, NaNFirstMeanCollapses


-----------------------------------------------------------------------------
(* The cost of the clustering.                                             *)

\* Means with the coordinates of every vector, over groups of some of the points.
Locates(m, w) == m.n \in Nat /\ m.n <= MaxPoints /\ \A a \in 1 .. w : m.sum[a] \in Int

SizeInv == \A j \in DOMAIN m_CurrentMeans : m_CurrentMeans[j].n <= MaxPoints

CostTerms(points, means) ==
  [i \in DOMAIN points |-> Scaled(Scale, points[i].vec, means[points[i].mean + 1])]

LabelTerms(points) == [i \in DOMAIN points |-> points[i].mean]

(* Cost is the sum of its terms.                                           *)
LEMMA CostIsSum ==
  Cost = SumOver(CostTerms(m_PointVector, m_CurrentMeans), DOMAIN m_PointVector)
<1> DEFINE S == DOMAIN m_PointVector
           Term(i) ==
             LET d == mCalculateEuclideanDistance(m_PointVector[i].vec, MeanOf(m_PointVector[i]))
             IN  (Scale * d.num) \div d.den
           f == [i \in S |-> Term(i)]
           one(s) == CHOOSE x \in s : TRUE
           A(g) == [s \in SUBSET S |-> IF s = {} THEN 0 ELSE Term(one(s)) + g[s \ {one(s)}]]
           B(g) == [s \in SUBSET S |-> IF s = {} THEN 0 ELSE f[one(s)] + g[s \ {one(s)}]]
<1>1. \A g : A(g) = B(g)
  <2> HIDE DEF Term, S
  <2> QED
    OBVIOUS
<1>2. (CHOOSE g : g = A(g)) = (CHOOSE g : g = B(g))
  <2> HIDE DEF A, B
  <2> QED
    BY <1>1, Zenon
<1>3. f = CostTerms(m_PointVector, m_CurrentMeans)
  BY Zenon DEF CostTerms, Scaled, MeanOf
<1> HIDE DEF f
<1>4. Cost = SumOver(f, S)
  BY <1>2, Zenon DEF Cost, SumOver, MapThenSumSet, MapThenFoldSet
<1> QED
  BY <1>3, <1>4

(* LabelSum is the sum of the labels.                                      *)
LEMMA LabelSumIsSum == LabelSum = SumOver(LabelTerms(m_PointVector), DOMAIN m_PointVector)
<1> DEFINE S == DOMAIN m_PointVector
           f == [i \in S |-> m_PointVector[i].mean]
           one(s) == CHOOSE x \in s : TRUE
           A(g) == [s \in SUBSET S |->
                      IF s = {} THEN 0 ELSE m_PointVector[one(s)].mean + g[s \ {one(s)}]]
           B(g) == [s \in SUBSET S |-> IF s = {} THEN 0 ELSE f[one(s)] + g[s \ {one(s)}]]
<1>1. \A g : A(g) = B(g)
  <2> HIDE DEF S
  <2> QED
    OBVIOUS
<1>2. (CHOOSE g : g = A(g)) = (CHOOSE g : g = B(g))
  <2> HIDE DEF A, B
  <2> QED
    BY <1>1, Zenon
<1> HIDE DEF f
<1>3. LabelSum = SumOver(f, S)
  BY <1>2, Zenon DEF LabelSum, SumOver, MapThenSumSet, MapThenFoldSet
<1> QED
  BY <1>3, Zenon DEF f, LabelTerms

(* Scale is a multiple of the square of every size a group can have.       *)
LEMMA ScaleIsMultiple ==
  ASSUME NEW n \in 1 .. MaxPoints
  PROVE  \E k \in Nat \ {0} : Scale = (n * n) * k
<1> DEFINE product == ProductSet(1 .. MaxPoints)
<1>1. PICK k \in Nat \ {0} : product = n * k
  BY ProductIsMultiple
<1>2. Scale = product * product
  BY DEF Scale
<1> HIDE DEF product
<1>3. k * k \in Nat \ {0} /\ (n * k) * (n * k) = (n * n) * (k * k)
  <2>1. \A a, b \in Nat : (a * b) * (a * b) = (a * a) * (b * b)
    OBVIOUS
  <2>2. n \in Nat
    OBVIOUS
  <2> QED
    BY <2>1, <2>2
<1>4. Scale = (n * n) * (k * k)
  BY <1>1, <1>2, <1>3
<1> QED
  BY <1>3, <1>4

(* The distance of a vector to a mean, as a term of the cost.              *)
LEMMA TermFacts ==
  ASSUME NEW w \in Nat, NEW vec \in [1 .. w -> Int], NEW m, Locates(m, w)
  PROVE  /\ IsFiniteSet(DOMAIN vec) /\ Measurable(vec, m)
         /\ IsNumber(m) => /\ \E k \in Nat \ {0} : Scale = (m.n * m.n) * k
                           /\ Scaled(Scale, vec, m) \in Nat
<1>1. DOMAIN vec = 1 .. w /\ IsFiniteSet(1 .. w) /\ \A a \in 1 .. w : vec[a] \in Int
  BY FS_Interval
<1>2. IsFiniteSet(DOMAIN vec) /\ Measurable(vec, m)
  BY <1>1 DEF Measurable, Locates
<1>3. ASSUME IsNumber(m)
      PROVE  /\ \E k \in Nat \ {0} : Scale = (m.n * m.n) * k
             /\ Scaled(Scale, vec, m) \in Nat
  <2>1. m.n \in 1 .. MaxPoints
    BY <1>3 DEF IsNumber, Locates
  <2>2. PICK k \in Nat \ {0} : Scale = (m.n * m.n) * k
    BY <2>1, ScaleIsMultiple
  <2>3. Scaled(Scale, vec, m) \in Nat
    BY <1>2, <1>3, <2>2, ScaledDistance
  <2> QED
    BY <2>2, <2>3
<1> QED
  BY <1>2, <1>3

(* No mean stands for more points than there are.                          *)
LEMMA SizeStep ==
  ASSUME ShapeInv, LostInv, LostInv', SizeInv, [Next]_vars
  PROVE  SizeInv'
<1>1. Len(m_PointVector) <= MaxPoints /\ Len(m_PointVector) \in Nat
  BY ShapeFacts DEF LostInv
<1>2. ASSUME mInitialise(NumMeans) PROVE SizeInv'
  <2>1. DOMAIN m_CurrentMeans' = 1 .. NumMeans
    BY <1>2, InitialiseData, SeqFacts
  <2>2. MaxPoints >= 1
    BY <1>1, <1>2 DEF mInitialise
  <2> QED
    BY <1>2, <2>1, <2>2, InitialiseData DEF SizeInv
<1>3. ASSUME mUpdateMeans PROVE SizeInv'
  <2>1. ASSUME NEW j \in DOMAIN m_CurrentMeans PROVE m_CurrentMeans'[j].n <= MaxPoints
    <3>1. CASE m_CurrentMeans'[j] = m_CurrentMeans[j]
      BY <3>1 DEF SizeInv
    <3>2. CASE /\ j - 1 \in Labels
               /\ Averageable(m_PointVector, j - 1)
               /\ m_CurrentMeans'[j] = Average(m_PointVector, j - 1)
      <4>1. m_CurrentMeans'[j].n <= Len(m_PointVector) /\ m_CurrentMeans'[j] \in MeanSet
        BY <3>2, AverageData
      <4>2. m_CurrentMeans'[j].n \in Int
        BY <4>1 DEF MeanSet
      <4> QED
        BY <1>1, <4>1, <4>2
    <3> QED
      BY <1>3, <3>1, <3>2, UpdateData
  <2> QED
    BY <1>3, <2>1, UpdateData DEF SizeInv
<1>4. ASSUME m_CurrentMeans' = m_CurrentMeans PROVE SizeInv'
  BY <1>4 DEF SizeInv
<1> QED
  BY <1>2, <1>3, <1>4 DEF Next, vars, mSubmit, mAssignAll

\* What the steps that lower the cost start from.
CostInv(w) == ShapeInv /\ LostInv /\ WidthInv(w) /\ SizeInv

(* Every mean has a place among the vectors, as NaN or not.                *)
LEMMA PlacesFacts ==
  ASSUME NEW w \in 1 .. NumArgs, Vectors \subseteq [1 .. w -> Int], CostInv(w)
  PROVE  /\ \A j \in DOMAIN m_CurrentMeans : Locates(m_CurrentMeans[j], w)
         /\ \A i \in DOMAIN m_PointVector :
              /\ m_PointVector[i].vec \in [1 .. w -> Int]
              /\ m_PointVector[i].mean \in Labels
              /\ m_Initialised => m_PointVector[i].mean + 1 \in DOMAIN m_CurrentMeans
         /\ IsFiniteSet(DOMAIN m_PointVector)
<1>1. ShapeInv /\ WidthInv(w) /\ SizeInv
  BY DEF CostInv
<1>2. ASSUME NEW j \in DOMAIN m_CurrentMeans PROVE Locates(m_CurrentMeans[j], w)
  <2>1. /\ m_CurrentMeans[j].n \in Nat /\ m_CurrentMeans[j].n <= MaxPoints
        /\ m_CurrentMeans[j].sum \in Seq(Int) /\ 1 .. w \subseteq DOMAIN m_CurrentMeans[j].sum
    BY <1>1, ShapeFacts DEF WidthInv, SizeInv
  <2>2. \A a \in DOMAIN m_CurrentMeans[j].sum : m_CurrentMeans[j].sum[a] \in Int
    BY <2>1, SeqFacts
  <2> QED
    BY <2>1, <2>2 DEF Locates
<1>3. ASSUME NEW i \in DOMAIN m_PointVector
      PROVE  /\ m_PointVector[i].vec \in [1 .. w -> Int]
             /\ m_PointVector[i].mean \in Labels
             /\ m_Initialised => m_PointVector[i].mean + 1 \in DOMAIN m_CurrentMeans
  <2>1. m_PointVector[i] \in PointSet /\ m_PointVector[i].mean \in Labels
    BY <1>1, ShapeFacts
  <2>2. m_PointVector[i].vec \in [1 .. w -> Int]
    BY <2>1 DEF PointSet
  <2>3. \A l \in Labels : l + 1 \in 1 .. NumMeans
    BY DEF Labels
  <2> QED
    BY <1>1, <2>1, <2>2, <2>3, ShapeFacts
<1>4. IsFiniteSet(DOMAIN m_PointVector)
  <2>1. \A n \in Nat : IsFiniteSet(1 .. n)
    BY FS_Interval
  <2> QED
    BY <1>1, <2>1, ShapeFacts
<1> QED
  BY <1>2, <1>3, <1>4


(* One point in an assignment: its mean is a number, and it moves only to  *)
(* a nearer mean or to one with a lower label that is as near.             *)
LEMMA PointDescends ==
  ASSUME NEW w \in 1 .. NumArgs, Vectors \subseteq [1 .. w -> Int], CostInv(w),
         mAssignAll, Located, IsNumber(m_CurrentMeans[1]), NEW i \in DOMAIN m_PointVector
  PROVE  LET old == m_PointVector[i].mean
             new == m_PointVector'[i].mean
             vec == m_PointVector[i].vec
             from == Scaled(Scale, vec, m_CurrentMeans[old + 1])
             to == Scaled(Scale, vec, m_CurrentMeans[new + 1])
         IN  /\ IsNumber(m_CurrentMeans[new + 1])
             /\ from \in Int /\ to \in Int /\ old \in Int /\ new \in Int
             /\ to < from \/ (to = from /\ new <= old)
             /\ new # old => to < from \/ new < old
<1> DEFINE old == m_PointVector[i].mean
           new == m_PointVector'[i].mean
           vec == m_PointVector[i].vec
           means == m_CurrentMeans
           cost(j) == Scaled(Scale, vec, means[j])
<1>1. /\ ShapeInv /\ m_Initialised /\ w \in Nat
      /\ DOMAIN means = 1 .. NumMeans /\ \A j \in 1 .. NumMeans : means[j].label = j - 1
      /\ DOMAIN m_PointVector = 1 .. Len(m_PointVector) /\ Len(m_PointVector) \in Nat
  BY ShapeFacts DEF CostInv, Located
<1>2. /\ \A j \in 1 .. NumMeans : Locates(means[j], w)
      /\ \A k \in DOMAIN m_PointVector : m_PointVector[k].vec \in [1 .. w -> Int]
      /\ old \in Labels /\ old + 1 \in 1 .. NumMeans
  BY <1>1, PlacesFacts
<1>3. Clusterable(m_PointVector, means, w)
  <2>1. \A j \in 1 .. NumMeans : 1 .. w \subseteq DOMAIN means[j].sum
    BY <1>1 DEF CostInv, WidthInv
  <2>2. MeansOver(means, w)
    BY <1>1, <1>2, <2>1 DEF MeansOver, Locates
  <2> HIDE DEF means
  <2> QED
    BY <1>1, <1>2, <2>2 DEF Clusterable
<1>4. PICK b \in 1 .. NumMeans :
        NearestLabels(m_PointVector, means)[i] = b - 1 /\ NearestOf(vec, means, b)
  BY <1>1, <1>3, AssignedFacts
<1>5. new = b - 1 /\ new + 1 = b /\ new \in Int /\ old \in Int
  <2>1. new = NearestLabels(m_PointVector, means)[i]
    BY <1>1, AssignData
  <2> HIDE DEF new, means
  <2> QED
    BY <1>2, <1>4, <2>1 DEF Labels
<1>6. IsNumber(means[b]) /\ IsNumber(means[old + 1])
  <2>1. IsNumber(means[old + 1])
    BY DEF Located, MeanOf
  <2>2. b # 1 => IsNumber(means[b])
    BY <1>4 DEF NearestOf
  <2> QED
    BY <2>1, <2>2
<1>7. ASSUME NEW j \in 1 .. NumMeans, IsNumber(means[j])
      PROVE  /\ IsFiniteSet(DOMAIN vec) /\ Measurable(vec, means[j])
             /\ \E k \in Nat \ {0} : Scale = (means[j].n * means[j].n) * k
             /\ cost(j) \in Nat
  BY <1>1, <1>2, <1>7, TermFacts
<1> HIDE DEF old, new, vec, means
<1>8. PICK p \in Nat \ {0} : Scale = (means[b].n * means[b].n) * p
  BY <1>6, <1>7
<1>9. PICK q \in Nat \ {0} : Scale = (means[old + 1].n * means[old + 1].n) * q
  BY <1>2, <1>6, <1>7
<1>10. /\ ~Nearer(vec, means[old + 1], means[b]) => cost(b) <= cost(old + 1)
       /\ Nearer(vec, means[b], means[old + 1]) => cost(b) < cost(old + 1)
  BY <1>2, <1>6, <1>7, <1>8, <1>9, NearerIsCheaper
<1>11. cost(b) <= cost(old + 1) /\ (old + 1 > b \/ old + 1 = b \/ cost(b) < cost(old + 1))
  <2>1. ~Nearer(vec, means[old + 1], means[b])
    BY <1>1, <1>2, <1>4 DEF NearestOf
  <2>2. old + 1 < b => Nearer(vec, means[b], means[old + 1])
    BY <1>1, <1>2, <1>4, <1>6 DEF NearestOf
  <2> QED
    BY <1>2, <1>10, <2>1, <2>2
<1>12. cost(b) \in Int /\ cost(old + 1) \in Int
  BY <1>2, <1>6, <1>7
<1>13. /\ cost(b) < cost(old + 1) \/ (cost(b) = cost(old + 1) /\ new <= old)
       /\ new # old => cost(b) < cost(old + 1) \/ new < old
  <2> HIDE DEF cost
  <2> QED
    BY <1>5, <1>11, <1>12
<1> QED
  BY <1>5, <1>6, <1>12, <1>13, Zenon DEF old, new, vec, means

(* An assignment that changes anything lowers the cost, or keeps it and    *)
(* lowers the sum of the labels.                                           *)
LEMMA AssignmentDescends ==
  ASSUME NEW w \in 1 .. NumArgs, Vectors \subseteq [1 .. w -> Int], CostInv(w),
         mAssignAll, Located, IsNumber(m_CurrentMeans[1]), m_PointVector' # m_PointVector
  PROVE  Located' /\ (Cost' < Cost \/ (Cost' = Cost /\ LabelSum' < LabelSum))
<1> DEFINE S == DOMAIN m_PointVector
           f == CostTerms(m_PointVector, m_CurrentMeans)
           f1 == CostTerms(m_PointVector', m_CurrentMeans)
           g == LabelTerms(m_PointVector)
           g1 == LabelTerms(m_PointVector')
<1>1. /\ ShapeInv /\ m_CurrentMeans' = m_CurrentMeans /\ m_Initialised /\ m_Initialised'
      /\ IsFiniteSet(S)
  BY PlacesFacts DEF mAssignAll, CostInv
<1>2. /\ DOMAIN m_PointVector' = S
      /\ \A i \in S : /\ m_PointVector'[i].vec = m_PointVector[i].vec
                      /\ m_PointVector'[i].mean = m_PointVector[i].mean =>
                           m_PointVector'[i] = m_PointVector[i]
  BY <1>1, AssignData
<1>3. ASSUME NEW i \in S
      PROVE  /\ f[i] = Scaled(Scale, m_PointVector[i].vec, m_CurrentMeans[m_PointVector[i].mean + 1])
             /\ f1[i] = Scaled(Scale, m_PointVector[i].vec, m_CurrentMeans[m_PointVector'[i].mean + 1])
             /\ g[i] = m_PointVector[i].mean /\ g1[i] = m_PointVector'[i].mean
  BY <1>2 DEF CostTerms, LabelTerms
<1> HIDE DEF f, f1, g, g1
<1>4. ASSUME NEW i \in S
      PROVE  /\ IsNumber(m_CurrentMeans[m_PointVector'[i].mean + 1])
             /\ f[i] \in Int /\ f1[i] \in Int /\ g[i] \in Int /\ g1[i] \in Int
             /\ f1[i] < f[i] \/ (f1[i] = f[i] /\ g1[i] <= g[i])
             /\ m_PointVector'[i].mean # m_PointVector[i].mean => f1[i] < f[i] \/ g1[i] < g[i]
  BY <1>3, PointDescends
<1>5. Located'
  BY <1>1, <1>2, <1>4 DEF Located, MeanOf
<1>6. Descends(f, f1, g, g1, S)
  BY <1>4, Zenon DEF Descends
<1>7. \E i \in S : f1[i] < f[i] \/ g1[i] < g[i]
  <2>1. \E i \in S : m_PointVector'[i] # m_PointVector[i]
    <3>1. /\ m_PointVector = [i \in S |-> m_PointVector[i]]
          /\ m_PointVector' = [i \in S |-> m_PointVector'[i]]
      BY <1>1, <1>2, AssignData DEF ShapeInv, TypeOK
    <3> QED
      BY <3>1, Zenon
  <2> QED
    BY <1>2, <1>4, <2>1
<1>8. \/ SumOver(f1, S) < SumOver(f, S)
      \/ SumOver(f1, S) = SumOver(f, S) /\ SumOver(g1, S) < SumOver(g, S)
  BY <1>1, <1>6, <1>7, SumDescends, Zenon
<1>9. Cost = SumOver(f, S) /\ LabelSum = SumOver(g, S)
  BY CostIsSum, LabelSumIsSum DEF f, g
<1>10. Cost' = SumOver(f1, S) /\ LabelSum' = SumOver(g1, S)
  <2>1. (Cost = SumOver(CostTerms(m_PointVector, m_CurrentMeans), DOMAIN m_PointVector))'
    BY CostIsSum, PTL
  <2>2. (LabelSum = SumOver(LabelTerms(m_PointVector), DOMAIN m_PointVector))'
    BY LabelSumIsSum, PTL
  <2> QED
    BY <1>1, <1>2, <2>1, <2>2, Zenon DEF f1, g1
<1> QED
  BY <1>5, <1>8, <1>9, <1>10, Zenon


(* An update, group by group: a group with points keeps a mean that is a   *)
(* number, and its points do not become more expensive.                    *)
LEMMA GroupDescends ==
  ASSUME MaxPoints < UINT16, NEW w \in 1 .. NumArgs, Vectors \subseteq [1 .. w -> Int],
         CostInv(w), CostInv(w)', mUpdateMeans, Located, NEW label \in Labels,
         NEW G, G = Group(m_PointVector, label), G # {}
  PROVE  /\ IsNumber(m_CurrentMeans'[label + 1])
         /\ SumOver(CostTerms(m_PointVector, m_CurrentMeans'), G)
              <= SumOver(CostTerms(m_PointVector, m_CurrentMeans), G)
<1> DEFINE m == m_CurrentMeans[label + 1]
           c == m_CurrentMeans'[label + 1]
           f == CostTerms(m_PointVector, m_CurrentMeans)
           f1 == CostTerms(m_PointVector, m_CurrentMeans')
           vec(i) == m_PointVector[i].vec
           cost(e) == GroupCost(Scale, m_PointVector, e, G)
           costs(e) == [i \in G |-> Scaled(Scale, vec(i), e)]
<1>1. /\ ShapeInv /\ m_Initialised /\ w \in Nat /\ w \in 0 .. NumArgs
      /\ label + 1 \in DOMAIN m_CurrentMeans /\ label + 1 - 1 = label
      /\ m_PointVector' = m_PointVector /\ m_Initialised' = m_Initialised
      /\ DOMAIN m_CurrentMeans' = DOMAIN m_CurrentMeans
      /\ IsFiniteSet(DOMAIN m_PointVector) /\ G \subseteq DOMAIN m_PointVector
  <2>1. ShapeInv /\ m_Initialised
    BY DEF CostInv, Located
  <2>2. label + 1 \in 1 .. NumMeans /\ label + 1 - 1 = label
    BY DEF Labels
  <2> QED
    BY <2>1, <2>2, ShapeFacts, UpdateData, PlacesFacts DEF mUpdateMeans, Group
<1>2. /\ Locates(m, w)
      /\ \A i \in DOMAIN m_PointVector : vec(i) \in [1 .. w -> Int]
  BY <1>1, PlacesFacts
<1>3. Locates(c, w)
  <2>1. (\A j \in DOMAIN m_CurrentMeans : Locates(m_CurrentMeans[j], w))'
    BY PlacesFacts, PTL
  <2> QED
    BY <1>1, <2>1
<1>4. \A i \in G : /\ i \in DOMAIN m_PointVector /\ m_PointVector[i].mean = label
                   /\ f[i] = Scaled(Scale, vec(i), m)
                   /\ f1[i] = Scaled(Scale, vec(i), c)
  BY DEF CostTerms, Group
<1>5. IsNumber(m)
  BY <1>4 DEF Located, MeanOf
<1>6. IsFiniteSet(G) /\ Cardinality(G) < UINT16
  <2>1. /\ DOMAIN m_PointVector = 1 .. Len(m_PointVector)
        /\ Len(m_PointVector) \in Nat /\ Len(m_PointVector) <= MaxPoints
    BY <1>1, ShapeFacts DEF CostInv, LostInv
  <2>2. Cardinality(DOMAIN m_PointVector) = Len(m_PointVector)
    <3>1. \A n \in Nat : Cardinality(1 .. n) = n
      BY FS_Interval
    <3> QED
      BY <2>1, <3>1
  <2>3. IsFiniteSet(G) /\ Cardinality(G) <= Cardinality(DOMAIN m_PointVector) /\ Cardinality(G) \in Nat
    BY <1>1, FS_Subset, FS_CardinalityType
  <2> QED
    BY <2>1, <2>2, <2>3
<1>7. \A e : cost(e) = SumOver(costs(e), G)
  BY DEF GroupCost
<1> HIDE DEF m, c, f, f1, vec, costs
<1>8. ASSUME NEW e, Locates(e, w), IsNumber(e), NEW i \in G
      PROVE  Scaled(Scale, vec(i), e) \in Int
  BY <1>1, <1>2, <1>4, <1>8, TermFacts
<1>9. SumOver(f, G) = cost(m)
  <2>1. \A i \in G : f[i] \in Int /\ f[i] = costs(m)[i]
    BY <1>2, <1>4, <1>5, <1>8 DEF costs
  <2>2. SumOver(f, G) = SumOver(costs(m), G)
    BY <1>6, <2>1, SumSame
  <2> QED
    BY <1>7, <2>2, Zenon
<1>10. ASSUME IsNumber(c) PROVE SumOver(f1, G) = cost(c)
  <2>1. \A i \in G : f1[i] \in Int /\ f1[i] = costs(c)[i]
    BY <1>3, <1>4, <1>8, <1>10 DEF costs
  <2>2. SumOver(f1, G) = SumOver(costs(c), G)
    BY <1>6, <2>1, SumSame
  <2> QED
    BY <1>7, <2>2, Zenon
<1>11. CASE c = m
  <2>1. SumOver(f1, G) = SumOver(f, G) /\ SumOver(f, G) \in Int
    <3>1. \A i \in G : f1[i] \in Int /\ f1[i] = f[i]
      BY <1>2, <1>4, <1>5, <1>8, <1>11
    <3> QED
      BY <1>6, <3>1, SumSame
  <2> QED
    BY <1>5, <1>11, <2>1 DEF c, f, f1
<1>12. CASE c = Average(m_PointVector, label)
  <2>1. IsNumber(c) /\ c.n \in Nat /\ m.n \in Nat
    <3>1. Cardinality(G) \in Nat \ {0}
      BY <1>6, FS_CardinalityType, FS_EmptySet
    <3>2. Cardinality(G) % UINT16 = Cardinality(G)
      BY <1>6, <3>1, ModuloIsBelow
    <3>3. c.n = Cardinality(G) % UINT16
      BY <1>12 DEF Average
    <3> QED
      BY <1>2, <3>1, <3>2, <3>3 DEF IsNumber, Locates
  <2>2. PICK i \in G : TRUE
    OBVIOUS
  <2>3. vec(i) \in [1 .. w -> Int]
    BY <1>2, <1>4
  <2>4. PICK p \in Nat \ {0} : Scale = (c.n * c.n) * p
    BY <1>1, <1>3, <2>1, <2>3, TermFacts
  <2>5. PICK q \in Nat \ {0} : Scale = (m.n * m.n) * q
    BY <1>1, <1>2, <1>5, <2>3, TermFacts
  <2>6. /\ \A k \in G : m_PointVector[k].vec \in [1 .. w -> Int]
        /\ \A a \in 1 .. w : m.sum[a] \in Int
        /\ p \in Nat /\ q \in Nat /\ NumArgs \in Nat /\ UINT16 \in Nat
    BY <1>2, <1>4 DEF vec, Locates
  <2>7. cost(c) <= cost(m)
    <3>1. Averaged(m_PointVector, label, w, G, m, c, p, q, Scale)
      <4>1. w \in 0 .. NumArgs /\ G = Group(m_PointVector, label)
        BY <1>1
      <4>2. Scale = (c.n * c.n) * p /\ Scale = (m.n * m.n) * q
        BY <2>4, <2>5
      <4> QED
        BY <1>5, <1>6, <1>12, <2>1, <2>6, <4>1, <4>2, Zenon DEF Averaged
    <3> QED
      BY <2>6, <3>1, AverageIsCheapest, Zenon
  <2> QED
    BY <1>9, <1>10, <2>1, <2>7 DEF c, f, f1
<1>13. c = m \/ c = Average(m_PointVector, label)
  <2>1. \A j \in DOMAIN m_CurrentMeans :
          \/ m_CurrentMeans'[j] = m_CurrentMeans[j]
          \/ m_CurrentMeans'[j] = Average(m_PointVector, j - 1)
    BY <1>1, UpdateData
  <2>2. \/ m_CurrentMeans'[label + 1] = m_CurrentMeans[label + 1]
        \/ m_CurrentMeans'[label + 1] = Average(m_PointVector, (label + 1) - 1)
    BY <1>1, <2>1, Zenon
  <2>3. (label + 1) - 1 = label
    BY DEF Labels
  <2>4. \/ m_CurrentMeans'[label + 1] = m_CurrentMeans[label + 1]
        \/ m_CurrentMeans'[label + 1] = Average(m_PointVector, label)
    BY <2>2, <2>3, Zenon
  <2> QED
    BY <2>4, Zenon DEF c, m
<1> QED
  BY <1>11, <1>12, <1>13

(* An update never raises the cost.                                        *)
LEMMA UpdateDescends ==
  ASSUME MaxPoints < UINT16, NEW w \in 1 .. NumArgs, Vectors \subseteq [1 .. w -> Int],
         CostInv(w), CostInv(w)', mUpdateMeans, Located
  PROVE  Located' /\ Cost' <= Cost
<1> DEFINE S == DOMAIN m_PointVector
           f == CostTerms(m_PointVector, m_CurrentMeans)
           f1 == CostTerms(m_PointVector, m_CurrentMeans')
           group == [i \in S |-> m_PointVector[i].mean]
<1>1. /\ m_PointVector' = m_PointVector /\ m_Initialised' = m_Initialised
      /\ ShapeInv /\ m_Initialised /\ IsFiniteSet(S) /\ w \in Nat
      /\ DOMAIN m_CurrentMeans' = DOMAIN m_CurrentMeans
  BY UpdateData, PlacesFacts DEF mUpdateMeans, CostInv, Located
<1>2. /\ \A i \in S : /\ m_PointVector[i].mean \in Labels
                      /\ m_PointVector[i].vec \in [1 .. w -> Int]
                      /\ m_PointVector[i].mean + 1 \in DOMAIN m_CurrentMeans
      /\ \A j \in DOMAIN m_CurrentMeans : Locates(m_CurrentMeans[j], w)
  BY <1>1, PlacesFacts
<1>3. \A j \in DOMAIN m_CurrentMeans : Locates(m_CurrentMeans'[j], w)
  <2>1. (\A j \in DOMAIN m_CurrentMeans : Locates(m_CurrentMeans[j], w))'
    BY PlacesFacts, PTL
  <2> QED
    BY <1>1, <2>1
<1>4. \A i \in S : IsNumber(m_CurrentMeans[m_PointVector[i].mean + 1])
  BY DEF Located, MeanOf
<1>5. ASSUME NEW i \in S PROVE IsNumber(m_CurrentMeans'[m_PointVector[i].mean + 1])
  <2>1. i \in Group(m_PointVector, m_PointVector[i].mean) /\ m_PointVector[i].mean \in Labels
    BY <1>2 DEF Group
  <2> QED
    BY <2>1, GroupDescends
<1>6. Located'
  BY <1>1, <1>5 DEF Located, MeanOf
<1>7. ASSUME NEW i \in S PROVE f[i] \in Int /\ f1[i] \in Int
  <2>1. Scaled(Scale, m_PointVector[i].vec, m_CurrentMeans[m_PointVector[i].mean + 1]) \in Int
    BY <1>1, <1>2, <1>4, TermFacts
  <2>2. Scaled(Scale, m_PointVector[i].vec, m_CurrentMeans'[m_PointVector[i].mean + 1]) \in Int
    BY <1>1, <1>2, <1>3, <1>5, TermFacts
  <2> QED
    BY <2>1, <2>2 DEF CostTerms
<1>8. group \in [S -> Labels] /\ IsFiniteSet(Labels)
  <2>1. NumMeans - 1 \in Int
    OBVIOUS
  <2> QED
    BY <1>2, <2>1, FS_Interval DEF Labels
<1>9. ASSUME NEW l \in Labels
      PROVE  SumOver(f1, {i \in S : group[i] = l}) <= SumOver(f, {i \in S : group[i] = l})
  <2> DEFINE G == Group(m_PointVector, l)
  <2>1. {i \in S : group[i] = l} = G
    BY DEF Group
  <2>2. SumOver(f1, G) <= SumOver(f, G)
    <3> HIDE DEF G, f, f1
    <3>1. CASE G = {}
      <4>1. SumRules(f, {}, Int) /\ SumRules(f1, {}, Int)
        BY FS_EmptySet, SumsOfParts
      <4>2. SumOver(f, {}) = 0 /\ SumOver(f1, {}) = 0
        BY <4>1 DEF SumRules
      <4> QED
        BY <3>1, <4>2
    <3>2. CASE G # {}
      BY <3>2, GroupDescends, Zenon DEF G, f, f1
    <3> QED
      BY <3>1, <3>2
  <2> QED
    BY <2>1, <2>2, Zenon
<1> HIDE DEF f, f1, group
<1>10. SumOver(f1, S) <= SumOver(f, S)
  BY <1>1, <1>7, <1>8, <1>9, SumByGroups
<1>11. Cost = SumOver(f, S) /\ Cost' = SumOver(f1, S)
  <2>1. (Cost = SumOver(CostTerms(m_PointVector, m_CurrentMeans), DOMAIN m_PointVector))'
    BY CostIsSum, PTL
  <2> QED
    BY <1>1, <2>1, CostIsSum, Zenon DEF f, f1
<1> QED
  BY <1>6, <1>10, <1>11, Zenon

(* With one width and groups that fit, the steps above always start so.    *)
LEMMA CostInvStays ==
  ASSUME MaxPoints < UINT16, NEW w \in 1 .. NumArgs, Vectors \subseteq [1 .. w -> Int]
  PROVE  Spec => []CostInv(w)
<1>1. Init => CostInv(w)
  BY ShapeInit, LostInit DEF CostInv, Init, WidthInv, SizeInv
<1>2. CostInv(w) /\ [Next]_vars => CostInv(w)'
  BY ShapeStep, LostStep, WidthStep, SizeStep DEF CostInv
<1> QED
  BY <1>1, <1>2, PTL DEF Spec

(* Repeating mAssignAll and mUpdateMeans settles: for vectors of one width *)
(* and groups that a uint16_t counts, an assignment that changes anything  *)
(* lowers the cost, or keeps it and lowers the sum of the labels, unless   *)
(* the first mean is NaN, and the averages never raise the cost.           *)
THEOREM CostGoesDown == MaxPoints < UINT16 /\ OneWidth => (Spec => CostDescends)
<1> SUFFICES ASSUME MaxPoints < UINT16, NEW w \in 1 .. NumArgs, Vectors \subseteq [1 .. w -> Int]
             PROVE  Spec => CostDescends
  BY DEF OneWidth
<1>1. Spec => []CostInv(w)
  BY CostInvStays
<1>2. CostInv(w) /\ CostInv(w)' /\ [Next]_vars =>
        [/\ (mAssignAll /\ Located /\ IsNumber(m_CurrentMeans[1]) /\ m_PointVector' # m_PointVector) =>
              /\ Located'
              /\ Cost' < Cost \/ (Cost' = Cost /\ LabelSum' < LabelSum)
         /\ (mUpdateMeans /\ Located) => Located' /\ Cost' <= Cost]_vars
  BY AssignmentDescends, UpdateDescends
<1> QED
  BY <1>1, <1>2, PTL DEF Spec, CostDescends

=============================================================================

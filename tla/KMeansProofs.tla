---------------------------- MODULE KMeansProofs ----------------------------
(***************************************************************************)
(* Proofs about the threaded engine of KMeans.tla, for any number of       *)
(* submitters, means, coordinates and submissions and any modulus of the   *)
(* index.  SharedInv, the types with the mutex discipline, is inductive;   *)
(* WakeInv, SeenInv, IndexInv and NearestInv are each inductive relative   *)
(* to it or to TypeOK and give the wakeup, initialisation, index and       *)
(* assignment theorems; StopInv is inductive alone and gives the stop's;   *)
(* RefInv adds what the refinement rests on.                               *)
(***************************************************************************)
EXTENDS KMeans, ClusteringProofs

(* Who holds the mutex.  A worker that died of an exception still does.    *)
LockInv ==
  /\ m_MainMutex = Worker <=> InCriticalSection \/ worker = "terminated"
  /\ \A s \in Submitters : m_MainMutex = s <=> submitter[s] = "locked"

(* The means while mInitialise and mUpdateMeans are at work.               *)
MeansInv ==
  /\ Len(m_CurrentMeans) = IF m_Initialised THEN NumMeans
                           ELSE IF worker = "emplace" THEN mean - 1 ELSE 0
  /\ \A j \in DOMAIN m_CurrentMeans : m_CurrentMeans[j].label = j - 1
  /\ worker = "emplace" => ~m_Initialised /\ mean <= NumMeans /\ currentSize >= NumMeans
  /\ worker = "update" => m_Initialised /\ mean <= NumMeans

SharedInv == TypeOK /\ LockInv /\ SnapshotStable /\ MeansInv

(* The loop of mAssignAll keeps the number and the type of the points.     *)
LEMMA RelabelledIsSeq ==
  ASSUME NEW points \in Seq(Points), NEW labels \in [DOMAIN points -> Labels]
  PROVE  /\ Relabelled(points, labels) \in Seq(Points)
         /\ Len(Relabelled(points, labels)) = Len(points)
<1>1. DOMAIN points = 1 .. Len(points) /\ Len(points) \in Nat
  OBVIOUS
<1>2. ASSUME NEW i \in 1 .. Len(points) PROVE [points[i] EXCEPT !.mean = labels[i]] \in Points
  <2>1. points[i] \in Points /\ labels[i] \in Labels
    BY <1>1
  <2> QED
    BY <2>1 DEF Points
<1> QED
  BY <1>1, <1>2 DEF Relabelled

(* Overwriting one mean keeps the length of the vector of means.           *)
LEMMA ExceptInAny ==
  ASSUME NEW s, s \in Seq(Range(s)), NEW k \in 1 .. Len(s), NEW e
  PROVE  /\ [s EXCEPT ![k] = e] \in Seq(Range([s EXCEPT ![k] = e]))
         /\ Len([s EXCEPT ![k] = e]) = Len(s)
         /\ DOMAIN [s EXCEPT ![k] = e] = 1 .. Len(s)
         /\ \A j \in 1 .. Len(s) : [s EXCEPT ![k] = e][j] = IF j = k THEN e ELSE s[j]
<1> DEFINE S == Range(s) \cup {e}
           t == [s EXCEPT ![k] = e]
<1>1. s \in Seq(S) /\ e \in S
  OBVIOUS
<1>2. /\ t \in Seq(S)
      /\ Len(t) = Len(s)
      /\ \A j \in 1 .. Len(s) : t[j] = IF j = k THEN e ELSE s[j]
  BY <1>1, ExceptSeq
<1> HIDE DEF t, S
<1>3. t \in Seq(Range(t)) /\ DOMAIN t = 1 .. Len(t)
  BY <1>2, SeqOfRange
<1> USE DEF t
<1> QED
  BY <1>2, <1>3

USE ClusteringAssumption, KMeansAssumption

(* The constructor establishes the shared invariant.                       *)
LEMMA SharedInit == Init => SharedInv
<1> SUFFICES ASSUME Init PROVE SharedInv
  OBVIOUS
<1> USE DEF Init
<1>1. TypeOK
  <2>1. /\ m_PointVector \in Seq(Points)
        /\ m_CurrentMeans \in Seq(Range(m_CurrentMeans))
        /\ submitted \in Seq(Vectors)
        /\ DOMAIN m_CurrentMeans = {}
    BY EmptySeq
  <2>2. \A j \in DOMAIN m_CurrentMeans :
          m_CurrentMeans[j].label \in Labels /\ m_CurrentMeans[j].n \in 0 .. UINT16
    BY <2>1, Zenon
  <2>3. submitter \in [Submitters -> {"idle", "locked", "notify"}]
    OBVIOUS
  <2>4. /\ m_PointIndex \in 0 .. UINT16 - 1
        /\ oldNumberPointsInVector \in Nat /\ currentSize \in Nat /\ startSize \in Nat
        /\ mean \in 1 .. NumMeans + 1
    OBVIOUS
  <2> QED
    BY <2>1, <2>2, <2>3, <2>4, Zenon DEF TypeOK
<1>2. LockInv
  BY DEF LockInv, InCriticalSection
<1>3. SnapshotStable /\ MeansInv
  BY DEF SnapshotStable, MeansInv
<1> QED
  BY <1>1, <1>2, <1>3 DEF SharedInv

(* The shuffle of mInitialise changes only the order of the points.        *)
LEMMA ShuffleData ==
  ASSUME TypeOK, Shuffle
  PROVE  m_PointVector' \in Seq(Points) /\ Len(m_PointVector') = Len(m_PointVector)
<1>1. m_PointVector \in Seq(Points)
  BY DEF TypeOK
<1>2. PICK p \in Bijection(DOMAIN m_PointVector, DOMAIN m_PointVector) :
        m_PointVector' = [i \in DOMAIN m_PointVector |-> m_PointVector[p[i]]]
  BY DEF Shuffle
<1> QED
  BY <1>1, <1>2, ShuffledIsSeq

(* One turn of mInitialise adds the mean with the next label.              *)
LEMMA EmplaceData ==
  ASSUME TypeOK, MeansInv, EmplaceMean
  PROVE  /\ m_CurrentMeans' \in Seq(Range(m_CurrentMeans'))
         /\ Len(m_CurrentMeans') = mean
         /\ \A j \in DOMAIN m_CurrentMeans' :
              m_CurrentMeans'[j].label = j - 1 /\ m_CurrentMeans'[j].n \in 0 .. UINT16
<1> DEFINE e == MeanPoint(mean - 1, m_PointVector[mean].vec)
<1>1. /\ m_CurrentMeans \in Seq(Range(m_CurrentMeans))
      /\ mean \in 1 .. NumMeans + 1
      /\ \A j \in DOMAIN m_CurrentMeans : m_CurrentMeans[j].n \in 0 .. UINT16
  BY DEF TypeOK
<1>2. Len(m_CurrentMeans) = mean - 1
  BY DEF MeansInv, EmplaceMean
<1>3. \A j \in DOMAIN m_CurrentMeans : m_CurrentMeans[j].label = j - 1
  BY DEF MeansInv
<1>4. m_CurrentMeans' = Append(m_CurrentMeans, e)
  BY DEF EmplaceMean
<1>5. e.label = mean - 1 /\ e.n = 1
  BY DEF MeanPoint
<1> HIDE DEF e
<1>6. /\ m_CurrentMeans' \in Seq(Range(m_CurrentMeans'))
      /\ Len(m_CurrentMeans') = mean
      /\ DOMAIN m_CurrentMeans' = 1 .. mean
      /\ \A j \in 1 .. mean - 1 : m_CurrentMeans'[j] = m_CurrentMeans[j]
      /\ m_CurrentMeans'[mean] = e
  BY <1>1, <1>2, <1>4, AppendToAny
<1>7. DOMAIN m_CurrentMeans = 1 .. mean - 1
  BY <1>1, <1>2, SeqFacts
<1>8. ASSUME NEW j \in 1 .. mean
      PROVE  m_CurrentMeans'[j].label = j - 1 /\ m_CurrentMeans'[j].n \in 0 .. UINT16
  <2>1. CASE j = mean
    BY <1>5, <1>6, <2>1
  <2>2. CASE j # mean
    <3>1. j \in 1 .. mean - 1 /\ j \in DOMAIN m_CurrentMeans
      BY <1>1, <1>7, <2>2
    <3> QED
      BY <1>1, <1>3, <1>6, <3>1
  <2> QED
    BY <2>1, <2>2
<1> QED
  BY <1>6, <1>8

(* The number of a group's members is a natural number.                    *)
LEMMA GroupSize ==
  ASSUME NEW points \in Seq(Points), NEW label
  PROVE  Cardinality(Group(points, label)) \in Nat
<1>1. IsFiniteSet(DOMAIN points)
  BY SeqFacts, FS_Interval
<1>2. Group(points, label) \in SUBSET DOMAIN points
  BY DEF Group
<1> QED
  BY <1>1, <1>2, FS_Subset, FS_CardinalityType

(* One turn of mUpdateMeans replaces a mean and keeps all labels.          *)
LEMMA UpdateData ==
  ASSUME TypeOK, MeansInv, UpdateMean
  PROVE  /\ mean \in 1 .. NumMeans
         /\ Len(m_CurrentMeans) = NumMeans
         /\ m_CurrentMeans' \in Seq(Range(m_CurrentMeans'))
         /\ Len(m_CurrentMeans') = NumMeans
         /\ \A j \in DOMAIN m_CurrentMeans' :
              m_CurrentMeans'[j].label = j - 1 /\ m_CurrentMeans'[j].n \in 0 .. UINT16
<1> DEFINE e == Average(m_PointVector, m_CurrentMeans[mean].label)
<1>1. /\ m_PointVector \in Seq(Points)
      /\ m_CurrentMeans \in Seq(Range(m_CurrentMeans))
      /\ mean \in 1 .. NumMeans + 1
      /\ \A j \in DOMAIN m_CurrentMeans : m_CurrentMeans[j].n \in 0 .. UINT16
  BY DEF TypeOK
<1>2. Len(m_CurrentMeans) = NumMeans /\ mean <= NumMeans
  BY DEF MeansInv, UpdateMean
<1>3. \A j \in DOMAIN m_CurrentMeans : m_CurrentMeans[j].label = j - 1
  BY DEF MeansInv
<1>4. m_CurrentMeans' = [m_CurrentMeans EXCEPT ![mean] = e]
  BY DEF UpdateMean
<1>5. e.label = m_CurrentMeans[mean].label /\ e.n \in 0 .. UINT16
  <2>1. Cardinality(Group(m_PointVector, m_CurrentMeans[mean].label)) % UINT16 \in 0 .. UINT16 - 1
    BY <1>1, GroupSize, ModuloIsBelow
  <2> QED
    BY <2>1 DEF Average
<1> HIDE DEF e
<1>6. mean \in 1 .. Len(m_CurrentMeans) /\ DOMAIN m_CurrentMeans = 1 .. NumMeans
  BY <1>1, <1>2, SeqFacts
<1>7. /\ m_CurrentMeans' \in Seq(Range(m_CurrentMeans'))
      /\ Len(m_CurrentMeans') = NumMeans
      /\ DOMAIN m_CurrentMeans' = 1 .. NumMeans
      /\ \A j \in 1 .. NumMeans :
           m_CurrentMeans'[j] = IF j = mean THEN e ELSE m_CurrentMeans[j]
  BY <1>1, <1>2, <1>4, <1>6, ExceptInAny
<1>8. ASSUME NEW j \in 1 .. NumMeans
      PROVE  m_CurrentMeans'[j].label = j - 1 /\ m_CurrentMeans'[j].n \in 0 .. UINT16
  <2>1. CASE j = mean
    BY <1>3, <1>5, <1>6, <1>7, <2>1
  <2>2. CASE j # mean
    BY <1>1, <1>3, <1>6, <1>7, <2>2
  <2> QED
    BY <2>1, <2>2
<1> QED
  BY <1>2, <1>6, <1>7, <1>8

(* mSubmit leaves a typed vector, one point longer.                        *)
LEMMA StoreData ==
  ASSUME TypeOK, NEW s \in Submitters, NEW vec \in Vectors, SubmitStore(s, vec)
  PROVE  /\ m_PointIndex' \in 0 .. UINT16 - 1
         /\ m_PointVector' \in Seq(Points)
         /\ submitted' \in Seq(Vectors)
<1>1. m_PointVector \in Seq(Points) /\ submitted \in Seq(Vectors) /\ m_PointIndex \in 0 .. UINT16 - 1
  BY DEF TypeOK
<1>2. m_PointIndex' \in 0 .. UINT16 - 1
  BY <1>1, ModuloIsBelow DEF SubmitStore
<1>3. DataPoint(vec, m_PointIndex) \in Points
  BY <1>1 DEF DataPoint, Points, Labels
<1> QED
  BY <1>1, <1>2, <1>3 DEF SubmitStore

(* mAssignAll gives every point the label of a mean.                       *)
LEMMA AssignData ==
  ASSUME SharedInv, mAssignAll
  PROVE  \E labels \in [DOMAIN m_PointVector -> Labels] :
           m_PointVector' = Relabelled(m_PointVector, labels)
<1>1. /\ m_PointVector \in Seq(Points) /\ m_CurrentMeans \in Seq(Range(m_CurrentMeans))
      /\ Len(m_CurrentMeans) = NumMeans /\ NumMeans \in Nat \ {0}
      /\ \A j \in DOMAIN m_CurrentMeans : m_CurrentMeans[j].label = j - 1
  BY DEF SharedInv, TypeOK, MeansInv, mAssignAll
<1>2. /\ DOMAIN m_CurrentMeans = 1 .. NumMeans /\ DOMAIN m_PointVector = 1 .. Len(m_PointVector)
      /\ \A i \in 1 .. Len(m_PointVector) : m_PointVector[i] \in Points
  BY <1>1, SeqFacts
<1>3. \A i \in DOMAIN m_PointVector : m_PointVector[i].mean \in Labels
  BY <1>2 DEF Points
<1>4. NearestLabels(m_PointVector, m_CurrentMeans) \in [DOMAIN m_PointVector -> Labels]
  BY <1>1, <1>2, <1>3, LabelsInRange
<1> QED
  BY <1>4, Zenon DEF mAssignAll

(* Every step of every thread preserves the shared invariant.              *)
LEMMA SharedStep == SharedInv /\ [Next]_vars => SharedInv'
<1> SUFFICES ASSUME SharedInv, [Next]_vars PROVE SharedInv'
  OBVIOUS
<1> USE DEF SharedInv, TypeOK, LockInv, SnapshotStable, MeansInv, InCriticalSection, engine, locals, others, Points, Labels
<1>1. CASE WorkerStart
  BY <1>1 DEF WorkerStart, Notified, SizeReads
<1>2. CASE WorkerLoop
  BY <1>2 DEF WorkerLoop, Notified, SizeReads
<1>3. CASE WorkerLock
  BY <1>3 DEF WorkerLock, Notified, SizeReads
<1>4. CASE WorkerWait
  BY <1>4 DEF WorkerWait, Notified, SizeReads
<1>5. CASE WorkerReadSize
  BY <1>5 DEF WorkerReadSize, Notified, SizeReads
<1>6. CASE Shuffle
  <2>1. m_PointVector' \in Seq(Points) /\ Len(m_PointVector') = Len(m_PointVector)
    BY <1>6, ShuffleData
  <2>2. /\ worker = "examine" /\ worker' = "emplace" /\ mean' = 1
        /\ ~m_Initialised /\ currentSize >= NumMeans
        /\ UNCHANGED <<m_PointIndex, m_CurrentMeans, m_Initialised, m_NewSubmissionReady,
                       m_StopThread, m_MainMutex, oldNumberPointsInVector, currentSize,
                       startSize, others>>
    BY <1>6 DEF Shuffle
  <2> QED
    BY <2>1, <2>2
<1>7. CASE EmplaceMean
  <2>1. /\ m_CurrentMeans' \in Seq(Range(m_CurrentMeans'))
        /\ Len(m_CurrentMeans') = mean
        /\ \A j \in DOMAIN m_CurrentMeans' :
             m_CurrentMeans'[j].label = j - 1 /\ m_CurrentMeans'[j].n \in 0 .. UINT16
    BY <1>7, EmplaceData
  <2>2. /\ worker = "emplace" /\ mean <= NumMeans /\ mean' = mean + 1
        /\ m_Initialised' = (mean = NumMeans)
        /\ worker' = IF mean = NumMeans THEN "tail" ELSE "emplace"
        /\ UNCHANGED <<m_PointVector, m_PointIndex, m_NewSubmissionReady, m_StopThread,
                       m_MainMutex, oldNumberPointsInVector, currentSize, startSize, others>>
    BY <1>7 DEF EmplaceMean
  <2>3. DOMAIN m_CurrentMeans' = 1 .. mean
    BY <2>1, SeqFacts
  <2>4. \A j \in DOMAIN m_CurrentMeans' : m_CurrentMeans'[j].label \in Labels
    BY <2>1, <2>2, <2>3
  <2>5. TypeOK'
    BY <2>1, <2>2, <2>4
  <2>6. MeansInv'
    <3>1. CASE mean = NumMeans
      BY <2>1, <2>2, <3>1
    <3>2. CASE mean # NumMeans
      <4>1. ~m_Initialised' /\ worker' = "emplace"
        BY <2>2, <3>2
      <4>2. mean' <= NumMeans /\ Len(m_CurrentMeans') = mean' - 1 /\ currentSize' >= NumMeans
        BY <2>1, <2>2, <3>2
      <4> QED
        BY <2>1, <4>1, <4>2
    <3> QED
      BY <3>1, <3>2
  <2>7. LockInv' /\ SnapshotStable'
    BY <2>2
  <2> QED
    BY <2>5, <2>6, <2>7
<1>8. CASE mAssignAll
  <2>1. m_PointVector' \in Seq(Points) /\ Len(m_PointVector') = Len(m_PointVector)
    <3>1. PICK labels \in [DOMAIN m_PointVector -> Labels] :
            m_PointVector' = Relabelled(m_PointVector, labels)
      BY <1>8, AssignData
    <3> QED
      BY <3>1, RelabelledIsSeq
  <2> QED
    BY <1>8, <2>1 DEF mAssignAll
<1>9. CASE UpdateMean
  BY <1>9, UpdateData DEF UpdateMean
<1>10. CASE UpdateThrows
  BY <1>10 DEF UpdateThrows, Notified, SizeReads
<1>11. CASE NothingToDo
  BY <1>11 DEF NothingToDo, Notified, SizeReads
<1>12. CASE WorkerTail
  BY <1>12 DEF WorkerTail, Notified, SizeReads
<1>13. CASE SpuriousWakeup
  BY <1>13 DEF SpuriousWakeup, Notified, SizeReads
<1>14. ASSUME NEW s \in Submitters, SubmitLock(s) PROVE SharedInv'
  BY <1>14 DEF SubmitLock, Notified
<1>15. ASSUME NEW s \in Submitters, NEW vec \in Vectors, SubmitStore(s, vec) PROVE SharedInv'
  BY <1>15, StoreData DEF SubmitStore
<1>16. ASSUME NEW s \in Submitters, SubmitNotify(s) PROVE SharedInv'
  BY <1>16 DEF SubmitNotify, Notified
<1>17. CASE StopUnderMutex
  BY <1>17 DEF StopUnderMutex, Notified, SizeReads
<1>18. CASE Join
  BY <1>18 DEF Join, Notified, SizeReads
<1>19. CASE UNCHANGED vars
  BY <1>19 DEF vars
<1> QED
  BY <1>1, <1>2, <1>3, <1>4, <1>5, <1>6, <1>7, <1>8, <1>9, <1>10, <1>11, <1>12, <1>13, <1>14, <1>15, <1>16, <1>17, <1>18, <1>19 DEF Next, WorkerStep, SubmitStep

(* The invariant the other proofs build on: types, who holds the mutex,    *)
(* the stable snapshot and the number and labels of the means.             *)
THEOREM Shared == Spec => []SharedInv
<1>1. Init => SharedInv
  BY SharedInit
<1>2. SharedInv /\ [Next]_vars => SharedInv'
  BY SharedStep
<1> QED
  BY <1>1, <1>2, PTL DEF Spec

(* Every reachable state of the engine, of its worker and of its callers   *)
(* is well typed.                                                          *)
THEOREM TypeCorrect == Spec => []TypeOK
<1>1. SharedInv => TypeOK
  BY DEF SharedInv
<1> QED
  BY <1>1, Shared, PTL

(* No submission changes the vector of points while the worker, holding    *)
(* the mutex, works with the size it read at KMeans.hpp:102.               *)
THEOREM SnapshotIsStable == Spec => []SnapshotStable
<1>1. SharedInv => SnapshotStable
  BY DEF SharedInv
<1> QED
  BY <1>1, Shared, PTL

(* Whenever the worker does not hold the mutex, the vector of means is     *)
(* empty or complete: mInitialise and mUpdateMeans are never seen halfway  *)
(* by a thread that takes it.                                              *)
THEOREM MeansAreComplete == Spec => []MeansComplete
<1>1. SharedInv => MeansComplete
  BY DEF SharedInv, TypeOK, LockInv, MeansInv, MeansComplete, InCriticalSection
<1> QED
  BY <1>1, Shared, PTL

-----------------------------------------------------------------------------
(* Wakeups.  Nobody resets the flag but the worker, under the mutex, after *)
(* it has seen every point; while a submitter is inside the mutex the flag *)
(* is about to be set.                                                     *)

WakeInv ==
  /\ NoLostWakeup
  /\ /\ ~m_NewSubmissionReady
     /\ worker \in {"loop", "lock", "check", "waiting"}
     /\ m_MainMutex \notin Submitters
     => Len(m_PointVector) = oldNumberPointsInVector

(* Every step preserves what the wakeup theorems rest on.                  *)
LEMMA WakeStep == SharedInv /\ WakeInv /\ [Next]_vars => WakeInv'
<1> SUFFICES ASSUME TypeOK, LockInv, SnapshotStable, WakeInv, [Next]_vars
             PROVE  WakeInv'
  BY DEF SharedInv
<1> USE DEF WakeInv, NoLostWakeup, engine, locals, others
<1>1. CASE WorkerStart
  BY <1>1 DEF WorkerStart, SizeReads
<1>2. CASE WorkerLoop
  BY <1>2 DEF WorkerLoop
<1>3. CASE WorkerLock
  BY <1>3 DEF WorkerLock
<1>4. CASE WorkerWait
  BY <1>4 DEF WorkerWait, LockInv, InCriticalSection
<1>5. CASE WorkerReadSize
  BY <1>5 DEF WorkerReadSize
<1>6. CASE Shuffle
  BY <1>6 DEF Shuffle
<1>7. CASE EmplaceMean
  BY <1>7 DEF EmplaceMean
<1>8. CASE mAssignAll
  BY <1>8 DEF mAssignAll
<1>9. CASE UpdateMean
  BY <1>9 DEF UpdateMean
<1>10. CASE UpdateThrows
  BY <1>10 DEF UpdateThrows
<1>11. CASE NothingToDo
  BY <1>11 DEF NothingToDo
<1>12. CASE WorkerTail
  BY <1>12 DEF WorkerTail, SnapshotStable
<1>13. CASE SpuriousWakeup
  BY <1>13 DEF SpuriousWakeup
<1>14. ASSUME NEW s \in Submitters, SubmitLock(s) PROVE WakeInv'
  BY <1>14 DEF SubmitLock, TypeOK
<1>15. ASSUME NEW s \in Submitters, NEW vec \in Vectors, SubmitStore(s, vec) PROVE WakeInv'
  BY <1>15 DEF SubmitStore, TypeOK
<1>16. ASSUME NEW s \in Submitters, SubmitNotify(s) PROVE WakeInv'
  BY <1>16 DEF SubmitNotify, Notified, TypeOK
<1>17. CASE StopUnderMutex
  BY <1>17 DEF StopUnderMutex, Notified
<1>18. CASE Join
  BY <1>18 DEF Join
<1>19. CASE UNCHANGED vars
  BY <1>19 DEF vars
<1> QED
  BY <1>1, <1>2, <1>3, <1>4, <1>5, <1>6, <1>7, <1>8, <1>9, <1>10, <1>11, <1>12, <1>13,
     <1>14, <1>15, <1>16, <1>17, <1>18, <1>19 DEF Next, WorkerStep, SubmitStep

(* WakeInv holds in every reachable state.                                 *)
LEMMA Wake == Spec => []WakeInv
<1>1. Init => WakeInv
  BY DEF Init, WakeInv, NoLostWakeup
<1>2. SharedInv /\ WakeInv /\ [Next]_vars => WakeInv'
  BY WakeStep
<1> QED
  BY <1>1, <1>2, Shared, PTL DEF Spec

(* mSubmit notifies after it has released the mutex, and still no wakeup   *)
(* is lost: a worker that waits although the flag is set has a notify_all  *)
(* coming.                                                                 *)
THEOREM WakeupsAreNotLost == Spec => []NoLostWakeup
<1>1. WakeInv => NoLostWakeup
  BY DEF WakeInv
<1> QED
  BY <1>1, Wake, PTL

(* A worker that waits with the flag reset has dealt with every point that *)
(* was submitted, for any number of submitters and submissions.            *)
THEOREM NothingUnseen == Spec => []NothingUnseenAtRest
<1>1. WakeInv => NothingUnseenAtRest
  BY DEF WakeInv, NothingUnseenAtRest
<1> QED
  BY <1>1, Wake, PTL

-----------------------------------------------------------------------------
(* The stop.                                                               *)

(* Once it has set both flags, the worker leaves in the round that finds   *)
(* them instead of resetting the one it waits for.                         *)
StopInv == m_StopThread => m_NewSubmissionReady /\ worker # "waiting"

(* Only a step that is under way when the stop comes could make the worker *)
(* wait, and none does.                                                    *)
LEMMA StopStep == StopInv /\ [Next]_vars => StopInv'
<1> SUFFICES ASSUME StopInv, [Next]_vars
             PROVE  StopInv'
  OBVIOUS
<1> USE DEF StopInv, engine, locals, others
<1>1. CASE WorkerStart
  BY <1>1 DEF WorkerStart
<1>2. CASE WorkerLoop
  BY <1>2 DEF WorkerLoop
<1>3. CASE WorkerLock
  BY <1>3 DEF WorkerLock
<1>4. CASE WorkerWait
  BY <1>4 DEF WorkerWait
<1>5. CASE WorkerReadSize
  BY <1>5 DEF WorkerReadSize
<1>6. CASE Shuffle
  BY <1>6 DEF Shuffle
<1>7. CASE EmplaceMean
  BY <1>7 DEF EmplaceMean
<1>8. CASE mAssignAll
  BY <1>8 DEF mAssignAll
<1>9. CASE UpdateMean
  BY <1>9 DEF UpdateMean
<1>10. CASE UpdateThrows
  BY <1>10 DEF UpdateThrows
<1>11. CASE NothingToDo
  BY <1>11 DEF NothingToDo
<1>12. CASE WorkerTail
  BY <1>12 DEF WorkerTail
<1>13. CASE SpuriousWakeup
  BY <1>13 DEF SpuriousWakeup
<1>14. ASSUME NEW s \in Submitters, SubmitLock(s) PROVE StopInv'
  BY <1>14 DEF SubmitLock
<1>15. ASSUME NEW s \in Submitters, NEW vec \in Vectors, SubmitStore(s, vec) PROVE StopInv'
  BY <1>15 DEF SubmitStore
<1>16. ASSUME NEW s \in Submitters, SubmitNotify(s) PROVE StopInv'
  BY <1>16 DEF SubmitNotify, Notified
<1>17. CASE StopUnderMutex
  BY <1>17 DEF StopUnderMutex, Notified
<1>18. CASE Join
  BY <1>18 DEF Join
<1>19. CASE UNCHANGED vars
  BY <1>19 DEF vars
<1> QED
  BY <1>1, <1>2, <1>3, <1>4, <1>5, <1>6, <1>7, <1>8, <1>9, <1>10, <1>11, <1>12, <1>13,
     <1>14, <1>15, <1>16, <1>17, <1>18, <1>19 DEF Next, WorkerStep, SubmitStep

(* The stop finds the worker wherever it is: a stopped worker waits for no *)
(* notification, and for the mutex only while a submitter inside mSubmit   *)
(* holds it, so that join() waits for steps that can always be taken.      *)
THEOREM StopsAreHeard == Spec => []StopIsHeard
<1>1. Init => StopInv
  BY DEF Init, StopInv
<1>2. StopInv /\ [Next]_vars => StopInv'
  BY StopStep
<1>3. SharedInv /\ StopInv => StopIsHeard
  BY DEF SharedInv, TypeOK, LockInv, InCriticalSection, StopInv, StopIsHeard
<1> QED
  BY <1>1, <1>2, <1>3, Shared, PTL DEF Spec

-----------------------------------------------------------------------------
(* Initialisation.  The worker can only skip it when the number of points  *)
(* it compares with is the number it read when it started.                 *)

SeenInv ==
  /\ ~m_Initialised /\ oldNumberPointsInVector >= NumMeans => oldNumberPointsInVector = startSize
  /\ worker = "tail" /\ currentSize >= NumMeans =>
       m_Initialised \/ currentSize = oldNumberPointsInVector

(* Every step preserves what the initialisation theorem rests on.          *)
LEMMA SeenStep == SharedInv /\ SeenInv /\ [Next]_vars => SeenInv'
<1> SUFFICES ASSUME TypeOK, MeansInv, SeenInv, [Next]_vars PROVE SeenInv'
  BY DEF SharedInv
<1> USE DEF SeenInv, engine, locals, others
<1>1. CASE WorkerStart
  BY <1>1 DEF WorkerStart
<1>2. CASE EmplaceMean
  <2>1. CASE mean = NumMeans
    BY <1>2, <2>1 DEF EmplaceMean
  <2>2. CASE mean # NumMeans
    BY <1>2, <2>2 DEF EmplaceMean, MeansInv
  <2> QED
    BY <2>1, <2>2
<1>3. CASE NothingToDo
  BY <1>3 DEF NothingToDo, NewPoints, TypeOK
<1>4. CASE WorkerTail
  BY <1>4 DEF WorkerTail
<1>5. CASE Shuffle
  BY <1>5 DEF Shuffle
<1>6. CASE mAssignAll
  BY <1>6 DEF mAssignAll
<1>7. CASE UpdateMean
  BY <1>7 DEF UpdateMean, MeansInv
<1>8. CASE WorkerLoop \/ WorkerLock \/ WorkerWait \/ WorkerReadSize \/ UpdateThrows \/ SpuriousWakeup
  BY <1>8 DEF WorkerLoop, WorkerLock, WorkerWait, WorkerReadSize, UpdateThrows, SpuriousWakeup
<1>9. ASSUME NEW s \in Submitters, SubmitLock(s) \/ SubmitStep(s) PROVE SeenInv'
  BY <1>9 DEF SubmitLock, SubmitStep, SubmitStore, SubmitNotify, Notified
<1>10. CASE StopUnderMutex \/ Join
  BY <1>10 DEF StopUnderMutex, Join, Notified
<1>11. CASE UNCHANGED vars
  BY <1>11 DEF vars
<1> QED
  BY <1>1, <1>2, <1>3, <1>4, <1>5, <1>6, <1>7, <1>8, <1>9, <1>10, <1>11
     DEF Next, WorkerStep

(* When the worker has dealt with NumMeans points or more, the engine is   *)
(* initialised, except when their number is what it read, without the      *)
(* mutex, when it started.                                                 *)
THEOREM SeenEnough == Spec => []SeenEnoughInitialised
<1>1. Init => SeenInv
  BY DEF Init, SeenInv
<1>2. SharedInv /\ SeenInv /\ [Next]_vars => SeenInv'
  BY SeenStep
<1>3. SeenInv => SeenEnoughInitialised
  BY DEF SeenInv, SeenEnoughInitialised
<1> QED
  BY <1>1, <1>2, <1>3, Shared, PTL DEF Spec

-----------------------------------------------------------------------------
(* No exception reaches the end of the worker thread.                      *)

(* No step leads to the exception that ends the worker.                    *)
LEMMA AbortStep == TypeOK /\ NoAbort /\ [Next]_vars => NoAbort'
<1> SUFFICES ASSUME TypeOK, NoAbort, [Next]_vars, WideVectors, worker' = "terminated"
             PROVE  FALSE
  BY DEF NoAbort
<1>1. worker # "terminated"
  BY DEF NoAbort
<1>2. UpdateThrows
  BY <1>1 DEF Next, WorkerStep, SubmitStep, vars, WorkerStart, WorkerLoop, WorkerLock,
     WorkerWait, WorkerReadSize, Shuffle, EmplaceMean, mAssignAll, UpdateMean, NothingToDo,
     WorkerTail, SpuriousWakeup, SubmitLock, SubmitStore, SubmitNotify, StopUnderMutex, Join,
     Notified
<1>3. \A i \in DOMAIN m_PointVector : m_PointVector[i].vec \in Vectors
  <2>1. m_PointVector \in Seq(Points)
    BY DEF TypeOK
  <2>2. \A i \in DOMAIN m_PointVector : m_PointVector[i] \in Points
    BY <2>1, SeqFacts
  <2> QED
    BY <2>2 DEF Points
<1>4. Averageable(m_PointVector, m_CurrentMeans[mean].label)
  BY <1>3 DEF Averageable, Group, WideVectors
<1> QED
  BY <1>2, <1>4 DEF UpdateThrows

(* If every vector has at least m_NumArgs coordinates, mUpdateMeans never  *)
(* throws, and the worker never brings the process down.                   *)
THEOREM NeverAborts == Spec => []NoAbort
<1>1. Init => NoAbort
  BY DEF Init, NoAbort
<1>2. TypeOK /\ NoAbort /\ [Next]_vars => NoAbort'
  BY AbortStep
<1> QED
  BY <1>1, <1>2, TypeCorrect, PTL DEF Spec

-----------------------------------------------------------------------------
(* Indices.  Identified relates the points, in any order, to the history   *)
(* of submissions; each operation on the points preserves it.              *)

Identified(points, history) ==
  /\ \A k \in 1 .. Len(history) : \E i \in 1 .. Len(points) : points[i].index = k - 1
  /\ \A i \in 1 .. Len(points) :
       /\ points[i].index \in 0 .. Len(history) - 1
       /\ points[i].vec = history[points[i].index + 1]
  /\ \A i, j \in 1 .. Len(points) : points[i].index = points[j].index => i = j

IndexInv ==
  /\ Len(m_PointVector) = Len(submitted)
  /\ Len(submitted) < UINT16 => m_PointIndex = Len(submitted)
  /\ Len(submitted) <= UINT16 => Identified(m_PointVector, submitted)

(* After a shuffle each index still names its submission.                  *)
LEMMA ShuffleKeepsIdentified ==
  ASSUME NEW points \in Seq(Points), NEW history \in Seq(Vectors), Identified(points, history),
         NEW p \in Bijection(DOMAIN points, DOMAIN points)
  PROVE  Identified([i \in DOMAIN points |-> points[p[i]]], history)
<1> DEFINE shuffled == [i \in DOMAIN points |-> points[p[i]]]
<1>1. DOMAIN points = 1 .. Len(points) /\ Len(points) \in Nat
  BY SeqFacts
<1>2. /\ \A i \in 1 .. Len(points) : p[i] \in 1 .. Len(points)
      /\ \A i, j \in 1 .. Len(points) : p[i] = p[j] => i = j
      /\ \A j \in 1 .. Len(points) : \E i \in 1 .. Len(points) : p[i] = j
  BY <1>1 DEF Bijection, Injection, Surjection, IsInjective
<1>3. Len(shuffled) = Len(points) /\ \A i \in 1 .. Len(points) : shuffled[i] = points[p[i]]
  BY <1>1, ShuffledIsSeq
<1> HIDE DEF shuffled
<1>4. ASSUME NEW k \in 1 .. Len(history)
      PROVE  \E i \in 1 .. Len(points) : shuffled[i].index = k - 1
  <2>1. PICK j \in 1 .. Len(points) : points[j].index = k - 1
    BY DEF Identified
  <2>2. PICK i \in 1 .. Len(points) : p[i] = j
    BY <1>2
  <2> QED
    BY <1>3, <2>1, <2>2
<1>5. ASSUME NEW i \in 1 .. Len(points)
      PROVE  /\ shuffled[i].index \in 0 .. Len(history) - 1
             /\ shuffled[i].vec = history[shuffled[i].index + 1]
  <2>1. p[i] \in 1 .. Len(points)
    BY <1>2
  <2>2. shuffled[i] = points[p[i]]
    BY <1>3
  <2> QED
    BY <2>1, <2>2 DEF Identified
<1>6. ASSUME NEW i \in 1 .. Len(points), NEW j \in 1 .. Len(points),
             shuffled[i].index = shuffled[j].index
      PROVE  i = j
  <2>1. p[i] \in 1 .. Len(points) /\ p[j] \in 1 .. Len(points)
    BY <1>2
  <2>2. shuffled[i] = points[p[i]] /\ shuffled[j] = points[p[j]]
    BY <1>3
  <2>3. p[i] = p[j]
    BY <1>6, <2>1, <2>2 DEF Identified
  <2> QED
    BY <1>2, <2>3
<1>7. Identified(shuffled, history)
  BY <1>3, <1>4, <1>5, <1>6 DEF Identified
<1> QED
  BY <1>7 DEF shuffled

(* After an assignment each index still names its submission.              *)
LEMMA RelabellingKeepsIdentified ==
  ASSUME NEW points \in Seq(Points), NEW history \in Seq(Vectors), Identified(points, history),
         NEW labels \in [DOMAIN points -> Labels]
  PROVE  Identified(Relabelled(points, labels), history)
<1> DEFINE new == Relabelled(points, labels)
<1>1. DOMAIN points = 1 .. Len(points) /\ Len(new) = Len(points)
  BY SeqFacts, RelabelledIsSeq
<1>2. ASSUME NEW i \in 1 .. Len(points)
      PROVE  new[i].index = points[i].index /\ new[i].vec = points[i].vec
  <2>1. points[i] \in Points
    BY SeqFacts
  <2>2. new[i] = [points[i] EXCEPT !.mean = labels[i]]
    BY <1>1 DEF Relabelled
  <2> QED
    BY <2>1, <2>2 DEF Points
<1> HIDE DEF new
<1>3. Identified(new, history)
  BY <1>1, <1>2 DEF Identified
<1> QED
  BY <1>3 DEF new

(* A new point takes the next index and disturbs no earlier one.           *)
LEMMA StoringKeepsIdentified ==
  ASSUME NEW points \in Seq(Points), NEW history \in Seq(Vectors), Identified(points, history),
         Len(points) = Len(history), NEW vec \in Vectors
  PROVE  Identified(Append(points, DataPoint(vec, Len(history))), Append(history, vec))
<1> DEFINE q == DataPoint(vec, Len(history))
           newPoints == Append(points, q)
           newHistory == Append(history, vec)
           n == Len(history)
<1>1. q.vec = vec /\ q.index = n
  BY DEF DataPoint
<1>2. /\ n \in Nat
      /\ Len(newPoints) = n + 1 /\ Len(newHistory) = n + 1
      /\ \A i \in 1 .. n : newPoints[i] = points[i] /\ newHistory[i] = history[i]
      /\ newPoints[n + 1] = q /\ newHistory[n + 1] = vec
  OBVIOUS
<1> HIDE DEF q, newPoints, newHistory
<1>3. ASSUME NEW k \in 1 .. n + 1
      PROVE  \E i \in 1 .. n + 1 : newPoints[i].index = k - 1
  <2>1. CASE k = n + 1
    BY <1>1, <1>2, <2>1
  <2>2. CASE k # n + 1
    <3>1. k \in 1 .. n /\ Len(points) = n
      BY <1>2, <2>2
    <3>2. PICK i \in 1 .. n : points[i].index = k - 1
      BY <3>1 DEF Identified
    <3> QED
      BY <1>2, <3>2
  <2> QED
    BY <2>1, <2>2
<1>4. ASSUME NEW i \in 1 .. n + 1
      PROVE  /\ newPoints[i].index \in 0 .. n
             /\ newPoints[i].vec = newHistory[newPoints[i].index + 1]
             /\ i # n + 1 => newPoints[i].index # n
  <2>1. CASE i = n + 1
    BY <1>1, <1>2, <2>1
  <2>2. CASE i # n + 1
    <3>1. i \in 1 .. n /\ newPoints[i] = points[i]
      BY <1>2, <2>2
    <3>2. points[i].index \in 0 .. n - 1 /\ points[i].vec = history[points[i].index + 1]
      BY <3>1 DEF Identified
    <3>3. newHistory[points[i].index + 1] = history[points[i].index + 1]
      BY <1>2, <3>2
    <3> QED
      BY <1>2, <3>1, <3>2, <3>3
  <2> QED
    BY <2>1, <2>2
<1>5. ASSUME NEW i \in 1 .. n + 1, NEW j \in 1 .. n + 1, newPoints[i].index = newPoints[j].index
      PROVE  i = j
  <2>1. CASE i = n + 1 \/ j = n + 1
    BY <1>1, <1>2, <1>4, <1>5, <2>1
  <2>2. CASE i # n + 1 /\ j # n + 1
    <3>1. i \in 1 .. n /\ j \in 1 .. n /\ Len(points) = n
      BY <1>2, <2>2
    <3>2. points[i].index = points[j].index
      BY <1>2, <1>5, <3>1
    <3> QED
      BY <3>1, <3>2 DEF Identified
  <2> QED
    BY <2>1, <2>2
<1>6. Identified(newPoints, newHistory)
  BY <1>2, <1>3, <1>4, <1>5 DEF Identified
<1> QED
  BY <1>6 DEF newPoints, newHistory, q

(* Every step preserves the correspondence of indices and submissions.     *)
LEMMA IndexStep == SharedInv /\ IndexInv /\ [Next]_vars => IndexInv'
<1> SUFFICES ASSUME SharedInv, TypeOK, IndexInv, [Next]_vars PROVE IndexInv'
  BY DEF SharedInv
<1>1. /\ m_PointVector \in Seq(Points)
      /\ submitted \in Seq(Vectors)
  BY DEF TypeOK
<1>2. CASE Shuffle
  <2>1. UNCHANGED <<m_PointIndex, submitted>>
    BY <1>2 DEF Shuffle, others
  <2>2. PICK p \in Bijection(DOMAIN m_PointVector, DOMAIN m_PointVector) :
          m_PointVector' = [i \in DOMAIN m_PointVector |-> m_PointVector[p[i]]]
    BY <1>2 DEF Shuffle
  <2>3. Len(m_PointVector') = Len(m_PointVector)
    BY <1>1, <2>2, ShuffledIsSeq
  <2>4. Identified(m_PointVector, submitted) => Identified(m_PointVector', submitted)
    BY <1>1, <2>2, ShuffleKeepsIdentified
  <2> QED
    BY <2>1, <2>3, <2>4 DEF IndexInv
<1>3. CASE mAssignAll
  <2>1. UNCHANGED <<m_PointIndex, submitted>>
    BY <1>3 DEF mAssignAll, others
  <2>2. PICK labels \in [DOMAIN m_PointVector -> Labels] :
          m_PointVector' = Relabelled(m_PointVector, labels)
    BY <1>3, AssignData
  <2>3. Len(m_PointVector') = Len(m_PointVector)
    BY <1>1, <2>2, RelabelledIsSeq
  <2>4. Identified(m_PointVector, submitted) => Identified(m_PointVector', submitted)
    BY <1>1, <2>2, RelabellingKeepsIdentified
  <2> QED
    BY <2>1, <2>3, <2>4 DEF IndexInv
<1>4. ASSUME NEW s \in Submitters, NEW vec \in Vectors, SubmitStore(s, vec) PROVE IndexInv'
  <2>1. /\ m_PointVector' = Append(m_PointVector, DataPoint(vec, m_PointIndex))
        /\ submitted' = Append(submitted, vec)
        /\ m_PointIndex' = (m_PointIndex + 1) % UINT16
    BY <1>4 DEF SubmitStore
  <2>2. /\ Len(m_PointVector') = Len(m_PointVector) + 1
        /\ Len(submitted') = Len(submitted) + 1
        /\ Len(submitted) \in Nat
    BY <1>1, <2>1
  <2>3. ASSUME Len(submitted') < UINT16 PROVE m_PointIndex' = Len(submitted')
    <3>1. m_PointIndex = Len(submitted)
      BY <2>2, <2>3 DEF IndexInv
    <3> QED
      BY <2>1, <2>2, <2>3, <3>1, ModuloIsBelow
  <2>4. ASSUME Len(submitted') <= UINT16 PROVE Identified(m_PointVector', submitted')
    <3>1. /\ m_PointIndex = Len(submitted)
          /\ Identified(m_PointVector, submitted)
          /\ Len(m_PointVector) = Len(submitted)
      BY <2>2, <2>4 DEF IndexInv
    <3> QED
      BY <1>1, <2>1, <3>1, StoringKeepsIdentified
  <2> QED
    BY <2>2, <2>3, <2>4 DEF IndexInv
<1>5. CASE UNCHANGED <<m_PointVector, m_PointIndex, submitted>>
  BY <1>5 DEF IndexInv
<1>6. CASE WorkerStart \/ WorkerLoop \/ WorkerLock \/ WorkerWait \/ WorkerReadSize
  BY <1>5, <1>6 DEF WorkerStart, WorkerLoop, WorkerLock, WorkerWait, WorkerReadSize, engine, others
<1>7. CASE EmplaceMean \/ UpdateMean \/ UpdateThrows \/ NothingToDo \/ WorkerTail
  BY <1>5, <1>7 DEF EmplaceMean, UpdateMean, UpdateThrows, NothingToDo, WorkerTail, engine, others
<1>8. CASE SpuriousWakeup \/ StopUnderMutex \/ Join
  BY <1>5, <1>8 DEF SpuriousWakeup, StopUnderMutex, Join, engine, others
<1>9. ASSUME NEW s \in Submitters, SubmitLock(s) \/ SubmitNotify(s) PROVE IndexInv'
  BY <1>5, <1>9 DEF SubmitLock, SubmitNotify, engine
<1>10. CASE UNCHANGED vars
  BY <1>5, <1>10 DEF vars, engine, others
<1> QED
  BY <1>2, <1>3, <1>4, <1>6, <1>7, <1>8, <1>9, <1>10 DEF Next, WorkerStep, SubmitStep

(* mExtract finds every submission under its index, and under no other,    *)
(* through any shuffle and any number of assignments, as long as no more  *)
(* points were submitted than a uint16_t can number.                       *)
THEOREM IndexIsExact == Spec => []IndexIdentifiesSubmission
<1>1. Init => IndexInv
  <2> SUFFICES ASSUME Init PROVE IndexInv
    OBVIOUS
  <2>1. Len(m_PointVector) = 0 /\ Len(submitted) = 0 /\ m_PointIndex = 0
    BY DEF Init
  <2>2. Identified(m_PointVector, submitted)
    BY <2>1 DEF Identified
  <2> QED
    BY <2>1, <2>2 DEF IndexInv
<1>2. SharedInv /\ IndexInv /\ [Next]_vars => IndexInv'
  BY IndexStep
<1>3. TypeOK /\ IndexInv => IndexIdentifiesSubmission
  <2> SUFFICES ASSUME TypeOK, IndexInv, Len(submitted) <= UINT16, NEW k \in DOMAIN submitted
               PROVE  /\ \E i \in DOMAIN m_PointVector : m_PointVector[i].index = k - 1
                      /\ \A i \in DOMAIN m_PointVector :
                           m_PointVector[i].index = k - 1 =>
                             /\ m_PointVector[i].vec = submitted[k]
                             /\ \A j \in DOMAIN m_PointVector :
                                  m_PointVector[j].index = k - 1 => j = i
    BY DEF IndexIdentifiesSubmission
  <2>1. /\ DOMAIN m_PointVector = 1 .. Len(m_PointVector)
        /\ DOMAIN submitted = 1 .. Len(submitted) /\ Len(submitted) \in Nat
    BY SeqFacts DEF TypeOK
  <2>2. Identified(m_PointVector, submitted)
    BY DEF IndexInv
  <2>3. k \in Nat /\ (k - 1) + 1 = k
    BY <2>1
  <2> QED
    BY <2>1, <2>2, <2>3 DEF Identified
<1> QED
  BY <1>1, <1>2, <1>3, Shared, TypeCorrect, PTL DEF Spec

-----------------------------------------------------------------------------
(* Nearest means.                                                          *)

(* All analyses have the same number of coordinates, and the averages are  *)
(* built with no fewer.  Every engine of src/KMeansTests.cpp is used like  *)
(* this.  A learner, which passes the number of means for the number of    *)
(* coordinates, provides it when it has as many means as types of bytes;   *)
(* with fewer the property fails (run KMeansWidths).                       *)
EqualWidths == \E w \in 0 .. NumArgs : Vectors \subseteq [1 .. w -> Int]

NearestInv(w) == MeansOver(m_CurrentMeans, w) /\ AssignedToNearest

(* The analyses in the vector of points.                                   *)
LEMMA PointVectors ==
  ASSUME NEW w \in Nat, Vectors \subseteq [1 .. w -> Int], TypeOK
  PROVE  /\ DOMAIN m_PointVector = 1 .. Len(m_PointVector)
         /\ Len(m_PointVector) \in Nat
         /\ \A i \in DOMAIN m_PointVector : m_PointVector[i].vec \in [1 .. w -> Int]
<1>1. m_PointVector \in Seq(Points)
  BY DEF TypeOK
<1>2. DOMAIN m_PointVector = 1 .. Len(m_PointVector) /\ Len(m_PointVector) \in Nat
  BY <1>1, SeqFacts
<1>3. \A i \in 1 .. Len(m_PointVector) : m_PointVector[i] \in Points
  BY <1>1, SeqFacts
<1>4. \A p \in Points : p.vec \in Vectors
  BY DEF Points
<1> QED
  BY <1>2, <1>3, <1>4

(* The means are written by mInitialise, which takes them from points.     *)
LEMMA EmplaceOver ==
  ASSUME NEW w \in Nat, Vectors \subseteq [1 .. w -> Int], SharedInv,
         MeansOver(m_CurrentMeans, w), EmplaceMean
  PROVE  MeansOver(m_CurrentMeans', w)
<1> DEFINE e == MeanPoint(mean - 1, m_PointVector[mean].vec)
<1>1. /\ TypeOK /\ MeansInv /\ worker = "emplace" /\ mean \in 1 .. NumMeans
      /\ NumMeans <= Len(m_PointVector)
  BY DEF SharedInv, TypeOK, MeansInv, SnapshotStable, EmplaceMean
<1>2. mean \in DOMAIN m_PointVector
  <2>1. DOMAIN m_PointVector = 1 .. Len(m_PointVector) /\ Len(m_PointVector) \in Nat
    BY <1>1, PointVectors
  <2> QED
    BY <1>1, <2>1, ClusteringAssumption
<1>3. m_PointVector[mean].vec \in [1 .. w -> Int]
  BY <1>1, <1>2, PointVectors
<1>4. e.n = 1 /\ e.sum \in [1 .. w -> Int]
  BY <1>3 DEF MeanPoint
<1>5. m_CurrentMeans' = Append(m_CurrentMeans, e) /\ Len(m_CurrentMeans) = mean - 1
  BY <1>1 DEF EmplaceMean, MeansInv
<1>6. m_CurrentMeans \in Seq(Range(m_CurrentMeans))
  BY <1>1 DEF TypeOK
<1> HIDE DEF e
<1>7. /\ DOMAIN m_CurrentMeans' = 1 .. mean
      /\ \A j \in 1 .. mean - 1 : m_CurrentMeans'[j] = m_CurrentMeans[j]
      /\ m_CurrentMeans'[mean] = e
  BY <1>1, <1>5, <1>6, AppendToAny
<1>8. DOMAIN m_CurrentMeans = 1 .. mean - 1
  BY <1>1, <1>5, <1>6, SeqFacts
<1>9. ASSUME NEW j \in 1 .. mean
      PROVE  /\ m_CurrentMeans'[j].n \in Nat
             /\ 1 .. w \subseteq DOMAIN m_CurrentMeans'[j].sum
             /\ \A a \in 1 .. w : m_CurrentMeans'[j].sum[a] \in Int
  <2>1. CASE j = mean
    BY <1>4, <1>7, <2>1
  <2>2. CASE j # mean
    <3>1. j \in 1 .. mean - 1
      BY <1>1, <2>2
    <3> QED
      BY <1>7, <1>8, <3>1 DEF MeansOver
  <2> QED
    BY <2>1, <2>2
<1> QED
  BY <1>7, <1>9 DEF MeansOver

(* And by mUpdateMeans, as sums of coordinates.                            *)
LEMMA UpdateOver ==
  ASSUME NEW w \in 0 .. NumArgs, Vectors \subseteq [1 .. w -> Int], SharedInv,
         MeansOver(m_CurrentMeans, w), UpdateMean
  PROVE  MeansOver(m_CurrentMeans', w)
<1> DEFINE l == m_CurrentMeans[mean].label
<1> DEFINE e == Average(m_PointVector, l)
<1>1. TypeOK /\ MeansInv /\ w \in Nat /\ NumArgs \in Nat /\ UINT16 \in Nat \ {0}
  BY ClusteringAssumption DEF SharedInv
<1>2. IsFiniteSet(Group(m_PointVector, l)) /\ Group(m_PointVector, l) \subseteq DOMAIN m_PointVector
  <2>1. IsFiniteSet(DOMAIN m_PointVector)
    BY <1>1, PointVectors, FS_Interval
  <2>2. Group(m_PointVector, l) \in SUBSET DOMAIN m_PointVector
    BY DEF Group
  <2> QED
    BY <2>1, <2>2, FS_Subset
<1>3. \A a \in 1 .. w : \A i \in Group(m_PointVector, l) : m_PointVector[i].vec[a] \in Int
  BY <1>1, <1>2, PointVectors
<1>4. \A a \in 1 .. w : GroupSum(m_PointVector, l, a) \in Int
  BY <1>2, <1>3, GroupSumType
<1>5. e.n \in Nat /\ 1 .. w \subseteq DOMAIN e.sum /\ \A a \in 1 .. w : e.sum[a] \in Int
  <2>1. e.n \in Nat
    <3>1. Cardinality(Group(m_PointVector, l)) \in Nat
      BY <1>2, FS_CardinalityType
    <3> QED
      BY <1>1, <3>1, ModuloIsBelow DEF Average
  <2>2. \A a \in 1 .. w : a \in 1 .. NumArgs
    BY <1>1
  <2> QED
    BY <1>4, <2>1, <2>2 DEF Average
<1>6. m_CurrentMeans' = [m_CurrentMeans EXCEPT ![mean] = e]
  BY DEF UpdateMean
<1> HIDE DEF e
<1>7. /\ DOMAIN m_CurrentMeans' = DOMAIN m_CurrentMeans
      /\ \A j \in DOMAIN m_CurrentMeans :
           m_CurrentMeans'[j] = IF j = mean THEN e ELSE m_CurrentMeans[j]
  BY <1>6
<1> QED
  BY <1>5, <1>7 DEF MeansOver

(* mAssignAll, in the engine's state.                                      *)
LEMMA AssignNearest ==
  ASSUME NEW w \in Nat, Vectors \subseteq [1 .. w -> Int], SharedInv,
         MeansOver(m_CurrentMeans, w), mAssignAll
  PROVE  AssignedToNearest'
<1> DEFINE labels == NearestLabels(m_PointVector, m_CurrentMeans)
<1>1. TypeOK /\ MeansInv /\ NumMeans \in Nat \ {0}
  BY ClusteringAssumption DEF SharedInv
<1>2. /\ m_PointVector' = Relabelled(m_PointVector, labels)
      /\ m_CurrentMeans' = m_CurrentMeans /\ m_Initialised
  BY DEF mAssignAll
<1>3. DOMAIN m_CurrentMeans = 1 .. NumMeans
  <2>1. m_CurrentMeans \in Seq(Range(m_CurrentMeans)) /\ Len(m_CurrentMeans) = NumMeans
    BY <1>1, <1>2 DEF TypeOK, MeansInv
  <2> QED
    BY <2>1, SeqFacts
<1>4. \A j \in 1 .. NumMeans : m_CurrentMeans[j].label = j - 1
  BY <1>1, <1>3 DEF MeansInv
<1>5. m_PointVector \in Seq(Points)
  BY <1>1 DEF TypeOK
<1>6. DOMAIN m_PointVector' = DOMAIN m_PointVector
  BY <1>2 DEF Relabelled
<1> SUFFICES ASSUME NEW i \in DOMAIN m_PointVector, NEW j \in DOMAIN m_CurrentMeans
             PROVE  LET p == m_PointVector'[i]
                        own == m_CurrentMeans[p.mean + 1]
                    IN  /\ Assignable(p, m_CurrentMeans)
                        /\ ~Nearer(p.vec, m_CurrentMeans[j], own)
                        /\ j < p.mean + 1 /\ IsNumber(m_CurrentMeans[1])
                             => Nearer(p.vec, own, m_CurrentMeans[j]) \/ ~IsNumber(m_CurrentMeans[j])
  BY <1>2, <1>6 DEF AssignedToNearest
<1>7. m_PointVector'[i].vec = m_PointVector[i].vec /\ m_PointVector'[i].mean = labels[i]
  <2>1. m_PointVector[i] \in Points
    BY <1>5, SeqFacts
  <2>2. m_PointVector'[i] = [m_PointVector[i] EXCEPT !.mean = labels[i]]
    BY <1>2 DEF Relabelled
  <2> QED
    BY <2>1, <2>2 DEF Points
<1> HIDE DEF labels
<1>8. Clusterable(m_PointVector, m_CurrentMeans, w)
  <2>1. /\ DOMAIN m_PointVector = 1 .. Len(m_PointVector) /\ Len(m_PointVector) \in Nat
        /\ \A k \in DOMAIN m_PointVector : m_PointVector[k].vec \in [1 .. w -> Int]
    BY <1>1, PointVectors
  <2> QED
    BY <1>1, <1>3, <1>4, <2>1 DEF Clusterable
<1>9. /\ Assignable(m_PointVector[i], m_CurrentMeans)
      /\ \E b \in DOMAIN m_CurrentMeans :
           labels[i] = b - 1 /\ NearestOf(m_PointVector[i].vec, m_CurrentMeans, b)
  BY <1>8, AssignedFacts DEF labels
<1>10. PICK b \in 1 .. NumMeans :
         labels[i] = b - 1 /\ NearestOf(m_PointVector[i].vec, m_CurrentMeans, b)
  BY <1>3, <1>9
<1>11. m_PointVector'[i].mean + 1 = b
  BY <1>7, <1>10
<1>12. Assignable(m_PointVector'[i], m_CurrentMeans)
  BY <1>7, <1>9 DEF Assignable
<1> QED
  BY <1>3, <1>7, <1>10, <1>11, <1>12 DEF NearestOf

(* No other step changes points or means between the end of mAssignAll     *)
(* and the first turn of mUpdateMeans.                                     *)
LEMMA NearestStep ==
  ASSUME NEW w \in 0 .. NumArgs, Vectors \subseteq [1 .. w -> Int]
  PROVE  SharedInv /\ NearestInv(w) /\ [Next]_vars => NearestInv(w)'
<1> SUFFICES ASSUME SharedInv, MeansOver(m_CurrentMeans, w), AssignedToNearest, [Next]_vars
             PROVE  MeansOver(m_CurrentMeans', w) /\ AssignedToNearest'
  BY DEF NearestInv
<1>1. w \in Nat
  BY ClusteringAssumption
<1>2. TypeOK /\ LockInv /\ MeansInv
  BY DEF SharedInv
<1> USE DEF AssignedToNearest, engine, locals, others
<1>3. CASE WorkerStart \/ WorkerLoop \/ WorkerLock \/ WorkerWait \/ WorkerReadSize
  BY <1>3 DEF WorkerStart, WorkerLoop, WorkerLock, WorkerWait, WorkerReadSize
<1>4. CASE Shuffle
  BY <1>4 DEF Shuffle
<1>5. CASE EmplaceMean
  <2>1. MeansOver(m_CurrentMeans', w)
    BY <1>1, <1>5, EmplaceOver
  <2> QED
    BY <1>5, <2>1 DEF EmplaceMean
<1>6. CASE mAssignAll
  <2>1. m_CurrentMeans' = m_CurrentMeans
    BY <1>6 DEF mAssignAll
  <2>2. AssignedToNearest'
    BY <1>1, <1>6, AssignNearest
  <2> QED
    BY <2>1, <2>2
<1>7. CASE UpdateMean
  <2>1. MeansOver(m_CurrentMeans', w)
    BY <1>7, UpdateOver
  <2>2. mean' # 1
    BY <1>2, <1>7 DEF UpdateMean, TypeOK
  <2> QED
    BY <2>1, <2>2
<1>8. CASE UpdateThrows \/ NothingToDo \/ WorkerTail \/ SpuriousWakeup
  BY <1>8 DEF UpdateThrows, NothingToDo, WorkerTail, SpuriousWakeup
<1>9. ASSUME NEW s \in Submitters, NEW vec \in Vectors, SubmitStore(s, vec)
      PROVE  MeansOver(m_CurrentMeans', w) /\ AssignedToNearest'
  <2>1. m_MainMutex # Worker
    BY <1>2, <1>9, KMeansAssumption DEF SubmitStore, LockInv
  <2>2. worker' # "update"
    BY <1>2, <1>9, <2>1 DEF SubmitStore, LockInv, InCriticalSection
  <2> QED
    BY <1>9, <2>2 DEF SubmitStore
<1>10. ASSUME NEW s \in Submitters, SubmitLock(s) \/ SubmitNotify(s)
       PROVE  MeansOver(m_CurrentMeans', w) /\ AssignedToNearest'
  BY <1>10 DEF SubmitLock, SubmitNotify, Notified
<1>11. CASE StopUnderMutex \/ Join
  BY <1>11 DEF StopUnderMutex, Join, Notified
<1>12. CASE UNCHANGED vars
  BY <1>12 DEF vars
<1> QED
  BY <1>3, <1>4, <1>5, <1>6, <1>7, <1>8, <1>9, <1>10, <1>11, <1>12 DEF Next, WorkerStep, SubmitStep

(* Whenever mAssignAll has run, every point is with a mean that none is    *)
(* nearer than, the first of the nearest, however many means are NaN.      *)
THEOREM NearestAssigned == EqualWidths => (Spec => []AssignedToNearest)
<1> SUFFICES ASSUME EqualWidths PROVE Spec => []AssignedToNearest
  OBVIOUS
<1>1. PICK w \in 0 .. NumArgs : Vectors \subseteq [1 .. w -> Int]
  BY DEF EqualWidths
<1>2. Init => NearestInv(w)
  BY DEF Init, NearestInv, MeansOver, AssignedToNearest
<1>3. SharedInv /\ NearestInv(w) /\ [Next]_vars => NearestInv(w)'
  BY <1>1, NearestStep
<1>4. NearestInv(w) => AssignedToNearest
  BY DEF NearestInv
<1> QED
  BY <1>2, <1>3, <1>4, Shared, PTL DEF Spec

-----------------------------------------------------------------------------
(* The threaded engine implements LearningEngine.  The refinement mapping  *)
(* reads only program counters and the history of submissions, so the      *)
(* proof needs what ties those to the data: RefInv.                        *)

(* How the steps of the worker, the submitters and the owner depend on     *)
(* each other beyond the mutex.                                            *)
RefInv ==
  /\ m_StopThread <=> owner # "running"
  /\ owner = "joined" => worker = "done"
  /\ \A s \in Submitters : submitter[s] = "locked" => Len(submitted) < MaxSubmits
  /\ Len(submitted) <= MaxSubmits
  /\ worker \in {"emplace", "update"} => NewPoints
  /\ worker = "update" => currentSize > NumMeans

EngineInv == SharedInv /\ SeenInv /\ IndexInv /\ RefInv

(* No step lets the stop, the bound on submissions or the reason of a      *)
(* round slip.                                                             *)
LEMMA RefStep == SharedInv /\ RefInv /\ [Next]_vars => RefInv'
<1> SUFFICES ASSUME TypeOK, LockInv, RefInv, [Next]_vars PROVE RefInv'
  BY DEF SharedInv
<1> USE DEF RefInv, NewPoints, locals, others
<1>1. CASE WorkerStart \/ WorkerLoop \/ WorkerLock \/ WorkerWait \/ WorkerReadSize
  BY <1>1 DEF WorkerStart, WorkerLoop, WorkerLock, WorkerWait, WorkerReadSize
<1>2. CASE Shuffle \/ EmplaceMean \/ mAssignAll \/ UpdateMean
  BY <1>2 DEF Shuffle, EmplaceMean, mAssignAll, UpdateMean
<1>3. CASE UpdateThrows \/ NothingToDo \/ WorkerTail \/ SpuriousWakeup
  BY <1>3 DEF UpdateThrows, NothingToDo, WorkerTail, SpuriousWakeup
<1>4. ASSUME NEW s \in Submitters, SubmitLock(s) PROVE RefInv'
  <2>1. submitter' = [submitter EXCEPT ![s] = "locked"]
    BY <1>4 DEF SubmitLock
  <2>2. submitter \in [Submitters -> {"idle", "locked", "notify"}]
    BY DEF TypeOK
  <2>3. \A r \in Submitters : submitter'[r] = "locked" => Len(submitted') < MaxSubmits
    BY <1>4, <2>1, <2>2 DEF SubmitLock
  <2> QED
    BY <1>4, <2>3 DEF SubmitLock
<1>5. ASSUME NEW s \in Submitters, NEW vec \in Vectors, SubmitStore(s, vec) PROVE RefInv'
  <2>1. /\ submitter[s] = "locked" /\ m_MainMutex = s
        /\ submitter' = [submitter EXCEPT ![s] = "notify"]
        /\ submitted' = Append(submitted, vec)
    BY <1>5 DEF SubmitStore, LockInv
  <2>2. submitter \in [Submitters -> {"idle", "locked", "notify"}] /\ submitted \in Seq(Vectors)
    BY DEF TypeOK
  <2>3. Len(submitted') <= MaxSubmits
    BY <2>1, <2>2
  <2>4. \A r \in Submitters : submitter'[r] # "locked"
    BY <2>1, <2>2 DEF LockInv
  <2> QED
    BY <1>5, <2>3, <2>4 DEF SubmitStore
<1>6. ASSUME NEW s \in Submitters, SubmitNotify(s) PROVE RefInv'
  <2>1. \A r \in Submitters : submitter'[r] = "locked" => submitter[r] = "locked"
    BY <1>6 DEF SubmitNotify, TypeOK
  <2> QED
    BY <1>6, <2>1 DEF SubmitNotify, Notified
<1>7. CASE StopUnderMutex \/ Join
  BY <1>7 DEF StopUnderMutex, Join, Notified
<1>8. CASE UNCHANGED vars
  BY <1>8 DEF vars
<1> QED
  BY <1>1, <1>2, <1>3, <1>4, <1>5, <1>6, <1>7, <1>8 DEF Next, WorkerStep, SubmitStep

(* The worker's program counter is in the loop.                            *)
LEMMA ThreadIs ==
  /\ worker = "start" => Thread = "launched"
  /\ worker = "done" => Thread = "ended"
  /\ worker = "terminated" => Thread = "dead"
  /\ worker \notin {"start", "done", "terminated"} => Thread = "looping"
BY DEF Thread

(* The same after a step.                                                  *)
LEMMA ThreadIsNext ==
  /\ worker' = "start" => Thread' = "launched"
  /\ worker' = "done" => Thread' = "ended"
  /\ worker' = "terminated" => Thread' = "dead"
  /\ worker' \notin {"start", "done", "terminated"} => Thread' = "looping"
BY DEF Thread

(* Every step of the threads is a step of LearningEngine or changes        *)
(* nothing that its users see.                                             *)
LEMMA EngineStep ==
  EngineInv /\ EngineInv' /\ [Next]_vars => [Promised!Next]_(Promised!vars)
<1> SUFFICES ASSUME TypeOK, LockInv, SnapshotStable, MeansInv, SeenInv, IndexInv, RefInv,
                    RefInv', [Next]_vars
             PROVE  Promised!Next \/ UNCHANGED Promised!vars
  BY DEF EngineInv, SharedInv
<1> USE ThreadIs, ThreadIsNext DEF engine, locals, others
<1>1. Len(m_PointVector) = Len(submitted) /\ Len(submitted) \in Nat /\ submitted \in Seq(Vectors)
  BY DEF IndexInv, TypeOK
<1>2. CASE WorkerStart
  <2>1. SizeReads \subseteq 0 .. MaxSubmits + 1
    BY <1>1 DEF SizeReads, RefInv
  <2>2. Promised!Start
    BY <1>2, <2>1 DEF WorkerStart, Promised!Start
  <2> QED
    BY <2>2 DEF Promised!Next
<1>3. CASE WorkerLoop
  <2>1. CASE m_StopThread
    <3>1. owner = "joining"
      BY <1>3, <2>1 DEF RefInv, TypeOK, WorkerLoop
    <3>2. Promised!Leave
      BY <1>3, <2>1, <3>1 DEF WorkerLoop, Promised!Leave
    <3> QED
      BY <3>2 DEF Promised!Next
  <2>2. CASE ~m_StopThread
    BY <1>3, <2>2 DEF WorkerLoop, Promised!vars
  <2> QED
    BY <2>1, <2>2
<1>4. CASE EmplaceMean
  <2>1. /\ worker = "emplace" /\ ~m_Initialised /\ currentSize >= NumMeans
        /\ Len(submitted) = currentSize /\ currentSize # oldNumberPointsInVector
    BY <1>1, <1>4 DEF EmplaceMean, MeansInv, SnapshotStable, RefInv, NewPoints
  <2>2. CASE mean = NumMeans
    <3>1. Promised!Initialise
      BY <1>4, <2>1, <2>2 DEF EmplaceMean, Promised!Initialise, Promised!News
    <3> QED
      BY <3>1 DEF Promised!Next
  <2>3. CASE mean # NumMeans
    <3>1. m_Initialised = FALSE /\ m_Initialised' = FALSE
      BY <1>4, <2>1, <2>3 DEF EmplaceMean, TypeOK
    <3>2. worker' = "emplace" /\ Thread' = Thread
      BY <1>4, <2>1, <2>3 DEF EmplaceMean
    <3> QED
      BY <1>4, <3>1, <3>2 DEF EmplaceMean, Promised!vars
  <2> QED
    BY <2>2, <2>3
<1>5. CASE UpdateThrows
  <2>1. /\ worker = "update" /\ m_Initialised /\ currentSize > NumMeans
        /\ Len(submitted) = currentSize /\ currentSize # oldNumberPointsInVector
    BY <1>1, <1>5 DEF UpdateThrows, MeansInv, SnapshotStable, RefInv, NewPoints
  <2>2. Promised!Die
    BY <1>5, <2>1 DEF UpdateThrows, Promised!Die, Promised!News
  <2> QED
    BY <2>2 DEF Promised!Next
<1>6. CASE WorkerTail
  <2>1. worker = "tail" /\ Len(submitted) = currentSize /\ oldNumberPointsInVector' = Len(submitted)
    BY <1>1, <1>6 DEF WorkerTail, SnapshotStable
  <2>2. Promised!RoundEnds
    BY <2>1 DEF SeenInv, Promised!RoundEnds, Promised!News
  <2>3. CASE m_StopThread
    <3>1. owner = "joining"
      BY <2>1, <2>3 DEF RefInv, TypeOK
    <3>2. Promised!Leave
      BY <1>6, <2>1, <2>2, <2>3, <3>1 DEF WorkerTail, Promised!Leave
    <3> QED
      BY <3>2 DEF Promised!Next
  <2>4. CASE ~m_StopThread
    <3>1. Promised!Round
      BY <1>6, <2>1, <2>2, <2>4 DEF WorkerTail, Promised!Round
    <3> QED
      BY <3>1 DEF Promised!Next
  <2> QED
    BY <2>3, <2>4
<1>7. ASSUME NEW s \in Submitters, NEW vec \in Vectors, SubmitStore(s, vec)
      PROVE  Promised!Next
  <2>1. worker # "terminated"
    BY <1>7 DEF SubmitStore, LockInv
  <2>2. Thread # "dead" /\ Thread' = Thread
    BY <1>7, <2>1 DEF SubmitStore, Thread
  <2>3. Promised!Submit(vec)
    BY <1>7, <2>2 DEF SubmitStore, Promised!Submit
  <2> QED
    BY <2>3 DEF Promised!Next
<1>8. CASE StopUnderMutex
  <2>1. Thread' = Thread
    BY <1>8 DEF StopUnderMutex, Notified, Thread
  <2>2. Promised!Stop
    BY <1>8, <2>1 DEF StopUnderMutex, Promised!Stop
  <2> QED
    BY <2>2 DEF Promised!Next
<1>9. CASE Join
  <2>1. Promised!Join
    BY <1>9 DEF Join, Promised!Join
  <2> QED
    BY <2>1 DEF Promised!Next
<1>10. CASE WorkerLock \/ WorkerWait \/ WorkerReadSize \/ NothingToDo \/ SpuriousWakeup
  BY <1>10 DEF WorkerLock, WorkerWait, WorkerReadSize, NothingToDo, SpuriousWakeup, Promised!vars
<1>11. CASE Shuffle \/ mAssignAll
  BY <1>11 DEF Shuffle, mAssignAll, Promised!vars
<1>12. CASE UpdateMean
  BY <1>12 DEF UpdateMean, Promised!vars
<1>13. ASSUME NEW s \in Submitters, SubmitLock(s) \/ SubmitNotify(s)
       PROVE  UNCHANGED Promised!vars
  <2>1. Thread' = Thread
    BY <1>13 DEF SubmitLock, SubmitNotify, Notified, Thread
  <2> QED
    BY <1>13, <2>1 DEF SubmitLock, SubmitNotify, Promised!vars
<1>14. CASE UNCHANGED vars
  <2>1. Thread' = Thread
    BY <1>14 DEF vars, Thread
  <2> QED
    BY <1>14, <2>1 DEF vars, Promised!vars
<1> QED
  BY <1>2, <1>3, <1>4, <1>5, <1>6, <1>7, <1>8, <1>9, <1>10, <1>11, <1>12, <1>13, <1>14
     DEF Next, WorkerStep, SubmitStep

(* The constructor establishes all that the refinement rests on.           *)
LEMMA EngineInit == Init => EngineInv /\ Promised!Init
<1> SUFFICES ASSUME Init PROVE EngineInv /\ Promised!Init
  OBVIOUS
<1>1. SharedInv
  BY SharedInit
<1>2. SeenInv
  BY DEF Init, SeenInv
<1>3. IndexInv
  <2>1. Len(m_PointVector) = 0 /\ Len(submitted) = 0 /\ m_PointIndex = 0
    BY DEF Init
  <2>2. Identified(m_PointVector, submitted)
    BY <2>1 DEF Identified
  <2> QED
    BY <2>1, <2>2 DEF IndexInv
<1>4. RefInv
  BY DEF Init, RefInv
<1>5. Promised!Init
  BY ThreadIs DEF Init, Promised!Init
<1> QED
  BY <1>1, <1>2, <1>3, <1>4, <1>5 DEF EngineInv

(* The threads, the mutex, the flags and the loop together are one engine  *)
(* with atomic rounds that keeps submissions in order, initialises in the  *)
(* first round that finds new points enough, and leaves when stopped.      *)
THEOREM EngineImplemented == Spec => ImplementsEngine
<1>1. Init => EngineInv /\ Promised!Init
  BY EngineInit
<1>2. EngineInv /\ [Next]_vars => EngineInv'
  <2>1. SharedInv /\ [Next]_vars => SharedInv'
    BY SharedStep
  <2>2. SharedInv /\ SeenInv /\ [Next]_vars => SeenInv'
    BY SeenStep
  <2>3. SharedInv /\ IndexInv /\ [Next]_vars => IndexInv'
    BY IndexStep
  <2>4. SharedInv /\ RefInv /\ [Next]_vars => RefInv'
    BY RefStep
  <2> QED
    BY <2>1, <2>2, <2>3, <2>4 DEF EngineInv
<1>3. EngineInv /\ EngineInv' /\ [Next]_vars => [Promised!Next]_(Promised!vars)
  BY EngineStep
<1> QED
  BY <1>1, <1>2, <1>3, PTL DEF Spec, ImplementsEngine, Promised!Spec

=============================================================================

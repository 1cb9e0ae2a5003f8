---------------------------- MODULE LearnerProofs ----------------------------
(***************************************************************************)
(* The life of the learner, for any packets, any number of means and types *)
(* and any quota.  Its threads use the engine only as KMeans.tla lets them,*)
(* so that all that KMeansProofs proves of the engine holds of the         *)
(* learner's: its invariants are taken over (EP), and what ties them to    *)
(* the handlers and the main thread is added.                              *)
(***************************************************************************)
EXTENDS Learner, FiniteSetTheorems, TLAPS

EP ==
  INSTANCE KMeansProofs
    WITH Submitters <- {IoThread}, Vectors <- Analyses, NumArgs <- NumMeans,
         MaxSubmits <- MaxPackets

(* The assumptions about the engine's constants.                           *)
LEMMA EngineAssumptions ==
  EP!ClusteringAssumption /\ EP!KMeansAssumption
BY LearnerAssumption DEF EP!ClusteringAssumption, EP!KMeansAssumption

-----------------------------------------------------------------------------
(* The engine of Learner and that of the proofs are the same module with   *)
(* the same constants, but their definitions have different names.         *)

\* They find the same nearest mean.
LEMMA SameNearest ==
  \A vec, means : Engine!mFindNearestMean(vec, means) = EP!mFindNearestMean(vec, means)
BY ZenonT(60) DEF Engine!mFindNearestMean, EP!mFindNearestMean, Engine!Nearer, EP!Nearer,
   Engine!mCalculateEuclideanDistance, EP!mCalculateEuclideanDistance,
   Engine!IsNumber, EP!IsNumber, Engine!FoldLeftDomain, EP!FoldLeftDomain,
   Engine!FoldLeft, EP!FoldLeft, Engine!Max, EP!Max,
   Engine!MapThenSumSet, EP!MapThenSumSet, Engine!MapThenFoldSet, EP!MapThenFoldSet

\* They give the points the same labels.
LEMMA SameLabels ==
  \A points, means : Engine!NearestLabels(points, means) = EP!NearestLabels(points, means)
BY SameNearest, Zenon
   DEF Engine!NearestLabels, EP!NearestLabels, Engine!Reached, EP!Reached,
       Engine!Assignable, EP!Assignable, Engine!HasCoordinates, EP!HasCoordinates

\* They average a group to the same mean.
LEMMA SameAverage ==
  \A points, label : Engine!Average(points, label) = EP!Average(points, label)
BY Zenon DEF Engine!Average, EP!Average, Engine!GroupSum, EP!GroupSum, Engine!Group, EP!Group,
   Engine!Cardinality, EP!Cardinality,
   Engine!MapThenSumSet, EP!MapThenSumSet, Engine!MapThenFoldSet, EP!MapThenFoldSet

\* Their workers take the same steps.
LEMMA SameWorker == Engine!WorkerStep <=> EP!WorkerStep
<1> USE DEF Engine!engine, EP!engine, Engine!locals, EP!locals, Engine!others, EP!others,
            Engine!NewPoints, EP!NewPoints
<1>1. Engine!WorkerStart <=> EP!WorkerStart
  BY Zenon DEF Engine!WorkerStart, EP!WorkerStart, Engine!SizeReads, EP!SizeReads
<1>2. /\ Engine!WorkerLoop <=> EP!WorkerLoop
      /\ Engine!WorkerLock <=> EP!WorkerLock
      /\ Engine!WorkerWait <=> EP!WorkerWait
      /\ Engine!WorkerReadSize <=> EP!WorkerReadSize
  BY Zenon DEF Engine!WorkerLoop, EP!WorkerLoop, Engine!WorkerLock, EP!WorkerLock,
     Engine!WorkerWait, EP!WorkerWait, Engine!WorkerReadSize, EP!WorkerReadSize
<1>3. Engine!Shuffle <=> EP!Shuffle
  BY Zenon DEF Engine!Shuffle, EP!Shuffle, Engine!Bijection, EP!Bijection,
     Engine!Injection, EP!Injection, Engine!Surjection, EP!Surjection,
     Engine!IsInjective, EP!IsInjective
<1>4. Engine!EmplaceMean <=> EP!EmplaceMean
  BY Zenon DEF Engine!EmplaceMean, EP!EmplaceMean, Engine!MeanPoint, EP!MeanPoint
<1>5. Engine!mAssignAll <=> EP!mAssignAll
  BY SameLabels, Zenon
     DEF Engine!mAssignAll, EP!mAssignAll, Engine!Relabelled, EP!Relabelled, Engine!Labels, EP!Labels
<1>6. /\ Engine!UpdateMean <=> EP!UpdateMean
      /\ Engine!UpdateThrows <=> EP!UpdateThrows
  BY SameAverage, Zenon
     DEF Engine!UpdateMean, EP!UpdateMean, Engine!UpdateThrows, EP!UpdateThrows,
         Engine!Averageable, EP!Averageable, Engine!Group, EP!Group
<1>7. /\ Engine!NothingToDo <=> EP!NothingToDo
      /\ Engine!WorkerTail <=> EP!WorkerTail
  BY Zenon DEF Engine!NothingToDo, EP!NothingToDo, Engine!WorkerTail, EP!WorkerTail
<1> QED
  BY <1>1, <1>2, <1>3, <1>4, <1>5, <1>6, <1>7, Zenon DEF Engine!WorkerStep, EP!WorkerStep

\* Their submitters and owners take the same steps, and a spurious wakeup is the same.
LEMMA SameSteps ==
  /\ Engine!SpuriousWakeup <=> EP!SpuriousWakeup
  /\ Engine!SubmitLock(IoThread) <=> EP!SubmitLock(IoThread)
  /\ \A vec : Engine!SubmitStore(IoThread, vec) <=> EP!SubmitStore(IoThread, vec)
  /\ Engine!SubmitNotify(IoThread) <=> EP!SubmitNotify(IoThread)
  /\ Engine!StopUnderMutex <=> EP!StopUnderMutex
  /\ Engine!Join <=> EP!Join
BY Zenon DEF Engine!engine, EP!engine, Engine!locals, EP!locals, Engine!others, EP!others,
   Engine!Notified, EP!Notified, Engine!DataPoint, EP!DataPoint,
   Engine!SpuriousWakeup, EP!SpuriousWakeup, Engine!SubmitLock, EP!SubmitLock,
   Engine!SubmitStore, EP!SubmitStore, Engine!SubmitNotify, EP!SubmitNotify,
   Engine!StopUnderMutex, EP!StopUnderMutex, Engine!Join, EP!Join

\* They have the same variables.
LEMMA SameVars ==
  (UNCHANGED Engine!vars <=> UNCHANGED engine) /\ (UNCHANGED EP!vars <=> UNCHANGED engine)
BY DEF engine, Engine!vars, EP!vars, Engine!engine, EP!engine, Engine!locals, EP!locals,
   Engine!others, EP!others

\* They begin in the same states.
LEMMA SameInit == Engine!Init <=> EP!Init
BY Zenon DEF Engine!Init, EP!Init

-----------------------------------------------------------------------------
(* The handler, the main thread and the engine.                            *)

\* The packets that the handler has submitted, or is about to store.
Taken ==
  IF handler = "submitting" /\ submitter[IoThread] # "notify"
  THEN Len(submitted) + 1 ELSE Len(submitted)

HandlerInv ==
  /\ decoded \in Analyses
  /\ packetsSeen \in Nat
  /\ handler # "submitting" => submitter[IoThread] = "idle"
  /\ service = "joined" => handler = "idle"
  /\ owner # "running" => service = "joined"
  /\ Taken = Cardinality(Due)

LearnerInv == EP!EngineInv /\ HandlerInv

(* The steps of a learner, by what they do to the engine.                  *)
LEMMA StepCases ==
  ASSUME [Next]_vars
  PROVE  \/ (EP!WorkerStep \/ EP!SpuriousWakeup) /\ UNCHANGED network
         \/ HandlePacket \/ Forward \/ StopService \/ JoinService
         \/ /\ handler = "submitting" /\ UNCHANGED <<decoded, packetsSeen, service>>
            /\ \/ EP!SubmitLock(IoThread) /\ handler' = handler
               \/ EP!SubmitStore(IoThread, decoded) /\ handler' = handler
               \/ EP!SubmitNotify(IoThread) /\ handler' = "forwarding"
         \/ service = "joined" /\ (EP!StopUnderMutex \/ EP!Join) /\ UNCHANGED network
         \/ UNCHANGED <<engine, network>>
BY SameWorker, SameSteps, Zenon
   DEF Next, WorkerThread, ServiceThread, Submit, Destroy, vars

(* A step of a learner is one of its engine, or leaves the engine alone.   *)
LEMMA EngineSteps ==
  ASSUME decoded \in Analyses, [Next]_vars
  PROVE  [EP!Next]_(EP!vars) /\ [Engine!Next]_(Engine!vars)
<1>1. CASE HandlePacket \/ Forward \/ StopService \/ JoinService \/ UNCHANGED <<engine, network>>
  <2>1. UNCHANGED engine
    BY <1>1, Zenon DEF HandlePacket, Forward, StopService, JoinService
  <2> QED
    BY <2>1, SameVars
<1>2. CASE EP!WorkerStep \/ EP!SpuriousWakeup \/ EP!StopUnderMutex \/ EP!Join
  BY <1>2, SameWorker, SameSteps, Zenon DEF EP!Next, Engine!Next
<1>3. CASE \/ EP!SubmitLock(IoThread) \/ EP!SubmitStore(IoThread, decoded)
           \/ EP!SubmitNotify(IoThread)
  <2>1. EP!SubmitLock(IoThread) \/ EP!SubmitStep(IoThread)
    BY <1>3, Zenon DEF EP!SubmitStep
  <2>2. Engine!SubmitLock(IoThread) \/ Engine!SubmitStep(IoThread)
    BY <1>3, SameSteps, Zenon DEF Engine!SubmitStep
  <2>3. IoThread \in {IoThread}
    OBVIOUS
  <2> QED
    BY <2>1, <2>2, <2>3, Zenon DEF EP!Next, Engine!Next
<1> QED
  BY <1>1, <1>2, <1>3, StepCases, Zenon

(* What the worker never touches.                                          *)
LEMMA WorkerFrame ==
  ASSUME EP!WorkerStep \/ EP!SpuriousWakeup
  PROVE  UNCHANGED <<submitter, owner, submitted>>
BY DEF EP!WorkerStep, EP!WorkerStart, EP!WorkerLoop, EP!WorkerLock, EP!WorkerWait,
   EP!WorkerReadSize, EP!Shuffle, EP!EmplaceMean, EP!mAssignAll, EP!UpdateMean, EP!UpdateThrows,
   EP!NothingToDo, EP!WorkerTail, EP!SpuriousWakeup, EP!others

(* The types that the handler's steps rest on.                             *)
LEMMA EngineTypes ==
  ASSUME EP!EngineInv
  PROVE  /\ submitter \in [{IoThread} -> {"idle", "locked", "notify"}]
         /\ submitted \in Seq(Analyses) /\ Len(submitted) \in Nat
         /\ Len(m_PointVector) = Len(submitted)
BY DEF EP!EngineInv, EP!SharedInv, EP!TypeOK, EP!IndexInv

(* One more packet, the analysis of all bytes so far.                      *)
LEMMA AddedIsAnalysis ==
  ASSUME NEW analysis \in Analyses, NEW packet \in Packets
  PROVE  Added(analysis, packet) \in Analyses
<1>1. packet \in Analyses
  BY LearnerAssumption
<1> QED
  <2>1. \A type \in 1 .. NUMTYPES : Counted(analysis[type] + packet[type]) \in Nat
    BY <1>1, LearnerAssumption DEF Counted, Analyses
  <2> QED
    BY <2>1 DEF Added, Analyses

(* One more packet is one more that is due, or none.                       *)
LEMMA DueNext ==
  ASSUME packetsSeen \in Nat, packetsSeen' = packetsSeen + 1
  PROVE  Cardinality(Due) \in Nat
         /\ Cardinality(Due)' = IF WithinQuota THEN Cardinality(Due) + 1 ELSE Cardinality(Due)
<1> DEFINE n == packetsSeen
<1>1. IsFiniteSet(1 .. n)
  BY FS_Interval
<1>2. Due \subseteq 1 .. n
  BY DEF Due
<1>3. IsFiniteSet(Due) /\ Cardinality(Due) \in Nat
  BY <1>1, <1>2, FS_Subset, FS_CardinalityType
<1>4. n + 1 \notin Due
  BY <1>2
<1>5. Due' = {k \in 1 .. n + 1 : k % UINT32 <= m_MaxPacketsToObserve}
  BY DEF Due
<1>6. WithinQuota <=> (n + 1) % UINT32 <= m_MaxPacketsToObserve
  BY DEF WithinQuota
<1>7. 1 .. n + 1 = (1 .. n) \cup {n + 1}
  OBVIOUS
<1>8. Due' = IF WithinQuota THEN Due \cup {n + 1} ELSE Due
  BY <1>5, <1>6, <1>7, Zenon DEF Due
<1>9. Cardinality(Due \cup {n + 1}) = Cardinality(Due) + 1
  BY <1>3, <1>4, FS_AddElement
<1> QED
  BY <1>3, <1>8, <1>9, Zenon

\* Every step keeps handler, service and owner in agreement with the engine.
LEMMA HandlerStep == EP!EngineInv /\ HandlerInv /\ [Next]_vars => HandlerInv'
<1> SUFFICES ASSUME EP!EngineInv, HandlerInv, [Next]_vars PROVE HandlerInv'
  OBVIOUS
<1>1. /\ submitter \in [{IoThread} -> {"idle", "locked", "notify"}]
      /\ submitted \in Seq(Analyses) /\ Len(submitted) \in Nat
      /\ m_MaxPacketsToObserve \in Nat
  BY EngineTypes, LearnerAssumption
<1>2. CASE (EP!WorkerStep \/ EP!SpuriousWakeup) /\ UNCHANGED network
  BY <1>2, WorkerFrame, Zenon DEF network, HandlerInv, Taken, Due
<1>3. CASE HandlePacket
  <2>1. /\ handler = "idle" /\ service = "running" /\ packetsSeen' = packetsSeen + 1
        /\ UNCHANGED <<submitter, owner, submitted, service>>
        /\ \/ WithinQuota /\ handler' = "submitting"
           \/ ~WithinQuota /\ handler' = "forwarding"
        /\ decoded' = decoded \/ \E packet \in Packets : decoded' = Added(decoded, packet)
    BY <1>3 DEF HandlePacket, engine
  <2>2. decoded' \in Analyses
    BY <2>1, AddedIsAnalysis DEF HandlerInv
  <2>3. submitter[IoThread] = "idle" /\ Len(submitted) = Cardinality(Due)
    BY <2>1 DEF HandlerInv, Taken, Due
  <2>4. Taken' = Cardinality(Due)'
    <3>1. Taken' = IF handler' = "submitting" THEN Len(submitted) + 1 ELSE Len(submitted)
      BY <2>1, <2>3 DEF Taken
    <3>2. Cardinality(Due)' = IF WithinQuota THEN Cardinality(Due) + 1 ELSE Cardinality(Due)
      BY <2>1, DueNext DEF HandlerInv
    <3> QED
      BY <2>1, <2>3, <3>1, <3>2, Zenon
  <2> QED
    BY <2>1, <2>2, <2>3, <2>4 DEF HandlerInv
<1>4. CASE Forward \/ StopService \/ JoinService
  BY <1>4 DEF Forward, StopService, JoinService, engine, HandlerInv, Taken, Due
<1>5. CASE /\ handler = "submitting" /\ UNCHANGED <<decoded, packetsSeen, service>>
           /\ EP!SubmitLock(IoThread) /\ handler' = handler
  <2>1. submitter[IoThread] = "idle" /\ submitter'[IoThread] = "locked" /\ UNCHANGED <<owner, submitted>>
    BY <1>1, <1>5 DEF EP!SubmitLock
  <2> QED
    BY <1>5, <2>1 DEF HandlerInv, Taken, Due
<1>6. CASE /\ handler = "submitting" /\ UNCHANGED <<decoded, packetsSeen, service>>
           /\ EP!SubmitStore(IoThread, decoded) /\ handler' = handler
  <2>1. /\ submitter[IoThread] = "locked" /\ submitter'[IoThread] = "notify" /\ owner' = owner
        /\ submitted' = Append(submitted, decoded)
    BY <1>1, <1>6 DEF EP!SubmitStore
  <2>2. Len(submitted') = Len(submitted) + 1
    BY <1>1, <2>1 DEF HandlerInv
  <2> QED
    BY <1>1, <1>6, <2>1, <2>2 DEF HandlerInv, Taken, Due
<1>7. CASE /\ handler = "submitting" /\ UNCHANGED <<decoded, packetsSeen, service>>
           /\ EP!SubmitNotify(IoThread) /\ handler' = "forwarding"
  <2>1. submitter[IoThread] = "notify" /\ submitter'[IoThread] = "idle" /\ UNCHANGED <<owner, submitted>>
    BY <1>1, <1>7 DEF EP!SubmitNotify
  <2> QED
    BY <1>7, <2>1 DEF HandlerInv, Taken, Due
<1>8. CASE service = "joined" /\ (EP!StopUnderMutex \/ EP!Join) /\ UNCHANGED network
  BY <1>8 DEF EP!StopUnderMutex, EP!Join, network, HandlerInv, Taken, Due
<1>9. CASE UNCHANGED <<engine, network>>
  BY <1>9 DEF engine, network, HandlerInv, Taken, Due
<1> QED
  BY <1>2, <1>3, <1>4, <1>5, <1>6, <1>7, <1>8, <1>9, StepCases, Zenon

(* Every step keeps the engine's invariants and the handler's.             *)
LEMMA LearnerStep == LearnerInv /\ [Next]_vars => LearnerInv'
<1> SUFFICES ASSUME LearnerInv, [Next]_vars PROVE LearnerInv'
  OBVIOUS
<1>1. [EP!Next]_(EP!vars)
  BY EngineSteps DEF LearnerInv, HandlerInv
<1>2. EP!SharedInv'
  BY <1>1, EngineAssumptions, EP!SharedStep DEF LearnerInv, EP!EngineInv
<1>3. EP!SeenInv'
  BY <1>1, EngineAssumptions, EP!SeenStep DEF LearnerInv, EP!EngineInv
<1>4. EP!IndexInv'
  BY <1>1, EngineAssumptions, EP!IndexStep DEF LearnerInv, EP!EngineInv
<1>5. EP!RefInv'
  BY <1>1, EngineAssumptions, EP!RefStep DEF LearnerInv, EP!EngineInv
<1>6. HandlerInv'
  BY HandlerStep DEF LearnerInv
<1> QED
  BY <1>2, <1>3, <1>4, <1>5, <1>6 DEF LearnerInv, EP!EngineInv

\* The invariant of the learner holds at its construction.
LEMMA LearnerInit == Init => LearnerInv
<1> SUFFICES ASSUME Init PROVE LearnerInv
  OBVIOUS
<1>1. EP!Init
  BY SameInit DEF Init
<1>2. EP!EngineInv
  BY <1>1, EngineAssumptions, EP!EngineInit
<1>3. HandlerInv
  <2>1. Due = {}
    BY DEF Init, Due
  <2>2. Cardinality(Due) = 0
    BY <2>1, FS_EmptySet
  <2> QED
    BY <1>1, <2>2, LearnerAssumption DEF Init, EP!Init, HandlerInv, Taken, Analyses
<1> QED
  BY <1>2, <1>3 DEF LearnerInv

\* The engine's invariants and the handlers' hold in every reachable state.
LEMMA LearnerAlways == Spec => []LearnerInv
BY LearnerInit, LearnerStep, PTL DEF Spec

(* The learner's threads use the engine as KMeans.tla lets threads use it: *)
(* what is proved of KMeans holds of a learner's engine, in particular     *)
(* that nobody submits to an engine that has been joined.                  *)
THEOREM EngineUsed == Spec => Engine!Spec
<1>1. Init => Engine!Init
  BY DEF Init
<1>2. LearnerInv /\ [Next]_vars => [Engine!Next]_(Engine!vars)
  BY EngineSteps DEF LearnerInv, HandlerInv
<1> QED
  BY <1>1, <1>2, LearnerAlways, PTL DEF Spec, Engine!Spec

(* When the engine is stopped and when its members are destroyed, no       *)
(* handler is inside it: the main thread has joined the service's thread.  *)
THEOREM AloneDestroyed == Spec => []DestroyedAlone
<1>1. LearnerInv => DestroyedAlone
  BY DEF LearnerInv, EP!EngineInv, EP!SharedInv, EP!LockInv, HandlerInv, DestroyedAlone
<1> QED
  BY <1>1, LearnerAlways, PTL

(* Between two handlers the engine reports as many points as packets were  *)
(* due in it, modulo 2^16, whatever the worker is doing: those seen, up to *)
(* the quota, and again by the quota whenever the counters have wrapped.   *)
THEOREM QuotaReported == Spec => []ReportsPacketsUpToQuota
<1>1. LearnerInv => ReportsPacketsUpToQuota
  BY EngineTypes, Zenon
     DEF LearnerInv, HandlerInv, Taken, ReportsPacketsUpToQuota, mGetNumPoints
<1> QED
  BY <1>1, LearnerAlways, PTL

(* What the getters read once the service's thread has been joined and the *)
(* worker is at rest does not change any more, whatever wakes the worker.  *)
THEOREM SettledForGood == Spec => SettledStays
<1>1. ASSUME LearnerInv, [Next]_vars, Settled
      PROVE  UNCHANGED <<m_PointVector, m_CurrentMeans, m_Initialised>>
  <2>1. /\ EP!RefInv /\ EP!SnapshotStable /\ HandlerInv
        /\ service = "joined" /\ handler = "idle"
    BY <1>1 DEF LearnerInv, EP!EngineInv, EP!SharedInv, HandlerInv, Settled
  <2>2. \/ worker = "waiting"
        \/ worker \notin {"emplace", "update"} /\ (worker = "examine" => ~EP!NewPoints)
    BY <1>1, <2>1 DEF Settled, EP!RefInv, EP!SnapshotStable, EP!NewPoints
  <2>3. ASSUME EP!WorkerStep \/ EP!SpuriousWakeup
        PROVE  UNCHANGED <<m_PointVector, m_CurrentMeans, m_Initialised>>
    BY <2>2, <2>3
       DEF EP!WorkerStep, EP!WorkerStart, EP!WorkerLoop, EP!WorkerLock, EP!WorkerWait,
           EP!WorkerReadSize, EP!Shuffle, EP!EmplaceMean, EP!mAssignAll, EP!UpdateMean,
           EP!UpdateThrows, EP!NothingToDo, EP!WorkerTail, EP!SpuriousWakeup, EP!engine
  <2>4. ASSUME EP!StopUnderMutex \/ EP!Join
        PROVE  UNCHANGED <<m_PointVector, m_CurrentMeans, m_Initialised>>
    BY <2>4 DEF EP!StopUnderMutex, EP!Join, EP!engine
  <2>5. ASSUME \/ HandlePacket \/ Forward \/ StopService \/ JoinService
               \/ UNCHANGED <<engine, network>>
        PROVE  UNCHANGED <<m_PointVector, m_CurrentMeans, m_Initialised>>
    BY <2>5 DEF HandlePacket, Forward, StopService, JoinService, engine
  <2>6. handler # "submitting"
    BY <2>1
  <2> QED
    BY <1>1, <2>3, <2>4, <2>5, <2>6, StepCases, Zenon
<1> QED
  BY <1>1, LearnerAlways, PTL DEF Spec, SettledStays

-----------------------------------------------------------------------------
(* The analyses grow, so that no two points of the engine are the same.    *)

AtMost(u, v) == \A type \in 1 .. NUMTYPES : u[type] <= v[type]

GrowInv ==
  /\ \A i, j \in 1 .. Len(submitted) : i < j => submitted[i] # submitted[j]
  /\ \A i \in 1 .. Len(submitted) : AtMost(submitted[i], decoded)
  /\ handler = "submitting" /\ submitter[IoThread] # "notify" =>
       \A i \in 1 .. Len(submitted) : submitted[i] # decoded

(* A packet that is not empty makes the analysis a greater one, if it      *)
(* fills no counter.                                                       *)
LEMMA AddedGrows ==
  ASSUME NonEmptyPackets, NEW packet \in Packets, NEW old \in Analyses, NEW u \in Analyses,
         AtMost(u, old), \A type \in 1 .. NUMTYPES : Added(old, packet)[type] < FLOATMAX
  PROVE  AtMost(u, Added(old, packet)) /\ u # Added(old, packet)
<1>1. packet \in [1 .. NUMTYPES -> Nat] /\ old \in [1 .. NUMTYPES -> Nat] /\ u \in [1 .. NUMTYPES -> Nat]
  BY LearnerAssumption DEF Analyses
<1>2. \A type \in 1 .. NUMTYPES :
        /\ Added(old, packet)[type] = old[type] + packet[type]
        /\ old[type] \in Nat /\ packet[type] \in Nat /\ u[type] \in Nat
  <2> TAKE type \in 1 .. NUMTYPES
  <2>1. /\ old[type] \in Nat /\ packet[type] \in Nat /\ u[type] \in Nat
        /\ Added(old, packet)[type] = Counted(old[type] + packet[type])
        /\ Added(old, packet)[type] < FLOATMAX
    BY <1>1 DEF Added
  <2>2. Added(old, packet)[type] = old[type] + packet[type]
    BY <2>1, LearnerAssumption DEF Counted
  <2> QED
    BY <2>1, <2>2
<1>3. PICK type \in 1 .. NUMTYPES : packet[type] > 0
  BY DEF NonEmptyPackets
<1>4. AtMost(u, Added(old, packet))
  BY <1>2 DEF AtMost
<1>5. u[type] <= old[type]
  BY <1>3 DEF AtMost
<1>6. u[type] # Added(old, packet)[type]
  BY <1>2, <1>3, <1>5
<1> QED
  BY <1>4, <1>6

\* Every step that leaves no counter full keeps the analyses growing.
LEMMA GrowStep == NonEmptyPackets /\ CountersFit' /\ LearnerInv /\ GrowInv /\ [Next]_vars => GrowInv'
<1> SUFFICES ASSUME NonEmptyPackets, CountersFit', LearnerInv, GrowInv, [Next]_vars PROVE GrowInv'
  OBVIOUS
<1>1. /\ submitter \in [{IoThread} -> {"idle", "locked", "notify"}]
      /\ submitted \in Seq(Analyses) /\ Len(submitted) \in Nat /\ decoded \in Analyses
      /\ \A i \in 1 .. Len(submitted) : submitted[i] \in Analyses
  BY EngineTypes DEF LearnerInv, HandlerInv
<1>2. CASE (EP!WorkerStep \/ EP!SpuriousWakeup) /\ UNCHANGED network
  BY <1>2, WorkerFrame, Zenon DEF network, GrowInv
<1>3. CASE HandlePacket
  <2>1. /\ handler = "idle" /\ UNCHANGED <<submitter, submitted>>
        /\ \/ handler' = "submitting" /\ \E packet \in Packets : decoded' = Added(decoded, packet)
           \/ handler' = "forwarding" /\ decoded' = decoded
    BY <1>3 DEF HandlePacket, engine
  <2>2. CASE handler' = "forwarding" /\ decoded' = decoded
    BY <2>1, <2>2 DEF GrowInv
  <2>3. CASE \E packet \in Packets : decoded' = Added(decoded, packet)
    <3>1. PICK packet \in Packets : decoded' = Added(decoded, packet)
      BY <2>3
    <3>2. \A i \in 1 .. Len(submitted) : AtMost(submitted[i], decoded') /\ submitted[i] # decoded'
      BY <1>1, <3>1, AddedGrows DEF GrowInv, CountersFit
    <3> QED
      BY <2>1, <3>2 DEF GrowInv
  <2> QED
    BY <2>1, <2>2, <2>3
<1>4. CASE Forward \/ StopService \/ JoinService
  BY <1>4 DEF Forward, StopService, JoinService, engine, GrowInv
<1>5. CASE /\ handler = "submitting" /\ UNCHANGED <<decoded, packetsSeen, service>>
           /\ EP!SubmitLock(IoThread) /\ handler' = handler
  <2>1. submitter[IoThread] = "idle" /\ submitted' = submitted
    BY <1>1, <1>5 DEF EP!SubmitLock
  <2> QED
    BY <1>5, <2>1 DEF GrowInv
<1>6. CASE /\ handler = "submitting" /\ UNCHANGED <<decoded, packetsSeen, service>>
           /\ EP!SubmitStore(IoThread, decoded) /\ handler' = handler
  <2>1. /\ submitter[IoThread] = "locked" /\ submitter'[IoThread] = "notify"
        /\ submitted' = Append(submitted, decoded)
    BY <1>1, <1>6 DEF EP!SubmitStore
  <2>2. \A i \in 1 .. Len(submitted) : submitted[i] # decoded /\ AtMost(submitted[i], decoded)
    BY <1>6, <2>1 DEF GrowInv
  <2>3. AtMost(decoded, decoded)
    BY <1>1 DEF AtMost, Analyses
  <2>4. /\ Len(submitted') = Len(submitted) + 1 /\ submitted'[Len(submitted) + 1] = decoded
        /\ \A i \in 1 .. Len(submitted) : submitted'[i] = submitted[i]
    BY <1>1, <2>1
  <2>5. \A i \in 1 .. Len(submitted) + 1 : i \in 1 .. Len(submitted) \/ i = Len(submitted) + 1
    BY <1>1
  <2>6. \A i \in 1 .. Len(submitted') : AtMost(submitted'[i], decoded')
    BY <1>6, <2>2, <2>3, <2>4, <2>5
  <2>7. \A i, j \in 1 .. Len(submitted') : i < j => submitted'[i] # submitted'[j]
    <3> SUFFICES ASSUME NEW i \in 1 .. Len(submitted) + 1, NEW j \in 1 .. Len(submitted) + 1, i < j
                 PROVE  submitted'[i] # submitted'[j]
      BY <2>4
    <3>1. i \in 1 .. Len(submitted)
      BY <1>1
    <3>2. CASE j = Len(submitted) + 1
      BY <2>2, <2>4, <3>1, <3>2
    <3>3. CASE j \in 1 .. Len(submitted)
      BY <2>4, <3>1, <3>3 DEF GrowInv
    <3> QED
      BY <2>5, <3>2, <3>3
  <2> QED
    BY <2>1, <2>6, <2>7 DEF GrowInv
<1>7. CASE /\ handler = "submitting" /\ UNCHANGED <<decoded, packetsSeen, service>>
           /\ EP!SubmitNotify(IoThread) /\ handler' = "forwarding"
  <2>1. submitted' = submitted
    BY <1>7 DEF EP!SubmitNotify
  <2> QED
    BY <1>7, <2>1 DEF GrowInv
<1>8. CASE service = "joined" /\ (EP!StopUnderMutex \/ EP!Join) /\ UNCHANGED network
  BY <1>8 DEF EP!StopUnderMutex, EP!Join, network, GrowInv
<1>9. CASE UNCHANGED <<engine, network>>
  BY <1>9 DEF engine, network, GrowInv
<1> QED
  BY <1>2, <1>3, <1>4, <1>5, <1>6, <1>7, <1>8, <1>9, StepCases, Zenon

(* While the indices have not wrapped no two points are the same.          *)
LEMMA PointsDiffer ==
  ASSUME LearnerInv, GrowInv, GroupsFit
  PROVE  \A i, j \in 1 .. Len(m_PointVector) :
           i # j => m_PointVector[i].vec # m_PointVector[j].vec
<1>1. /\ Len(submitted) \in Nat /\ Len(m_PointVector) = Len(submitted)
      /\ UINT16 \in Nat
  BY EngineTypes, LearnerAssumption DEF LearnerInv
<1>3. Len(submitted) <= UINT16
  BY <1>1 DEF GroupsFit
<1>4. EP!Identified(m_PointVector, submitted)
  BY <1>3 DEF LearnerInv, EP!EngineInv, EP!IndexInv
<1>5. ASSUME NEW i \in 1 .. Len(m_PointVector), NEW j \in 1 .. Len(m_PointVector), i # j
      PROVE  m_PointVector[i].vec # m_PointVector[j].vec
  <2> DEFINE k == m_PointVector[i].index + 1
             l == m_PointVector[j].index + 1
  <2>0. /\ m_PointVector[i].index \in 0 .. Len(submitted) - 1
        /\ m_PointVector[j].index \in 0 .. Len(submitted) - 1
    BY <1>4, Zenon DEF EP!Identified
  <2>1. k \in 1 .. Len(submitted) /\ l \in 1 .. Len(submitted)
    BY <1>1, <2>0
  <2>2. m_PointVector[i].vec = submitted[k] /\ m_PointVector[j].vec = submitted[l]
    BY <1>4 DEF EP!Identified
  <2>3. k # l
    <3>1. m_PointVector[i].index # m_PointVector[j].index
      BY <1>4, <1>5 DEF EP!Identified
    <3> QED
      BY <1>1, <2>0, <3>1
  <2> HIDE DEF k, l
  <2>4. k < l \/ l < k
    BY <1>1, <2>1, <2>3
  <2> QED
    BY <2>1, <2>2, <2>4 DEF GrowInv
<1> QED
  BY <1>5

(* The means are the points they began at.                                 *)
Untouched ==
  \A j \in DOMAIN m_CurrentMeans :
    j \in DOMAIN m_PointVector /\ m_CurrentMeans[j] = EP!MeanPoint(j - 1, m_PointVector[j].vec)

(* Every mean has a group, and the first mUpdateMeans has left each mean   *)
(* it has come to with one coordinate per mean, fewer than there are types.*)
Averaged == worker \notin {"update", "terminated"}

Divided ==
  /\ m_Initialised
  /\ Averaged => NumMeans < NUMTYPES
  /\ \A label \in EP!Labels : EP!Group(m_PointVector, label) # {}
  /\ \A j \in 1 .. NumMeans : Averaged \/ j < mean => DOMAIN m_CurrentMeans[j].sum = 1 .. NumMeans

NumberInv ==
  /\ \A j \in DOMAIN m_CurrentMeans : m_CurrentMeans[j].n # 0
  /\ (worker # "update" /\ Untouched) \/ Divided

(* The engine's data, as its own invariants give them.                     *)
LEMMA EngineData ==
  ASSUME EP!EngineInv
  PROVE  /\ m_PointVector \in Seq(EP!Points)
         /\ DOMAIN m_PointVector = 1 .. Len(m_PointVector) /\ Len(m_PointVector) \in Nat
         /\ \A i \in 1 .. Len(m_PointVector) :
              m_PointVector[i].vec \in Analyses /\ m_PointVector[i].mean \in EP!Labels
         /\ DOMAIN m_CurrentMeans = 1 .. Len(m_CurrentMeans) /\ Len(m_CurrentMeans) \in Nat
         /\ \A j \in DOMAIN m_CurrentMeans : m_CurrentMeans[j].label = j - 1
         /\ m_Initialised => Len(m_CurrentMeans) = NumMeans
         /\ mean \in 1 .. NumMeans + 1
         /\ NumMeans \in Nat \ {0} /\ UINT16 \in Nat \ {0} /\ NUMTYPES \in Nat
<1>1. /\ m_PointVector \in Seq(EP!Points)
      /\ m_CurrentMeans \in Seq(EP!Range(m_CurrentMeans))
      /\ mean \in 1 .. NumMeans + 1
  BY DEF EP!EngineInv, EP!SharedInv, EP!TypeOK
<1>2. \A i \in 1 .. Len(m_PointVector) : m_PointVector[i] \in EP!Points
  BY <1>1
<1>3. \A i \in 1 .. Len(m_PointVector) :
        m_PointVector[i].vec \in Analyses /\ m_PointVector[i].mean \in EP!Labels
  BY <1>2 DEF EP!Points
<1>4. /\ \A j \in DOMAIN m_CurrentMeans : m_CurrentMeans[j].label = j - 1
      /\ m_Initialised => Len(m_CurrentMeans) = NumMeans
  BY DEF EP!EngineInv, EP!SharedInv, EP!MeansInv
<1>5. DOMAIN m_PointVector = 1 .. Len(m_PointVector) /\ Len(m_PointVector) \in Nat
  BY <1>1
<1>6. DOMAIN m_CurrentMeans = 1 .. Len(m_CurrentMeans) /\ Len(m_CurrentMeans) \in Nat
  BY <1>1
<1> QED
  BY <1>1, <1>3, <1>4, <1>5, <1>6, LearnerAssumption

(* Steps that leave the points and the means alone.                        *)
LEMMA NumberFrame ==
  ASSUME NumberInv, UNCHANGED <<m_PointVector, m_CurrentMeans, m_Initialised, mean>>,
         Averaged' <=> Averaged, worker' = "update" => worker = "update"
  PROVE  NumberInv'
<1>1. Untouched => Untouched'
  BY DEF Untouched
<1>2. Divided => Divided'
  BY DEF Divided, EP!Group
<1> QED
  BY <1>1, <1>2 DEF NumberInv

(* One turn of mInitialise takes the next point as the next mean.          *)
LEMMA NumberEmplace ==
  ASSUME EP!EngineInv, NumberInv, EP!EmplaceMean
  PROVE  NumberInv'
<1> DEFINE e == EP!MeanPoint(mean - 1, m_PointVector[mean].vec)
<1>1. /\ m_CurrentMeans \in Seq(EP!Range(m_CurrentMeans))
      /\ mean \in 1 .. NumMeans + 1 /\ NumMeans \in Nat
  BY EngineData DEF EP!EngineInv, EP!SharedInv, EP!TypeOK
<1>2. /\ worker = "emplace" /\ ~m_Initialised /\ mean <= NumMeans /\ currentSize >= NumMeans
      /\ Len(m_CurrentMeans) = mean - 1 /\ Len(m_PointVector) = currentSize
  BY DEF EP!EngineInv, EP!SharedInv, EP!MeansInv, EP!SnapshotStable, EP!EmplaceMean
<1>3. /\ m_CurrentMeans' = Append(m_CurrentMeans, e) /\ m_PointVector' = m_PointVector
      /\ worker' \in {"tail", "emplace"}
  BY DEF EP!EmplaceMean
<1>4. Untouched /\ \A j \in DOMAIN m_CurrentMeans : m_CurrentMeans[j].n # 0
  BY <1>2 DEF NumberInv, Divided
<1>5. e.n # 0
  BY DEF EP!MeanPoint
<1>6. mean \in DOMAIN m_PointVector
  BY <1>1, <1>2, EngineData
<1> HIDE DEF e
<1>7. /\ DOMAIN m_CurrentMeans' = 1 .. mean
      /\ \A j \in 1 .. mean - 1 : m_CurrentMeans'[j] = m_CurrentMeans[j]
      /\ m_CurrentMeans'[mean] = e
      /\ DOMAIN m_CurrentMeans = 1 .. mean - 1
  BY <1>1, <1>2, <1>3
<1>8. \A j \in 1 .. mean : j \in 1 .. mean - 1 \/ j = mean
  BY <1>1
<1>9. \A j \in 1 .. mean :
        /\ m_CurrentMeans'[j].n # 0 /\ j \in DOMAIN m_PointVector
        /\ m_CurrentMeans'[j] = EP!MeanPoint(j - 1, m_PointVector[j].vec)
  <2> TAKE j \in 1 .. mean
  <2>1. CASE j = mean
    BY <1>5, <1>6, <1>7, <2>1 DEF e
  <2>2. CASE j \in 1 .. mean - 1
    BY <1>4, <1>7, <2>2 DEF Untouched
  <2> QED
    BY <1>8, <2>1, <2>2
<1>10. Untouched'
  BY <1>3, <1>7, <1>9, Zenon DEF Untouched
<1> QED
  BY <1>3, <1>7, <1>9, <1>10 DEF NumberInv

(* The points and means are such as the lemmas about mAssignAll speak of.  *)
LEMMA FirstMeansClusterable ==
  ASSUME EP!EngineInv, Untouched, m_Initialised
  PROVE  EP!Clusterable(m_PointVector, m_CurrentMeans, NUMTYPES)
<1>1. NUMTYPES \in Nat /\ DOMAIN m_CurrentMeans = 1 .. NumMeans /\ NumMeans \in Nat \ {0}
  BY EngineData
<1>2. \A i \in DOMAIN m_PointVector : m_PointVector[i].vec \in [1 .. NUMTYPES -> Int]
  BY EngineData DEF Analyses
<1>3. EP!MeansOver(m_CurrentMeans, NUMTYPES)
  <2> SUFFICES ASSUME NEW j \in DOMAIN m_CurrentMeans
               PROVE  /\ m_CurrentMeans[j].n \in Nat
                      /\ 1 .. NUMTYPES \subseteq DOMAIN m_CurrentMeans[j].sum
                      /\ \A a \in 1 .. NUMTYPES : m_CurrentMeans[j].sum[a] \in Int
    BY Zenon DEF EP!MeansOver
  <2>1. j \in DOMAIN m_PointVector /\ m_CurrentMeans[j] = EP!MeanPoint(j - 1, m_PointVector[j].vec)
    BY Zenon DEF Untouched
  <2>2. m_CurrentMeans[j].n = 1 /\ m_CurrentMeans[j].sum = m_PointVector[j].vec
    BY <2>1 DEF EP!MeanPoint
  <2>3. m_CurrentMeans[j].sum \in [1 .. NUMTYPES -> Int]
    BY <1>2, <2>1, <2>2
  <2>4. m_CurrentMeans[j].n \in Nat
    BY <2>2
  <2>5. DOMAIN m_CurrentMeans[j].sum = 1 .. NUMTYPES
    BY <2>3
  <2>6. \A a \in 1 .. NUMTYPES : m_CurrentMeans[j].sum[a] \in Int
    BY <2>3
  <2> QED
    BY <2>4, <2>5, <2>6
<1> QED
  BY <1>1, <1>2, <1>3, EngineData, Zenon DEF EP!Clusterable

(* The first mAssignAll: the point a mean began at is nearest to that mean *)
(* alone, so each mean has a point.                                        *)
LEMMA NumberFirstAssign ==
  ASSUME LearnerInv, GrowInv, GroupsFit, Untouched, EP!mAssignAll
  PROVE  \A label \in EP!Labels : EP!Group(m_PointVector', label) # {}
<1> SUFFICES ASSUME NEW label \in EP!Labels PROVE EP!Group(m_PointVector', label) # {}
  OBVIOUS
<1> DEFINE labels == EP!NearestLabels(m_PointVector, m_CurrentMeans)
<1>1. EP!EngineInv /\ m_Initialised
  BY DEF LearnerInv, EP!mAssignAll
<1>2. EP!Clusterable(m_PointVector, m_CurrentMeans, NUMTYPES)
  BY <1>1, FirstMeansClusterable
<1>3. /\ label + 1 \in DOMAIN m_CurrentMeans /\ label \in Int
      /\ NUMTYPES \in Nat /\ \A j \in DOMAIN m_CurrentMeans : j \in Int
  BY <1>1, EngineData DEF EP!Labels
<1>4. label + 1 \in DOMAIN m_PointVector
  BY <1>3 DEF Untouched
<1> DEFINE i == label + 1
           u == m_PointVector[i].vec
<1>5. PICK b \in DOMAIN m_CurrentMeans : labels[i] = b - 1 /\ EP!NearestOf(u, m_CurrentMeans, b)
  BY <1>2, <1>4, EngineAssumptions, EP!AssignedFacts, Zenon
<1> DEFINE v == m_PointVector[b].vec
<1>6. b \in DOMAIN m_PointVector /\ b \in Int /\ m_CurrentMeans[b] = EP!MeanPoint(b - 1, v)
  BY <1>3 DEF Untouched
<1>7. m_CurrentMeans[i] = EP!MeanPoint(i - 1, u) /\ i \in DOMAIN m_CurrentMeans
  BY <1>3 DEF Untouched
<1>8. ~EP!Nearer(u, EP!MeanPoint(i - 1, u), EP!MeanPoint(b - 1, v))
  BY <1>5, <1>6, <1>7 DEF EP!NearestOf
<1>9. u \in [1 .. NUMTYPES -> Int] /\ v \in [1 .. NUMTYPES -> Int]
  BY <1>1, <1>4, <1>6, EngineData DEF Analyses
<1>10. u = v
  BY <1>3, <1>8, <1>9, EngineAssumptions, EP!OwnPointNearest, Zenon
<1>11. i = b
  BY <1>1, <1>4, <1>6, <1>10, PointsDiffer, EngineData
<1>12. labels[i] = label
  BY <1>3, <1>5, <1>11
<1>13. m_PointVector' = EP!Relabelled(m_PointVector, labels)
  BY DEF EP!mAssignAll
<1> HIDE DEF labels
<1>14. i \in DOMAIN m_PointVector' /\ m_PointVector'[i].mean = label
  <2>1. m_PointVector[i] \in EP!Points
    BY <1>1, <1>4, EngineData
  <2>2. [m_PointVector[i] EXCEPT !.mean = labels[i]].mean = labels[i]
    BY <2>1 DEF EP!Points
  <2> QED
    BY <1>4, <1>12, <1>13, <2>2 DEF EP!Relabelled
<1> QED
  BY <1>14 DEF EP!Group

(* A later mAssignAll relabels nothing: the first mean has fewer           *)
(* coordinates than a point.                                               *)
LEMMA NumberLaterAssign ==
  ASSUME EP!EngineInv, Divided, EP!mAssignAll
  PROVE  \A label \in EP!Labels : EP!Group(m_PointVector', label) # {}
<1> DEFINE labels == EP!NearestLabels(m_PointVector, m_CurrentMeans)
<1>1. /\ worker = "examine" /\ m_Initialised
      /\ m_PointVector' = EP!Relabelled(m_PointVector, labels)
  BY DEF EP!mAssignAll
<1>2. NumMeans < NUMTYPES /\ \A j \in 1 .. NumMeans : DOMAIN m_CurrentMeans[j].sum = 1 .. NumMeans
  BY <1>1 DEF Divided, Averaged
<1>3. /\ 1 \in DOMAIN m_CurrentMeans /\ 1 \in 1 .. NumMeans
      /\ NUMTYPES \in Nat /\ NumMeans \in Nat \ {0}
  BY <1>1, EngineData
<1>4. \A i \in DOMAIN m_PointVector : labels[i] = m_PointVector[i].mean
  <2> TAKE i \in DOMAIN m_PointVector
  <2>1. 1 \in 1 .. i /\ 1 \in DOMAIN m_PointVector
    BY EngineData
  <2>2. DOMAIN m_PointVector[1].vec = 1 .. NUMTYPES
    BY <2>1, EngineData DEF Analyses
  <2>3. NUMTYPES \in 1 .. NUMTYPES /\ NUMTYPES \notin 1 .. NumMeans
    BY <1>2, <1>3
  <2>4. ~EP!HasCoordinates(m_CurrentMeans[1], m_PointVector[1].vec)
    BY <1>2, <1>3, <2>2, <2>3 DEF EP!HasCoordinates
  <2>5. ~EP!Assignable(m_PointVector[1], m_CurrentMeans)
    BY <1>3, <2>4 DEF EP!Assignable
  <2>6. ~EP!Reached(m_PointVector, m_CurrentMeans, i)
    BY <2>1, <2>5 DEF EP!Reached
  <2> QED
    BY <2>6 DEF EP!NearestLabels
<1> HIDE DEF labels
<1>5. \A i \in DOMAIN m_PointVector :
        i \in DOMAIN m_PointVector' /\ m_PointVector'[i].mean = m_PointVector[i].mean
  <2> TAKE i \in DOMAIN m_PointVector
  <2>1. m_PointVector[i] \in EP!Points
    BY EngineData
  <2>2. [m_PointVector[i] EXCEPT !.mean = labels[i]].mean = labels[i]
    BY <2>1 DEF EP!Points
  <2> QED
    BY <1>1, <1>4, <2>2 DEF EP!Relabelled
<1>6. \A label : EP!Group(m_PointVector, label) \subseteq EP!Group(m_PointVector', label)
  BY <1>5 DEF EP!Group
<1> QED
  BY <1>6 DEF Divided

\* mAssignAll leaves every mean a group or a position, the first as well as later ones.
LEMMA NumberAssign ==
  ASSUME LearnerInv, GrowInv, GroupsFit, NumberInv, EP!mAssignAll
  PROVE  NumberInv'
<1>1. /\ m_Initialised' /\ m_CurrentMeans' = m_CurrentMeans
      /\ mean' = 1 /\ worker' = "update"
  BY DEF EP!mAssignAll
<1>2. \A label \in EP!Labels : EP!Group(m_PointVector', label) # {}
  BY NumberFirstAssign, NumberLaterAssign DEF NumberInv, LearnerInv
<1>3. \A j \in 1 .. NumMeans : ~(j < mean')
  BY <1>1, LearnerAssumption
<1>4. Divided'
  BY <1>1, <1>2, <1>3 DEF Divided, Averaged
<1> QED
  BY <1>1, <1>4 DEF NumberInv

(* A group has no more points than there are, and one point fewer when     *)
(* another mean has a group too.                                           *)
LEMMA GroupSizes ==
  ASSUME EP!EngineInv, Divided, GroupsFit, NEW label \in EP!Labels
  PROVE  EP!Cardinality(EP!Group(m_PointVector, label)) \in 1 .. UINT16 - 1
<1> DEFINE S == DOMAIN m_PointVector
           G == EP!Group(m_PointVector, label)
           n == Len(m_PointVector)
<1>1. S = 1 .. n /\ n \in Nat /\ NumMeans \in Nat /\ UINT16 \in Nat
  BY EngineData
<1>2. IsFiniteSet(S) /\ Cardinality(S) = n
  <2> HIDE DEF n, S
  <2>1. IsFiniteSet(1 .. n) /\ Cardinality(1 .. n) = IF 1 > n THEN 0 ELSE n - 1 + 1
    BY <1>1, FS_Interval
  <2>2. (IF 1 > n THEN 0 ELSE n - 1 + 1) = n
    BY <1>1
  <2> QED
    BY <1>1, <2>1, <2>2, Zenon
<1>3. G \subseteq S /\ G # {}
  BY DEF EP!Group, Divided
<1> HIDE DEF G, S
<1>4. /\ IsFiniteSet(G) /\ Cardinality(G) \in Nat /\ Cardinality(G) <= n
      /\ Cardinality(G) = n => G = S
  BY <1>2, <1>3, FS_Subset, FS_CardinalityType
<1>5. Cardinality(G) # 0
  BY <1>3, <1>4, FS_EmptySet
<1>6. n = UINT16 => G # S
  <2> SUFFICES ASSUME n = UINT16, G = S PROVE FALSE
    OBVIOUS
  <2>1. NumMeans > 1
    BY <1>1 DEF GroupsFit
  <2>2. PICK other \in EP!Labels : other # label
    <3>1. 0 \in EP!Labels /\ 1 \in EP!Labels
      BY <1>1, <2>1 DEF EP!Labels
    <3> QED
      BY <3>1
  <2>3. PICK i \in S : m_PointVector[i].mean = other
    BY DEF Divided, EP!Group, S
  <2>4. i \in G
    BY <2>3
  <2> QED
    BY <2>2, <2>3, <2>4 DEF G, EP!Group
<1>7. Cardinality(G) \in 1 .. UINT16 - 1
  <2>1. n <= UINT16
    BY <1>1 DEF GroupsFit
  <2>2. n # UINT16 \/ Cardinality(G) # n
    BY <1>4, <1>6
  <2> HIDE DEF n
  <2> QED
    BY <1>1, <1>4, <1>5, <2>1, <2>2
<1>8. EP!Cardinality(G) = Cardinality(G)
  BY Zenon DEF EP!Cardinality, Cardinality
<1> QED
  BY <1>7, <1>8 DEF G

(* One turn of mUpdateMeans: the group has points, so its average has a    *)
(* position, and with one coordinate per type or fewer.                    *)
LEMMA NumberUpdate ==
  ASSUME LearnerInv, GrowInv, GroupsFit, NumMeans # NUMTYPES, NumberInv, EP!UpdateMean
  PROVE  NumberInv'
<1> DEFINE label == mean - 1
           e == EP!Average(m_PointVector, label)
<1>1. EP!EngineInv /\ Divided
  BY DEF LearnerInv, NumberInv, EP!UpdateMean
<1>2. /\ worker = "update" /\ m_Initialised /\ mean \in 1 .. NumMeans
      /\ Len(m_CurrentMeans) = NumMeans
  BY <1>1, EngineData DEF EP!UpdateMean, EP!EngineInv, EP!SharedInv, EP!MeansInv
<1>3. NumMeans \in Nat \ {0} /\ UINT16 \in Nat \ {0} /\ NUMTYPES \in Nat
  BY <1>1, EngineData
<1>4. DOMAIN m_CurrentMeans = 1 .. NumMeans /\ label \in EP!Labels /\ m_CurrentMeans[mean].label = label
  <2>1. /\ DOMAIN m_CurrentMeans = 1 .. Len(m_CurrentMeans)
        /\ \A j \in DOMAIN m_CurrentMeans : m_CurrentMeans[j].label = j - 1
    BY <1>1, EngineData
  <2>2. m_CurrentMeans[mean].label = mean - 1
    BY <1>2, <2>1
  <2>3. mean - 1 \in EP!Labels
    BY <1>2, <1>3 DEF EP!Labels
  <2> QED
    BY <1>2, <2>1, <2>2, <2>3
<1>5. /\ EP!Averageable(m_PointVector, label)
      /\ m_CurrentMeans' = [m_CurrentMeans EXCEPT ![mean] = e]
      /\ mean' = mean + 1 /\ UNCHANGED <<m_PointVector, m_Initialised>>
      /\ worker' \in {"tail", "update"} /\ (mean < NumMeans => worker' = "update")
  BY <1>2, <1>3, <1>4 DEF EP!UpdateMean
<1>6. NumMeans < NUMTYPES
  <2>1. PICK i \in DOMAIN m_PointVector : i \in EP!Group(m_PointVector, label)
    BY <1>1, <1>4 DEF Divided, EP!Group
  <2>2. DOMAIN m_PointVector[i].vec = 1 .. NUMTYPES
    BY <1>1, EngineData DEF Analyses
  <2>3. 1 .. NumMeans \subseteq 1 .. NUMTYPES
    BY <1>5, <2>1, <2>2 DEF EP!Averageable
  <2>4. NumMeans \in 1 .. NUMTYPES
    BY <1>3, <2>3
  <2> QED
    BY <1>3, <2>4
<1>7. e.n # 0 /\ DOMAIN e.sum = 1 .. NumMeans
  <2> DEFINE c == EP!Cardinality(EP!Group(m_PointVector, label))
  <2>1. c \in 1 .. UINT16 - 1
    BY <1>1, <1>4, GroupSizes
  <2>2. e.n = c % UINT16 /\ DOMAIN e.sum = 1 .. NumMeans
    BY DEF EP!Average
  <2> HIDE DEF c, e
  <2>3. c % UINT16 = c
    BY <1>3, <2>1
  <2> QED
    BY <2>1, <2>2, <2>3
<1> HIDE DEF e
<1>8. \A j \in 1 .. NumMeans :
        m_CurrentMeans'[j] = IF j = mean THEN e ELSE m_CurrentMeans[j]
  BY <1>4, <1>5
<1>9. DOMAIN m_CurrentMeans' = 1 .. NumMeans
  BY <1>4, <1>5
<1>10. \A j \in 1 .. NumMeans : m_CurrentMeans'[j].n # 0
  BY <1>4, <1>7, <1>8 DEF NumberInv
<1>11. \A j \in 1 .. NumMeans : Averaged' \/ j < mean' => DOMAIN m_CurrentMeans'[j].sum = 1 .. NumMeans
  <2> SUFFICES ASSUME NEW j \in 1 .. NumMeans, Averaged' \/ j < mean'
               PROVE  DOMAIN m_CurrentMeans'[j].sum = 1 .. NumMeans
    OBVIOUS
  <2>1. j <= mean
    BY <1>2, <1>3, <1>5 DEF Averaged
  <2>2. CASE j = mean
    BY <1>7, <1>8, <2>2
  <2>3. CASE j < mean
    BY <1>1, <1>2, <1>3, <1>8, <2>3 DEF Divided
  <2> QED
    BY <1>2, <2>1, <2>2, <2>3
<1>12. \A l \in EP!Labels : EP!Group(m_PointVector', l) # {}
  BY <1>1, <1>5 DEF Divided
<1>13. Divided'
  BY <1>2, <1>5, <1>6, <1>11, <1>12 DEF Divided
<1> QED
  BY <1>9, <1>10, <1>13 DEF NumberInv

(* A new point changes no mean and no group but the one of label 0.        *)
LEMMA NumberStore ==
  ASSUME EP!EngineInv, NumberInv, EP!SubmitStore(IoThread, decoded)
  PROVE  NumberInv'
<1>1. PICK p : m_PointVector' = Append(m_PointVector, p)
  BY DEF EP!SubmitStore
<1>2. UNCHANGED <<m_CurrentMeans, m_Initialised, worker, mean>>
  BY DEF EP!SubmitStore, EP!locals
<1>3. \A i \in DOMAIN m_PointVector : i \in DOMAIN m_PointVector' /\ m_PointVector'[i] = m_PointVector[i]
  BY <1>1, EngineData
<1>4. Untouched => Untouched'
  BY <1>2, <1>3 DEF Untouched
<1>5. \A label : EP!Group(m_PointVector, label) \subseteq EP!Group(m_PointVector', label)
  BY <1>3 DEF EP!Group
<1>6. Divided => Divided'
  BY <1>2, <1>5 DEF Divided, Averaged
<1> QED
  BY <1>2, <1>4, <1>6 DEF NumberInv

\* Every step leaves every mean a number.
LEMMA NumberStep ==
  ASSUME NonEmptyPackets, GroupsFit, NumMeans # NUMTYPES, LearnerInv, GrowInv, NumberInv, [Next]_vars
  PROVE  NumberInv'
<1> USE DEF Averaged
<1>1. EP!EngineInv /\ submitter \in [{IoThread} -> {"idle", "locked", "notify"}]
  BY EngineTypes DEF LearnerInv
<1>2. CASE EP!Shuffle
  <2>1. /\ worker = "examine" /\ ~m_Initialised /\ worker' = "emplace" /\ m_CurrentMeans' = m_CurrentMeans
    BY <1>2 DEF EP!Shuffle
  <2>2. Len(m_CurrentMeans) = 0
    BY <1>1, <2>1 DEF EP!EngineInv, EP!SharedInv, EP!MeansInv
  <2>3. DOMAIN m_CurrentMeans' = {}
    BY <1>1, <2>1, <2>2, EngineData
  <2> QED
    BY <2>1, <2>3 DEF NumberInv, Untouched
<1>3. CASE EP!EmplaceMean
  BY <1>1, <1>3, NumberEmplace
<1>4. CASE EP!mAssignAll
  BY <1>4, NumberAssign
<1>5. CASE EP!UpdateMean
  BY <1>5, NumberUpdate
<1>6. CASE \/ EP!WorkerStart \/ EP!WorkerLoop \/ EP!WorkerLock \/ EP!WorkerWait
           \/ EP!WorkerReadSize \/ EP!UpdateThrows \/ EP!NothingToDo \/ EP!WorkerTail
           \/ EP!SpuriousWakeup
  <2>1. UNCHANGED <<m_PointVector, m_CurrentMeans, m_Initialised, mean>>
    BY <1>6 DEF EP!WorkerStart, EP!WorkerLoop, EP!WorkerLock, EP!WorkerWait, EP!WorkerReadSize,
       EP!UpdateThrows, EP!NothingToDo, EP!WorkerTail, EP!SpuriousWakeup, EP!engine, EP!locals
  <2>2. (Averaged' <=> Averaged) /\ (worker' = "update" => worker = "update")
    BY <1>6 DEF EP!WorkerStart, EP!WorkerLoop, EP!WorkerLock, EP!WorkerWait, EP!WorkerReadSize,
       EP!UpdateThrows, EP!NothingToDo, EP!WorkerTail, EP!SpuriousWakeup
  <2> QED
    BY <2>1, <2>2, NumberFrame
<1>7. CASE EP!WorkerStep \/ EP!SpuriousWakeup
  BY <1>2, <1>3, <1>4, <1>5, <1>6, <1>7, Zenon DEF EP!WorkerStep
<1>8. CASE HandlePacket \/ Forward \/ StopService \/ JoinService \/ UNCHANGED <<engine, network>>
  <2>1. UNCHANGED <<m_PointVector, m_CurrentMeans, m_Initialised, mean, worker>>
    BY <1>8 DEF HandlePacket, Forward, StopService, JoinService, engine
  <2> QED
    BY <2>1, NumberFrame
<1>9. CASE EP!SubmitStore(IoThread, decoded)
  BY <1>1, <1>9, NumberStore
<1>10. CASE \/ EP!SubmitLock(IoThread) \/ EP!SubmitNotify(IoThread)
            \/ EP!StopUnderMutex \/ EP!Join
  <2>1. UNCHANGED <<m_PointVector, m_CurrentMeans, m_Initialised, mean>>
    BY <1>10 DEF EP!SubmitLock, EP!SubmitNotify, EP!StopUnderMutex, EP!Join, EP!engine, EP!locals
  <2>2. (Averaged' <=> Averaged) /\ (worker' = "update" => worker = "update")
    BY <1>10 DEF EP!SubmitLock, EP!SubmitNotify, EP!StopUnderMutex, EP!Join, EP!Notified
  <2> QED
    BY <2>1, <2>2, NumberFrame
<1> QED
  BY <1>7, <1>8, <1>9, <1>10, StepCases, Zenon

(* Once a counter is full, or there are more points than a uint16_t can    *)
(* count, it stays so.                                                     *)
LEMMA AbleBefore ==
  ASSUME LearnerInv, [Next]_vars, CountersFit', GroupsFit'
  PROVE  CountersFit /\ GroupsFit
<1>1. decoded \in Analyses /\ EP!EngineInv
  BY DEF LearnerInv, HandlerInv
<1>2. /\ m_PointVector \in Seq(EP!Points) /\ Len(m_PointVector) \in Nat
      /\ NumMeans \in Nat \ {0} /\ UINT16 \in Nat \ {0}
  BY <1>1, EngineData
<1>3. decoded' = decoded \/ \E packet \in Packets : decoded' = Added(decoded, packet)
  BY StepCases DEF HandlePacket, Forward, StopService, JoinService, network
<1>4. CountersFit
  <2>1. CASE decoded' = decoded
    BY <2>1 DEF CountersFit
  <2>2. ASSUME NEW packet \in Packets, decoded' = Added(decoded, packet)
        PROVE  CountersFit
    <3> SUFFICES ASSUME NEW type \in 1 .. NUMTYPES PROVE decoded[type] < FLOATMAX
      BY DEF CountersFit
    <3>1. decoded[type] \in Nat /\ packet[type] \in Nat
      BY <1>1, LearnerAssumption DEF Analyses
    <3>2. Counted(decoded[type] + packet[type]) < FLOATMAX
      BY <2>2 DEF CountersFit, Added
    <3> QED
      BY <3>1, <3>2, LearnerAssumption DEF Counted
  <2> QED
    BY <1>3, <2>1, <2>2
<1>5. Len(m_PointVector') \in Nat /\ Len(m_PointVector) <= Len(m_PointVector')
  <2>1. EP!EngineInv' /\ EP!EngineInv
    BY LearnerStep DEF LearnerInv
  <2>2. /\ Len(m_PointVector) = Len(submitted)
        /\ Len(m_PointVector') = Len(submitted') /\ Len(submitted') \in Nat
    <3>1. (EP!EngineInv => Len(m_PointVector) = Len(submitted) /\ Len(submitted) \in Nat)'
      BY EngineTypes, PTL
    <3> QED
      BY <2>1, <3>1, EngineTypes
  <2>3. submitted' = submitted \/ submitted' = Append(submitted, decoded)
    <3>1. ASSUME EP!SubmitLock(IoThread) \/ EP!SubmitNotify(IoThread) \/ EP!StopUnderMutex \/ EP!Join
          PROVE  submitted' = submitted
      BY <3>1 DEF EP!SubmitLock, EP!SubmitNotify, EP!StopUnderMutex, EP!Join
    <3>2. ASSUME EP!SubmitStore(IoThread, decoded)
          PROVE  submitted' = Append(submitted, decoded)
      BY <3>2 DEF EP!SubmitStore
    <3>3. ASSUME HandlePacket \/ Forward \/ StopService \/ JoinService \/ UNCHANGED <<engine, network>>
          PROVE  submitted' = submitted
      BY <3>3 DEF HandlePacket, Forward, StopService, JoinService, engine
    <3> QED
      BY StepCases, WorkerFrame, <3>1, <3>2, <3>3, Zenon
  <2>4. submitted \in Seq(Analyses)
    BY <2>1, EngineTypes
  <2>5. Len(submitted') \in {Len(submitted), Len(submitted) + 1} /\ Len(submitted) \in Nat
    BY <1>1, <2>3, <2>4
  <2> QED
    BY <2>2, <2>5
<1>6. GroupsFit
  <2> DEFINE n == Len(m_PointVector)
             m == Len(m_PointVector')
  <2>1. m < UINT16 \/ (m = UINT16 /\ NumMeans > 1)
    BY DEF GroupsFit
  <2>2. n \in Nat /\ m \in Nat /\ n <= m
    BY <1>2, <1>5
  <2> HIDE DEF n, m
  <2>3. n < UINT16 \/ (n = UINT16 /\ NumMeans > 1)
    BY <1>2, <2>1, <2>2
  <2> QED
    BY <2>3 DEF n, GroupsFit
<1> QED
  BY <1>4, <1>6

(* Whatever the packets and the interleaving, no mean of a learner that is *)
(* not asked for as many means as there are types becomes 0/0, as long as  *)
(* every packet has a byte, no float has counted to its end and a group's  *)
(* size fits its uint16_t.                                                 *)
THEOREM MeansKeepPosition == Spec => []MeansStayNumbers
<1> DEFINE Able == NonEmptyPackets /\ CountersFit /\ GroupsFit /\ NumMeans # NUMTYPES
           Inv == Able => GrowInv /\ NumberInv
<1>1. Init => Inv
  <2> SUFFICES ASSUME Init PROVE GrowInv /\ NumberInv
    OBVIOUS
  <2>1. /\ Len(submitted) = 0 /\ DOMAIN m_CurrentMeans = {} /\ handler = "idle"
        /\ worker = "start"
    BY SameInit DEF Init, EP!Init
  <2> QED
    BY <2>1 DEF GrowInv, NumberInv, Untouched
<1>2. LearnerInv /\ Inv /\ [Next]_vars => Inv'
  <2> SUFFICES ASSUME LearnerInv, Inv, [Next]_vars, Able' PROVE (GrowInv /\ NumberInv)'
    OBVIOUS
  <2>1. NonEmptyPackets /\ NumMeans # NUMTYPES
    BY DEF NonEmptyPackets
  <2>2. CountersFit /\ GroupsFit
    BY AbleBefore
  <2> QED
    BY <2>1, <2>2, GrowStep, NumberStep
<1>3. LearnerInv /\ Inv => MeansStayNumbers
  BY Zenon DEF MeansStayNumbers, NumberInv, Engine!MeansAreNumbers, Engine!IsNumber
<1>4. Spec => []LearnerInv
  BY LearnerAlways
<1> HIDE DEF Inv
<1> QED
  BY <1>1, <1>2, <1>3, <1>4, PTL DEF Spec

=============================================================================

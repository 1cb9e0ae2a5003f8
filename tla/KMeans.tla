------------------------------- MODULE KMeans -------------------------------
(***************************************************************************)
(* The clustering engine with its worker thread: KMeans<T> of              *)
(* include/KMeans.hpp.  Threads call mSubmit; the worker runs              *)
(* mPeriodicThreadFunction; the owner, who launched the worker when it     *)
(* built the engine, calls mStopPeriodicClusteringAndAssignationThread.    *)
(* Everything that takes m_MainMutex or looks at shared state without it   *)
(* is a step of its own.  The means are written one per step, because      *)
(* mGetCurrentMeans and mExtract read without the mutex.                   *)
(***************************************************************************)
EXTENDS Clustering, Functions

CONSTANTS
  Submitters,  \* the threads that call mSubmit
  Vectors,     \* the analyses they submit
  MaxSubmits,  \* bound on the submissions
  Worker,      \* the worker thread, as holder of the mutex
  Nobody       \* the mutex is free

ASSUME KMeansAssumption ==
  /\ MaxSubmits \in Nat
  /\ Worker \notin Submitters
  /\ Nobody \notin Submitters \cup {Worker}

VARIABLES
  m_PointVector,         \* std::vector<DataPoint>
  m_PointIndex,          \* index of the next point, a uint16_t
  m_CurrentMeans,        \* std::vector<MeanPoint>
  m_Initialised,
  m_NewSubmissionReady,  \* the predicate of m_ConditionVariable
  m_StopThread,
  m_MainMutex,           \* its holder
  worker,                \* where the worker is in mPeriodicThreadFunction
  oldNumberPointsInVector, currentSize,  \* its local variables
  mean,                  \* the mean its loop is at
  submitter,             \* where each submitter is in mSubmit
  owner,                 \* where the owner is in mStop...
  submitted,             \* history: the vectors, in the order they were stored
  startSize              \* history: the first value of oldNumberPointsInVector

engine == <<m_PointVector, m_PointIndex, m_CurrentMeans, m_Initialised>>
locals == <<oldNumberPointsInVector, currentSize, mean, startSize>>
others == <<submitter, owner, submitted>>
vars == <<engine, m_NewSubmissionReady, m_StopThread, m_MainMutex, worker, locals, others>>

Init ==
  /\ m_PointVector = <<>>
  /\ m_PointIndex = 0
  /\ m_CurrentMeans = <<>>
  /\ m_Initialised = FALSE
  /\ m_NewSubmissionReady = FALSE
  /\ m_StopThread = FALSE
  /\ m_MainMutex = Nobody
  /\ worker = "start"
  /\ oldNumberPointsInVector = 0
  /\ currentSize = 0
  /\ mean = 1
  /\ submitter = [s \in Submitters |-> "idle"]
  /\ owner = "running"
  /\ submitted = <<>>
  /\ startSize = 0

-----------------------------------------------------------------------------
(* mPeriodicThreadFunction.                                                *)

\* m_PointVector.size() without the mutex: while a submitter is inside emplace_back
\* the read is a data race, and any number may come out (bounded here).
SizeReads ==
  IF m_MainMutex \in Submitters THEN 0 .. MaxSubmits + 1 ELSE {Len(m_PointVector)}

WorkerStart ==
  /\ worker = "start"
  /\ \E size \in SizeReads :
       /\ oldNumberPointsInVector' = size
       /\ startSize' = size
  /\ worker' = "loop"
  /\ UNCHANGED <<engine, m_NewSubmissionReady, m_StopThread, m_MainMutex, currentSize, mean, others>>

\* Mutant: m_NewSubmissionReady is reset here, after the unlock, and not in the tail.
WorkerLoop_ResetsFlag ==
  /\ worker = "loop"
  /\ worker' = IF m_StopThread THEN "done" ELSE "lock"
  /\ m_NewSubmissionReady' = (m_StopThread /\ m_NewSubmissionReady)
  /\ UNCHANGED <<engine, m_StopThread, m_MainMutex, locals, others>>

\* while(!m_StopThread), outside the mutex
WorkerLoop ==
  /\ worker = "loop"
  /\ worker' = IF m_StopThread THEN "done" ELSE "lock"
  /\ UNCHANGED <<engine, m_NewSubmissionReady, m_StopThread, m_MainMutex, locals, others>>

\* The unique_lock, and the end of a wait, which takes the mutex again.
WorkerLock ==
  /\ worker = "lock"
  /\ m_MainMutex = Nobody
  /\ m_MainMutex' = Worker
  /\ worker' = "check"
  /\ UNCHANGED <<engine, m_NewSubmissionReady, m_StopThread, locals, others>>

WorkerWait ==
  /\ worker = "check"
  /\ ~m_NewSubmissionReady
  /\ m_MainMutex' = Nobody
  /\ worker' = "waiting"
  /\ UNCHANGED <<engine, m_NewSubmissionReady, m_StopThread, locals, others>>

SpuriousWakeup ==
  /\ worker = "waiting"
  /\ worker' = "lock"
  /\ UNCHANGED <<engine, m_NewSubmissionReady, m_StopThread, m_MainMutex, locals, others>>

WorkerReadSize ==
  /\ worker = "check"
  /\ m_NewSubmissionReady
  /\ currentSize' = Len(m_PointVector)
  /\ worker' = "examine"
  /\ UNCHANGED <<engine, m_NewSubmissionReady, m_StopThread, m_MainMutex,
                 oldNumberPointsInVector, mean, startSize, others>>

\* Mutant: every round works.
NewPoints_OrNone == currentSize >= oldNumberPointsInVector

NewPoints == currentSize # oldNumberPointsInVector

\* Mutant: points are drawn with replacement.
Shuffle_WithReplacement ==
  /\ worker = "examine"
  /\ NewPoints /\ ~m_Initialised /\ currentSize >= NumMeans
  /\ \E draw \in [DOMAIN m_PointVector -> DOMAIN m_PointVector] :
       m_PointVector' = [i \in DOMAIN m_PointVector |-> m_PointVector[draw[i]]]
  /\ mean' = 1
  /\ worker' = "emplace"
  /\ UNCHANGED <<m_PointIndex, m_CurrentMeans, m_Initialised, m_NewSubmissionReady, m_StopThread,
                 m_MainMutex, oldNumberPointsInVector, currentSize, startSize, others>>

\* mInitialise up to the shuffle
Shuffle ==
  /\ worker = "examine"
  /\ NewPoints /\ ~m_Initialised /\ currentSize >= NumMeans
  /\ \E shuffle \in Bijection(DOMAIN m_PointVector, DOMAIN m_PointVector) :
       m_PointVector' = [i \in DOMAIN m_PointVector |-> m_PointVector[shuffle[i]]]
  /\ mean' = 1
  /\ worker' = "emplace"
  /\ UNCHANGED <<m_PointIndex, m_CurrentMeans, m_Initialised, m_NewSubmissionReady, m_StopThread,
                 m_MainMutex, oldNumberPointsInVector, currentSize, startSize, others>>

\* Mutant: m_Initialised is never set.
EmplaceMean_NoFlag ==
  /\ worker = "emplace"
  /\ m_CurrentMeans' = Append(m_CurrentMeans, MeanPoint(mean - 1, m_PointVector[mean].vec))
  /\ mean' = mean + 1
  /\ worker' = IF mean = NumMeans THEN "tail" ELSE "emplace"
  /\ UNCHANGED <<m_PointVector, m_PointIndex, m_Initialised, m_NewSubmissionReady, m_StopThread,
                 m_MainMutex, oldNumberPointsInVector, currentSize, startSize, others>>

\* one turn of the loop of mInitialise
EmplaceMean ==
  /\ worker = "emplace"
  /\ m_CurrentMeans' = Append(m_CurrentMeans, MeanPoint(mean - 1, m_PointVector[mean].vec))
  /\ mean' = mean + 1
  /\ m_Initialised' = (mean = NumMeans)
  /\ worker' = IF mean = NumMeans THEN "tail" ELSE "emplace"
  /\ UNCHANGED <<m_PointVector, m_PointIndex, m_NewSubmissionReady, m_StopThread, m_MainMutex,
                 oldNumberPointsInVector, currentSize, startSize, others>>

mAssignAll ==
  /\ worker = "examine"
  /\ NewPoints /\ m_Initialised /\ currentSize > NumMeans
  /\ m_PointVector' = Relabelled(m_PointVector, NearestLabels(m_PointVector, m_CurrentMeans))
  /\ mean' = 1
  /\ worker' = "update"
  /\ UNCHANGED <<m_PointIndex, m_CurrentMeans, m_Initialised, m_NewSubmissionReady, m_StopThread,
                 m_MainMutex, oldNumberPointsInVector, currentSize, startSize, others>>

\* one turn of the loop of mUpdateMeans
UpdateMean ==
  /\ worker = "update"
  /\ Averageable(m_PointVector, m_CurrentMeans[mean].label)
  /\ m_CurrentMeans' = [m_CurrentMeans EXCEPT
                          ![mean] = Average(m_PointVector, m_CurrentMeans[mean].label)]
  /\ mean' = mean + 1
  /\ worker' = IF mean = Len(m_CurrentMeans) THEN "tail" ELSE "update"
  /\ UNCHANGED <<m_PointVector, m_PointIndex, m_Initialised, m_NewSubmissionReady, m_StopThread,
                 m_MainMutex, oldNumberPointsInVector, currentSize, startSize, others>>

\* .at() throws outside the try block: std::terminate ends the process.  The mutex stays
\* with the worker, so that nobody else goes on.
UpdateThrows ==
  /\ worker = "update"
  /\ ~Averageable(m_PointVector, m_CurrentMeans[mean].label)
  /\ worker' = "terminated"
  /\ UNCHANGED <<engine, m_NewSubmissionReady, m_StopThread, m_MainMutex, locals, others>>

\* Mutant: > for >= in the condition of mInitialise.
NothingToDo_OneMore ==
  /\ worker = "examine"
  /\ ~NewPoints \/ currentSize <= NumMeans
  /\ worker' = "tail"
  /\ UNCHANGED <<engine, m_NewSubmissionReady, m_StopThread, m_MainMutex, locals, others>>

NothingToDo ==
  /\ worker = "examine"
  /\ \/ ~NewPoints
     \/ ~m_Initialised /\ currentSize < NumMeans
     \/ m_Initialised /\ currentSize <= NumMeans
  /\ worker' = "tail"
  /\ UNCHANGED <<engine, m_NewSubmissionReady, m_StopThread, m_MainMutex, locals, others>>

\* oldNumberPointsInVector = currentSize, the break or the reset of the flag, and the unlock
WorkerTail ==
  /\ worker = "tail"
  /\ oldNumberPointsInVector' = currentSize
  /\ m_NewSubmissionReady' = (m_StopThread /\ m_NewSubmissionReady)
  /\ m_MainMutex' = Nobody
  /\ worker' = IF m_StopThread THEN "done" ELSE "loop"
  /\ UNCHANGED <<engine, m_StopThread, currentSize, mean, startSize, others>>

WorkerStep ==
  \/ WorkerStart \/ WorkerLoop \/ WorkerLock \/ WorkerWait \/ WorkerReadSize
  \/ Shuffle \/ EmplaceMean \/ mAssignAll \/ UpdateMean \/ UpdateThrows
  \/ NothingToDo \/ WorkerTail

-----------------------------------------------------------------------------
(* mSubmit.  An engine that has been joined is on its way to its           *)
(* destructor and gets no more submissions.                                *)

Notified == worker' = IF worker = "waiting" THEN "lock" ELSE worker

\* Mutant: the mutex is not waited for.
SubmitLock_NoMutex(s) ==
  /\ submitter[s] = "idle"
  /\ owner # "joined"
  /\ Len(submitted) < MaxSubmits
  /\ m_MainMutex' = s
  /\ submitter' = [submitter EXCEPT ![s] = "locked"]
  /\ UNCHANGED <<engine, m_NewSubmissionReady, m_StopThread, worker, locals, owner, submitted>>

SubmitLock(s) ==
  /\ submitter[s] = "idle"
  /\ owner # "joined"
  /\ Len(submitted) < MaxSubmits
  /\ m_MainMutex = Nobody
  /\ m_MainMutex' = s
  /\ submitter' = [submitter EXCEPT ![s] = "locked"]
  /\ UNCHANGED <<engine, m_NewSubmissionReady, m_StopThread, worker, locals, owner, submitted>>

\* Mutant: the index does not wrap.
SubmitStore_WideIndex(s, vec) ==
  /\ submitter[s] = "locked"
  /\ m_PointVector' = Append(m_PointVector, DataPoint(vec, m_PointIndex))
  /\ m_PointIndex' = m_PointIndex + 1
  /\ m_NewSubmissionReady' = TRUE
  /\ m_MainMutex' = Nobody
  /\ submitter' = [submitter EXCEPT ![s] = "notify"]
  /\ submitted' = Append(submitted, vec)
  /\ UNCHANGED <<m_CurrentMeans, m_Initialised, m_StopThread, worker, locals, owner>>

\* Mutant: no notify_all follows.
SubmitStore_Silent(s, vec) ==
  /\ submitter[s] = "locked"
  /\ m_PointVector' = Append(m_PointVector, DataPoint(vec, m_PointIndex))
  /\ m_PointIndex' = (m_PointIndex + 1) % UINT16
  /\ m_NewSubmissionReady' = TRUE
  /\ m_MainMutex' = Nobody
  /\ submitter' = [submitter EXCEPT ![s] = "idle"]
  /\ submitted' = Append(submitted, vec)
  /\ UNCHANGED <<m_CurrentMeans, m_Initialised, m_StopThread, worker, locals, owner>>

SubmitStore(s, vec) ==
  /\ submitter[s] = "locked"
  /\ m_PointVector' = Append(m_PointVector, DataPoint(vec, m_PointIndex))
  /\ m_PointIndex' = (m_PointIndex + 1) % UINT16
  /\ m_NewSubmissionReady' = TRUE
  /\ m_MainMutex' = Nobody
  /\ submitter' = [submitter EXCEPT ![s] = "notify"]
  /\ submitted' = Append(submitted, vec)
  /\ UNCHANGED <<m_CurrentMeans, m_Initialised, m_StopThread, worker, locals, owner>>

\* notify_all, after the unlock
SubmitNotify(s) ==
  /\ submitter[s] = "notify"
  /\ worker # "terminated"
  /\ Notified
  /\ submitter' = [submitter EXCEPT ![s] = "idle"]
  /\ UNCHANGED <<engine, m_NewSubmissionReady, m_StopThread, m_MainMutex, locals, owner, submitted>>

SubmitStep(s) == (\E vec \in Vectors : SubmitStore(s, vec)) \/ SubmitNotify(s)

-----------------------------------------------------------------------------
(* mStopPeriodicClusteringAndAssignationThread, from the owner.            *)

\* Mutant: m_NewSubmissionReady is not set, so the worker waits again.
StopUnderMutex_NoFlag ==
  /\ owner = "running"
  /\ m_MainMutex = Nobody
  /\ m_StopThread' = TRUE
  /\ Notified
  /\ owner' = "joining"
  /\ UNCHANGED <<engine, m_NewSubmissionReady, m_MainMutex, locals, submitter, submitted>>

StopUnderMutex ==
  /\ owner = "running"
  /\ m_MainMutex = Nobody
  /\ m_NewSubmissionReady' = TRUE
  /\ m_StopThread' = TRUE
  /\ Notified
  /\ owner' = "joining"
  /\ UNCHANGED <<engine, m_MainMutex, locals, submitter, submitted>>

Join ==
  /\ owner = "joining"
  /\ worker = "done"
  /\ owner' = "joined"
  /\ UNCHANGED <<engine, m_NewSubmissionReady, m_StopThread, m_MainMutex, worker, locals,
                 submitter, submitted>>

-----------------------------------------------------------------------------
\* The process has ended, or the engine has stopped and nobody is inside mSubmit.
Ended ==
  \/ worker = "terminated"
  \/ owner = "joined" /\ \A s \in Submitters : submitter[s] = "idle"

Next ==
  \/ WorkerStep
  \/ SpuriousWakeup
  \/ \E s \in Submitters : SubmitLock(s) \/ SubmitStep(s)
  \/ StopUnderMutex
  \/ Join
  \/ Ended /\ UNCHANGED vars

Spec == Init /\ [][Next]_vars

(* The operating system schedules the threads, a call of mSubmit that has  *)
(* begun goes on, and so does the destructor.  Nothing makes a caller      *)
(* submit or stop, and no spurious wakeup is promised.                     *)
Fairness ==
  /\ WF_vars(WorkerStep)
  /\ \A s \in Submitters : WF_vars(SubmitStep(s))
  /\ WF_vars(Join)

FairSpec == Spec /\ Fairness

-----------------------------------------------------------------------------
InCriticalSection == worker \in {"check", "examine", "emplace", "update", "tail"}

Points == [mean : Labels, vec : Vectors, index : 0 .. UINT16 - 1]

(* Types of the engine's state and of every thread's program counter.      *)
TypeOK ==
  /\ m_PointVector \in Seq(Points)
  /\ m_PointIndex \in 0 .. UINT16 - 1
  /\ m_CurrentMeans \in Seq(Range(m_CurrentMeans))
  /\ \A j \in DOMAIN m_CurrentMeans :
       m_CurrentMeans[j].label \in Labels /\ m_CurrentMeans[j].n \in 0 .. UINT16
  /\ m_Initialised \in BOOLEAN
  /\ m_NewSubmissionReady \in BOOLEAN
  /\ m_StopThread \in BOOLEAN
  /\ m_MainMutex \in Submitters \cup {Worker, Nobody}
  /\ worker \in {"start", "loop", "lock", "check", "waiting", "examine", "emplace", "update",
                 "tail", "done", "terminated"}
  /\ oldNumberPointsInVector \in Nat
  /\ currentSize \in Nat
  /\ mean \in 1 .. NumMeans + 1
  /\ submitter \in [Submitters -> {"idle", "locked", "notify"}]
  /\ owner \in {"running", "joining", "joined"}
  /\ submitted \in Seq(Vectors)
  /\ startSize \in Nat

(* The size the worker read at L102 stays the size of the vector for as    *)
(* long as it uses it: nobody appends under the iterators of mAssignAll,   *)
(* mUpdateMeans and mInitialise.                                           *)
SnapshotStable ==
  worker \in {"examine", "emplace", "update", "tail"} => Len(m_PointVector) = currentSize

(* Whoever holds the mutex finds all the means or none: NumMeans of them,  *)
(* in the order of their labels, exactly when m_Initialised.               *)
MeansComplete ==
  m_MainMutex # Worker =>
    /\ Len(m_CurrentMeans) = IF m_Initialised THEN NumMeans ELSE 0
    /\ \A j \in DOMAIN m_CurrentMeans : m_CurrentMeans[j].label = j - 1

(* What mExtract relies on: the shuffle and the relabelling lose nothing,  *)
(* and while the uint16_t index has not wrapped it identifies one point,   *)
(* the one that was submitted under it.                                    *)
IndexIdentifiesSubmission ==
  Len(submitted) <= UINT16 =>
    \A k \in DOMAIN submitted :
      /\ \E i \in DOMAIN m_PointVector : m_PointVector[i].index = k - 1
      /\ \A i \in DOMAIN m_PointVector :
           m_PointVector[i].index = k - 1 =>
             /\ m_PointVector[i].vec = submitted[k]
             /\ \A j \in DOMAIN m_PointVector : m_PointVector[j].index = k - 1 => j = i

(* No lost wakeup: when the worker waits although a submission is ready,   *)
(* a submitter that stored one has yet to call notify_all.                 *)
NoLostWakeup ==
  worker = "waiting" /\ m_NewSubmissionReady => \E s \in Submitters : submitter[s] = "notify"

(* A stop is not missed, wherever it meets the worker: from then on the    *)
(* worker never waits for a notification again, and for the mutex only     *)
(* while a submitter inside mSubmit, which unlocks, holds it.              *)
StopIsHeard ==
  m_StopThread =>
    /\ worker # "waiting"
    /\ worker = "lock" => m_MainMutex \in {Nobody} \cup {s \in Submitters : submitter[s] = "locked"}

(* The flag may be reset, and the worker wait, only when the number of     *)
(* points is the one it has dealt with.                                    *)
NothingUnseenAtRest ==
  worker = "waiting" /\ ~m_NewSubmissionReady /\ m_MainMutex = Nobody =>
    Len(m_PointVector) = oldNumberPointsInVector

(* A worker that has dealt with enough points has initialised the engine,  *)
(* unless the number is the one it found when it started.                  *)
SeenEnoughInitialised ==
  worker \in {"loop", "lock", "check", "waiting"} /\ oldNumberPointsInVector >= NumMeans
    => m_Initialised \/ oldNumberPointsInVector = startSize

(* What src/CUdpProtocolLearnerTests.cpp:507 expects: with NumMeans points *)
(* in it and nothing left to do, the engine has been initialised in the    *)
(* background.                                                             *)
AtRest ==
  /\ worker = "waiting"
  /\ ~m_NewSubmissionReady
  /\ \A s \in Submitters : submitter[s] = "idle"

InitialisedAtRest == AtRest /\ Len(m_PointVector) >= NumMeans => m_Initialised

(* mAssignAll leaves every point with a mean none is nearer than, the one  *)
(* with the lowest label of the nearest, also when some means are NaN.     *)
AssignedToNearest ==
  worker = "update" /\ mean = 1 =>
    \A i \in DOMAIN m_PointVector :
      LET p == m_PointVector[i]
          own == m_CurrentMeans[p.mean + 1]
      IN  \A j \in DOMAIN m_CurrentMeans :
            /\ Assignable(p, m_CurrentMeans)
            /\ ~Nearer(p.vec, m_CurrentMeans[j], own)
            /\ j < p.mean + 1 /\ IsNumber(m_CurrentMeans[1])
                 => Nearer(p.vec, own, m_CurrentMeans[j]) \/ ~IsNumber(m_CurrentMeans[j])

(* The worker never dies of an exception when every submitted vector has   *)
(* at least the m_NumArgs coordinates that the averages are built with.    *)
WideVectors == \A vec \in Vectors : 1 .. NumArgs \subseteq DOMAIN vec

NoAbort == WideVectors => worker # "terminated"

(* Every mean is the average of its group, as the comment on mUpdateMeans  *)
(* says: its coordinates are numbers.                                      *)
MeansAreNumbers ==
  m_MainMutex # Worker => \A j \in DOMAIN m_CurrentMeans : IsNumber(m_CurrentMeans[j])

-----------------------------------------------------------------------------
Over == m_StopThread \/ worker = "terminated"

(* Stopping ends: join() returns, however the stop meets the worker.       *)
StopJoins == owner = "joining" ~> owner = "joined" \/ worker = "terminated"

(* Every submission is dealt with: the worker comes to rest having seen    *)
(* all the points, or the engine is stopped.                               *)
EverySubmissionSeen ==
  Len(m_PointVector) # oldNumberPointsInVector ~>
    (worker = "waiting" /\ Len(m_PointVector) = oldNumberPointsInVector) \/ Over

-----------------------------------------------------------------------------
\* Where the worker is, for those who see neither the mutex nor the flags.
Thread ==
  CASE worker = "start" -> "launched"
    [] worker = "done" -> "ended"
    [] worker = "terminated" -> "dead"
    [] OTHER -> "looping"

Promised ==
  INSTANCE LearningEngine
    WITH points <- submitted, seen <- oldNumberPointsInVector, initialised <- m_Initialised,
         thread <- Thread, Analyses <- Vectors, Needed <- NumMeans, Sizes <- 0 .. MaxSubmits + 1

(* Whatever the threads interleave, users see LearningEngine: atomic       *)
(* rounds, submissions in order, a first round that initialises.           *)
ImplementsEngine == Promised!Spec

(* And every round, exit and join that LearningEngine promises happens.    *)
ImplementsFairEngine == Promised!FairSpec

=============================================================================

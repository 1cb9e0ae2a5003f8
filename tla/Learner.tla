------------------------------- MODULE Learner -------------------------------
(***************************************************************************)
(* The life of a CUdpProtocolLearner, from its constructor to its          *)
(* destructor: the engine of KMeans.tla with its worker, the handlers that *)
(* the service's thread runs, and the main thread, which stops the         *)
(* service, joins its thread, calls the getters and destroys the learner.  *)
(* The network is that of ProtocolLearner.tla; here a packet comes from    *)
(* either pair and goes on.                                                *)
(*                                                                         *)
(* An analysis is the number of bytes of each type, counted in floats, and *)
(* it counts all the packets so far: m_Decoded is never cleared.  Having   *)
(* one number per type it is never empty, so every packet within the quota *)
(* is submitted.  The learner builds the engine with the number of means   *)
(* as the number of coordinates.                                           *)
(***************************************************************************)
EXTENDS Integers, Sequences, FiniteSets

CONSTANTS
  NumMeans, UINT16, Worker, Nobody,  \* see KMeans
  IoThread,    \* the thread in io_service::run
  UINT32,      \* 2^32, where the counters of packets wrap
  FLOATMAX,    \* 2^24, where counting in a float ends; smaller in a run that reaches it
  NUMTYPES,    \* the types of bytes
  Packets,     \* the packets that may come, as the number of their bytes of each type
  MaxPackets,  \* bound on how many come
  m_MaxPacketsToObserve

Analyses == [1 .. NUMTYPES -> Nat]

ASSUME LearnerAssumption ==
  /\ Packets \subseteq Analyses
  /\ {NUMTYPES, MaxPackets} \subseteq Nat
  /\ {NumMeans, UINT16, UINT32, FLOATMAX} \subseteq Nat \ {0}
  /\ m_MaxPacketsToObserve \in 0 .. UINT32 - 1
  /\ IoThread # Worker /\ Nobody \notin {IoThread, Worker}

VARIABLES
  m_PointVector, m_PointIndex, m_CurrentMeans, m_Initialised, m_NewSubmissionReady, m_StopThread,
  m_MainMutex, worker, oldNumberPointsInVector, currentSize, mean, submitter, owner, submitted,
  startSize,   \* the engine and its threads
  decoded,     \* m_Decoded
  packetsSeen, \* the packets that both pairs together have counted in m_PacketsSeen
  handler,     \* where the service's thread is in handle_receive_from
  service      \* the main thread lets it run, has stopped it, or has joined its thread

engine ==
  <<m_PointVector, m_PointIndex, m_CurrentMeans, m_Initialised, m_NewSubmissionReady,
    m_StopThread, m_MainMutex, worker, oldNumberPointsInVector, currentSize, mean, submitter,
    owner, submitted, startSize>>
network == <<decoded, packetsSeen, handler, service>>
vars == <<engine, network>>

Engine ==
  INSTANCE KMeans
    WITH Submitters <- {IoThread}, Vectors <- Analyses, NumArgs <- NumMeans,
         MaxSubmits <- MaxPackets

Init ==
  /\ Engine!Init
  /\ decoded = [type \in 1 .. NUMTYPES |-> 0]
  /\ packetsSeen = 0
  /\ handler = "idle"
  /\ service = "running"

-----------------------------------------------------------------------------
\* std::terminate ends every thread.
Alive == worker # "terminated"

\* Mutant: every packet is analysed on its own.
Added_Fresh(analysis, packet) == packet

\* Adding 1 to a float of 2^24 leaves it as it is.
Counted(count) == IF count < FLOATMAX THEN count ELSE FLOATMAX

Added(analysis, packet) == [type \in 1 .. NUMTYPES |-> Counted(analysis[type] + packet[type])]

\* Mutant: < for <=.
WithinQuota_OneLess == packetsSeen' % UINT32 < m_MaxPacketsToObserve

\* The sum of the two pairs' counters, each of which wraps as the sum does.
WithinQuota == packetsSeen' % UINT32 <= m_MaxPacketsToObserve

\* handle_receive_from up to mSubmit
HandlePacket ==
  /\ Alive
  /\ service = "running" /\ handler = "idle"
  /\ packetsSeen < MaxPackets
  /\ packetsSeen' = packetsSeen + 1
  /\ \E packet \in Packets :
       IF WithinQuota
       THEN decoded' = Added(decoded, packet) /\ handler' = "submitting"
       ELSE decoded' = decoded /\ handler' = "forwarding"
  /\ UNCHANGED <<engine, service>>

Submit ==
  /\ Alive
  /\ handler = "submitting"
  /\ \/ Engine!SubmitLock(IoThread) /\ handler' = handler
     \/ Engine!SubmitStore(IoThread, decoded) /\ handler' = handler
     \/ Engine!SubmitNotify(IoThread) /\ handler' = "forwarding"
  /\ UNCHANGED <<decoded, packetsSeen, service>>

\* send_to and mStartReceive (a send_to that throws ends the process, see ProtocolLearner)
Forward ==
  /\ Alive
  /\ handler = "forwarding"
  /\ handler' = "idle"
  /\ UNCHANGED <<engine, decoded, packetsSeen, service>>

-----------------------------------------------------------------------------
StopService ==
  /\ Alive
  /\ service = "running"
  /\ service' = "stopped"
  /\ UNCHANGED <<engine, decoded, packetsSeen, handler>>

\* Mutant: the service's thread is not joined.
JoinService_NoWait ==
  /\ Alive
  /\ service = "stopped"
  /\ service' = "joined"
  /\ UNCHANGED <<engine, decoded, packetsSeen, handler>>

\* t.join(): the handler that runs is finished, and no other one is begun.
JoinService ==
  /\ Alive
  /\ service = "stopped" /\ handler = "idle"
  /\ service' = "joined"
  /\ UNCHANGED <<engine, decoded, packetsSeen, handler>>

\* ~CUdpProtocolLearner
Destroy ==
  /\ Alive
  /\ service = "joined"
  /\ Engine!StopUnderMutex \/ Engine!Join
  /\ UNCHANGED network

WorkerThread == Engine!WorkerStep /\ UNCHANGED network

ServiceThread == HandlePacket \/ Submit \/ Forward

Ended == owner = "joined" \/ ~Alive

Next ==
  \/ WorkerThread
  \/ Engine!SpuriousWakeup /\ UNCHANGED network
  \/ ServiceThread
  \/ StopService \/ JoinService \/ Destroy
  \/ Ended /\ UNCHANGED vars

Spec == Init /\ [][Next]_vars

(* The threads are scheduled, and the main thread, once it has stopped the *)
(* service, goes on to the end.  No packet must come.  Who waits for the   *)
(* mutex gets it if it becomes free again and again: the worker may take   *)
(* and leave it for ever, as often as it is woken up spuriously.           *)
FairSpec ==
  /\ Spec
  /\ WF_vars(WorkerThread)
  /\ SF_vars(Submit \/ Forward)
  /\ SF_vars(JoinService \/ Destroy)

-----------------------------------------------------------------------------
(* ~CUdpProtocolLearner stops an engine that nobody is submitting to:      *)
(* m_ConditionVariable, m_MainMutex and m_PointVector are not used by a    *)
(* handler while or after the members are destroyed.                       *)
DestroyedAlone ==
  owner # "running" => handler = "idle" /\ submitter[IoThread] = "idle" /\ m_MainMutex # IoThread

\* KMeans::mGetNumPoints returns a uint16_t.
mGetNumPoints == Len(m_PointVector) % UINT16

\* The packets, by number, that are observed: the first m_MaxPacketsToObserve of every 2^32,
\* and every 2^32-th.
Due == {k \in 1 .. packetsSeen : k % UINT32 <= m_MaxPacketsToObserve}

(* What mGetNumberPacketsInLearningEngine returns after a handler is the   *)
(* number of packets seen, up to the quota, although the worker shuffles   *)
(* and relabels the points meanwhile; modulo 2^16, so 0 for a quota of     *)
(* 65536 that has been reached.  Once 2^32 packets have been seen and the  *)
(* counters wrap, it goes on from there by the quota again, and one more.  *)
ReportsPacketsUpToQuota ==
  Alive /\ handler = "idle" => mGetNumPoints = Cardinality(Due) % UINT16

\* Analyses that count all packets so far differ, unless a packet had no byte.
NonEmptyPackets == \A packet \in Packets : \E type \in 1 .. NUMTYPES : packet[type] > 0

\* Or unless a counter is full, and counts no more.
CountersFit == \A type \in 1 .. NUMTYPES : decoded[type] < FLOATMAX

\* mUpdateMeans counts a group in a uint16_t.
GroupsFit == Len(m_PointVector) < UINT16 \/ (Len(m_PointVector) = UINT16 /\ NumMeans > 1)

(* As long as no type's counter is full and the points fit their uint16_t, *)
(* no mean of a learner becomes 0/0, as those of an engine may, unless it  *)
(* has as many means as there are types: the first mAssignAll leaves every *)
(* mean the point it began at, and with fewer means than types the widths  *)
(* keep every later one from relabelling a point; with more, the first     *)
(* average throws.  (With as many, groups go on to move and may lose their *)
(* last point: MCLearner shows ten packets that do it to five means.  With *)
(* a full counter two analyses may be the same point, and of two means     *)
(* that begin there the second has no group.)                              *)
MeansStayNumbers ==
  NonEmptyPackets /\ CountersFit /\ GroupsFit /\ NumMeans # NUMTYPES => Engine!MeansAreNumbers

(* The getters take no mutex.  Called after the service's thread has been  *)
(* joined and the worker has come to rest, they read what does not change  *)
(* any more, neither by a spurious wakeup nor by the round in which the    *)
(* worker finds that it has been stopped.                                  *)
Settled ==
  /\ service = "joined"
  /\ \/ worker = "waiting" /\ ~m_NewSubmissionReady
     \/ owner # "running" /\ Len(m_PointVector) = oldNumberPointsInVector

SettledStays ==
  [][Settled => UNCHANGED <<m_PointVector, m_CurrentMeans, m_Initialised>>]_vars

(* Once the service is stopped, the learner's destructor comes to its end. *)
ShutdownEnds == service = "stopped" ~> Ended

=============================================================================

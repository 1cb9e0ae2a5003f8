# ProtocolLearner: specification, model checking and proofs

ProtocolLearner is a diode for UDP traffic that watches what passes: packets
are relayed between a high and a low side, the first ones are analysed, and
their analyses are clustered by a k-means engine on a thread of its own.

## The system

| Component | State | Operations | Interaction |
|---|---|---|---|
| `KMeans<T>` (`include/KMeans.hpp`) | points with label and `uint16_t` index, means, `m_Initialised`, two atomic flags, mutex, condition variable | `mSubmit`, worker `mPeriodicThreadFunction` (initialise, assign, update), stop and join, getters | submitters and worker share everything under `m_MainMutex`; the first size, `m_StopThread` and the getters are read without it |
| `PacketAnalyser`, `CharDistributionAlgo`, `RunLengthAlgo` | `m_Decoded`, kept over all packets | `mAnalyse`, `mGetAnalysis` | one algorithm object is shared by all packets of a learner |
| `CUdpProtocolLearner` | quota, `m_DownwardTrafficSeen`, engine | `mProcessPacket` (callback of both pairs), `mStartListening`, destructor | reads the counters of both pairs, opens the low-to-high pair's outbound socket, submits to the engine |
| `CUdpPair` | one buffer, one remote endpoint, counters, outbound port and socket | receive, handler, `mSetOutboundPortAndOpenSocket`, `mStop`, destructor | handler calls the learner, sends on, receives again |
| `CUdpClient` | buffer, `m_RemoteEndpointToSendTo` | `mSend`, handler | receives into the endpoint it sends to |
| `CUdpTestEchoServer` | buffer, fixed reply endpoint | handler | replies through the low-to-high pair |
| `CUdpReceiver` | counters, callback | handler | the sink below the diode in the one-way tests |
| `CUdpSink`, `CUdpSource` | addresses, port, counter | `mReadParametersFromLocalSocket` | base classes of client, server and receiver |

What is hard here: the wakeup of the worker (the notify comes after the unlock,
the flag is reset by the worker, the stop uses the same flag); sizes and
endpoints used after they were read; the shared buffer between a receive and
its handler; the order of the first packets of the two directions; a first
receive that fails, a send that throws; sockets that are made by the first packet and deleted by a
destructor that does not ask; a destructor that must meet neither a handler nor
a round; `uint16_t`, `uint32_t` and float counters; averages of empty groups; exceptions
half-way through a round.
`PROJECT.json` lists every such place with its line.

What makes each component correct:

- engine: no submission is lost, doubled or confused with another; the worker
  sees every submission and can always be stopped; means and points agree
  whenever the mutex is free; assignment and update lower the cost;
- analysis: every byte is counted once in its class, runs are maximal;
- learner: exactly the first packets up to the quota are submitted, as long as
  the counters have not wrapped; listening once, packets are forwarded once and
  in order; what comes from below goes to the first caller and to nobody else;
  it goes on listening whatever a receive brings, or the process ends;
- life: the engine is destroyed when no handler is inside, its destructor comes
  to an end, and what the getters read by then is final.

## Modules

`Clustering` holds the arithmetic of `KMeans.hpp` without state. A mean is an
exact fraction, its group's sum over its group's size, so comparisons are
exact. A mean over 0 points is 0/0 (NaN) or x/0 (infinite), and comparisons
with NaN are false as in IEEE 754; only rounding is abstracted away. `.at()`
that throws is a predicate (`HasCoordinates`, `Averageable`). `NumMeans` and
`NumArgs` are separate constants because the code has two: the width the means
are built with and their number.

`KMeans` is the engine with its threads. Each access to shared state outside
the mutex is one action, and so is each stretch under it:

| Action | Code (`KMeans.hpp`) |
|---|---|
| `WorkerStart` | launch, and the size read without the mutex (L72-89) |
| `WorkerLoop`, `WorkerLock`, `WorkerWait`, `SpuriousWakeup` | `while(!m_StopThread)`, `unique_lock`, the wait loop (L91-97) |
| `WorkerReadSize` | `currentSize` (L102) |
| `Shuffle`, `EmplaceMean` | `mInitialise`, one mean per step (L297-315) |
| `mAssignAll` | `mAssignAll` in its try block (L118-127, L283-295) |
| `UpdateMean`, `UpdateThrows` | one turn of `mUpdateMeans` (L170-206); an exception there ends the process (L128) |
| `NothingToDo`, `WorkerTail` | a round without work, and its end (L107-136) |
| `SubmitLock`, `SubmitStore`, `SubmitNotify` | `mSubmit` (L208-215) |
| `StopUnderMutex`, `Join` | the stop (L143-168) |

The unlocked size read is a data race while a submitter is in `emplace_back`;
it then yields any number (`SizeReads`, up to one more than the bound).
`mSubmit` appends, sets the flag and unlocks as one step, `SubmitStore`: all
of it is under the mutex, and the one unlocked reader of the vector gets
arbitrary numbers until the step is done. `m_StopThread` is set in the same
step as the notification because the mutex is held; `WorkerLoop`, which reads
it without the mutex, comes before or after. `submitted` and `startSize` are
history variables.

`LearningEngine` is what the engine promises those who see neither its mutex
nor its flags nor its loop: submissions are kept in order, the worker works in
rounds that look atomic, a round that finds enough new points initialises, and
a stop ends the worker. `KMeans` implements it under the refinement mapping
`Promised` at its end: the history of submissions is `points`,
`oldNumberPointsInVector` is `seen`, and the twelve places of the worker are four
(`Thread`). Locking, waiting, waking and computing are stutters; `WorkerTail`
is the step that ends a round.

`KMeansApi` is the same engine called by one thread without the worker: its
operations in any order, `mInitialise` once, with the distances the points
store and the two lookups by index and by label. `KMeansTests` runs the
programs of `KMeansTests.cpp` on it.

`ProtocolLearner` is the network: two pairs and the learner, with the clients
above and the echo server or the receiver below. How the objects are built and
used is a record, `setup`, chosen at the start from the constant `Setups`: the
ports, either of which may be 0, the quota, the algorithm, how often
`mStartListening` may be called, the frames a client sends, and how many of them
before `io_service::run`. The counters of packets and bytes wrap at `UINT32`.

| Action | Code |
|---|---|
| `mSend` | `CUdpClient.cpp` L22-33; the caller's thread |
| `ReceiveFrom`, `ReceiveError` | the operation of `async_receive_from`, which fills the buffer and the endpoint, or fails |
| `HandlePair` | `CUdpPair.cpp` L30-40 with `mProcessPacket` (`CUdpProtocolLearner.hpp` L17-40), the send and the next receive |
| `HandleServer`, `HandleSink`, `HandleClient` | the other three `handle_receive_from` |
| `mStartListening`, `Run`, `mStop`, `Destroy` | the owner: L90-94, `run`, `stop`, the destructors of the pairs |
| `SendUnsolicited` | a program below that was not asked |

All handlers run on the one thread in `run`, each as one action. The receive
operation is an action of its own because between it and its handler the buffer
and the endpoint can be read by another handler or overwritten by another
operation. An object has as many operations as it was told to start (`armed`);
those that are done wait in `completed` for their handlers, each with what it
received, but the handler takes from the buffer what is there by then
(`Received`). An operation that fails completes with no byte and leaves the
endpoint alone; the handlers ignore the error, and the packet is then `Empty`.
A port identifies the object that listens on it; a datagram to a port nobody
listens on, or to a full socket buffer, is dropped. `send_to` on port 0 throws,
and `io` becomes `dead`; `send_to` may also throw because the system refuses
(`SendOn`, where a setup has `refusals`), and `io` becomes `refused`. Either way
the handler does not come to `mStartReceive`, nothing catches the exception, and
the process ends. Using or deleting the outbound socket that a pair
built with port 0 has not made is undefined behaviour, and `io` becomes `wild`
(`opened` counts the sockets made). A stopped service leaves its handlers unrun.

`LearnerTests` gives the ten test cases of `CUdpProtocolLearnerTests.cpp` as
setups, with what each of them requires at its end; the last `REQUIRE` of the
last one is the first finding.

`Learner` composes the learner's life: the engine is `KMeans`, instantiated
with the service's thread as the one submitter and with the number of means as
the number of coordinates, as the constructor does. `HandlePacket`, `Submit`
and `Forward` are the stretches of a handler around `mSubmit`; the submitted
vector is the cumulative histogram `decoded`. `StopService`, `JoinService` and
`Destroy` are the end of every test: `stop`, `t.join()`, `~CUdpProtocolLearner`.
From the network it takes only that packets come; ports, and sends that throw,
are in `ProtocolLearner`. A count of bytes stops at `FLOATMAX`, and the counters
of packets wrap at `UINT32`.

`MeansStayNumbers` says when no mean of a learner becomes 0/0: every packet has
a byte (a failed receive, which is an empty packet, would repeat the analysis
before it), no count of a type of bytes has come to the limit of its float
(`CountersFit`; with a full one later analyses may be equal points), there are
no more points than a group's `uint16_t` counts (`GroupsFit`), and there are not
as many means as types. The last condition came of proving it: the argument
that every mean keeps the point it began at holds only while no assignment after
an update takes effect, and with five means, as many as types, it does.
`MCLearner` shows ten packets after which the fourth of five means is empty
(`GroupsMayEmpty`, evaluated by the run `Learner`).

The quota is one of the first 2^32 packets only. `m_PacketsSeen` of each pair and
their sum are `uint32_t`: when the sum comes round to 0, the learner submits
packets again, m_MaxPacketsToObserve + 1 of every further 2^32.
`EngineHoldsDuePackets` and `ReportsPacketsUpToQuota` say which packets these
are (`Due`), and the runs go past the wrap. Of the packets that are due a
`RunLengthAlgo` leaves some out: as long as all it has been given was empty, it
has no runs, the analysis is empty and `mProcessPacket` does not submit it
(`AnalysisEmpty`). `Learner` has histograms, which are never empty.

`PacketAlgos` is the analysis. `mClassify` is the table of its limits;
`CharDistribution` and `RunLengths` are folds, compared with definitions by
counting and by maximal runs: the length of a run stands at the place given by
the number of runs that have begun so far. Both count in a float, which is full at 2^24
(`FLOATMAX`): `++` changes it no more. `UnitTestsHold` puts the packets of the
two test cases to a fresh object.

Names ending in `_Something` after a definition's name, marked "Mutant", are
plausible mistakes in that definition. Each property is violated when one of
them replaces it, so no property holds only by the shape of the model.

## Runs

| Run | Question | Bounds |
|---|---|---|
| `KMeansSafety` | all safety invariants of the threaded engine under every interleaving, and that it implements `LearningEngine` | 2 submitters, 4 submissions of 3 vectors, 2 means, index modulo 3, so the index and the group count wrap |
| `KMeansLive` | a stop joins; every submission is dealt with; the rounds, exits and joins of `LearningEngine` happen | 2 submitters, 3 submissions, vectors of 1 and of 2 coordinates, so that `mUpdateMeans` also throws |
| `KMeansApi` | cost, lost means, collapse | 4 points of the plane, 3 means, any order of calls |
| `KMeansTests` | what the tests of the engine require, for every shuffle | the five programs; 1000 points are cut to 5 and 1000 repetitions to 3 |
| `PacketAnalysis` | every byte in its class, maximal runs over packet borders, full counters, the two unit tests of the algorithms | any of the 256 bytes first, then bytes of 3 types in packets of up to 2, 5 in all; floats are full at 4 |
| `LearnerRouting` | order, quota, first caller, death without a caller, receive errors, refused sends, a second `mStartListening`, sockets | 2 clients; socket buffers of 2; `uint32_t` modulo 5; five setups: 2 packets each, 1 packet from below, quota 3; 1 packet each, port 0 above, 1 packet from below, 1 receive that fails anywhere, sends that may be refused, quota 1; 1 packet each, `mStartListening` called up to twice at any time; port 0 above and below, 1 packet from below; `RunLengthAlgo`, an empty packet and another one each, so that with the replies eight are seen and the counters wrap, quota 2 |
| `LearnerTests` | what the tests of the network require; everything is worked off | the ten tests; 4810 frames are cut to 25 and 18 round trips to 6, no buffer fills |
| `Learner` | destruction, quota and reports, numbers for means, final reads, shutdown | 4 packets of 2 kinds and 3 types, quota 1, 2 means, `uint16_t` and `uint32_t` modulo 3, so that the first, third and fourth packet are due; floats are full at 4 |
| `KMeansLateStart`, `KMeansWidths`, `KMeansNaN`, `LearnerLateSend` | the four findings below | the smallest instance that shows each |

Why the bounds are enough: the engine's rounds differ by the number of points
compared with `NumMeans` (below, equal, one above, more) and with the last
round's, and four submissions reach each of them with a round to spare; two
submitters suffice for every order of unlock, store and notify, and the proofs
cover any number. Two clients give every race for the upward direction, and a
buffer of two both drops and queues. Bounds are named: the constants
`MaxSubmits`, `MaxPoints`, `MaxBytes`, `MaxPackets`, `QueueCap`, the fields
`frames`, `listens`, `unasked` and `failures` of a setup, and `ManyPoints`, `ManyFrames`,
`ManyRounds` in the tests. Symmetry is
used among submitters and among clients, in safety runs only.

Fairness. `KMeans`: the scheduler runs the worker, a call of `mSubmit` that
holds the mutex or has released it goes on, and so does a join whose thread has
ended. Getting the mutex in `mSubmit` and calling the stop are not fair: no
caller must. No spurious wakeup is promised. Weak fairness of the worker
suffices because submissions are finite, so nobody can take the mutex
from it for ever; with unbounded submissions a `std::mutex` promises less.
`ProtocolLearner`: the thread in `run` takes what is ready, and the owner
goes on to `run`; stopping is always possible, and no receive must fail.
`Learner`: the main thread that has stopped the service goes on, and a thread
that waits for the mutex gets it if it is free again and again (strong
fairness: endless spurious wakeups would let the worker take it over and over).
No packet must come and no one must stop the service.

## Findings

1. `KMeansLateStart`: the worker takes the number of points at its own start
   for the number it has dealt with. Two submissions before that and none
   after leave the engine at rest and uninitialised; the `periodicUpdate` test
   (`CUdpProtocolLearnerTests.cpp:507`) would notice only by timing. In this run
   the read happens while nobody is inside `mSubmit` (`LateStartSpec`): both
   points are stored and it gets their true number.
2. `KMeansWidths`: the learner passes the number of means as the number of
   coordinates (`CUdpProtocolLearner.hpp:59`). After the first update the means
   have fewer coordinates than the histograms, `mAssignAll` throws at the first
   point, and the exception is swallowed: the clustering never changes again.
   (With more means than coordinates, `mUpdateMeans` throws and ends the
   process; see `NoAbort` and `UpdateThrows`.)
3. `KMeansNaN`: equal initial means leave a group empty, and its average is
   0/0. `EmptyMeanStaysEmpty` and `NaNFirstMeanCollapses` say exactly what
   follows.
4. `LearnerLateSend`: the client receives into the endpoint it sends to, so
   what it sends after a reply goes to the replier. The round-trip test sends
   everything before the service runs and does not meet it (`LearnerTests`).

## Proofs

Every module with proofs is checked by tlapm without a gap, for all values of
the constants that satisfy the `ASSUME` of the module it is about. Hypotheses
beyond that stand in the theorems and are named below.

| Module | About | Theorems |
|---|---|---|
| `FoldProofs` | intervals, finite sets, sequences, folds | lemmas only |
| `ClusteringProofs` | the arithmetic | lemmas only |
| `KMeansProofs` | the threaded engine | the invariants of `KMeansSafety`, `ImplementsEngine` |
| `KMeansApiProofs` | the engine called directly | the properties of `KMeansApi` |
| `ProtocolLearnerProofs`, `ForwardsProofs` | the diode | the invariants of `LearnerRouting` |
| `LearnerProofs` | the learner's life around the engine | the safety properties of `Learner` |
| `PacketAlgosProofs` | the analyses | the properties of `PacketAnalysis` but its test cases |

### Folds

The search for the nearest mean, distances, sums of groups, histograms and run
lengths are folds over data. A fold of the community modules is a recursive
function, and to the prover that is some function with the recursion, if there
is one. `FoldExists` and `LeftExists` build one, so that the function chosen
satisfies the recursion too (`SumSteps`, `LeftSteps`). What a fold returns
follows by induction; the library's induction theorems have an operator
parameter and cannot be used, so induction is about the members of a set and
comes from `LeastNatural`: a set of numbers that is not empty has a least
member (`IntervalInduction`, `SubsetInduction`). A sum takes its elements in an
order that `CHOOSE` fixes and nobody knows; `AnyOrder` shows that every order
gives the same, so that a sum is any of its terms and the sum of the rest
(`SumsOfParts`). From that follow monotony (`SumMonotone`), linearity
(`SumAffine`), sums over disjoint parts and over groups (`SumUnion`,
`SumByGroups`), and that the product of 1 to N is a multiple of each of them
(`ProductIsMultiple`).

`ClusteringProofs` shows with them that the search compares the means in their
order and stops at the first of the nearest, for NaN and infinite means too
(`NearestFacts`), that distances are 0 only for equal coordinates, so that a
point is its own nearest mean among means at different points
(`OwnPointNearest`), and what a group sums to. Whatever the coordinates, an
assignment gives labels of means (`LabelsInRange`).

Two more lemmas compare distances as numbers, scaled by a multiple of every
denominator. `NearerIsCheaper`: the comparison of fractions that the search
makes orders the scaled distances. `AverageIsCheapest`: no mean is nearer to the
points of a group, all together, than their average. With S/n the average of a
group's n points in one coordinate, T/m any other mean there, and the scale
n²p = m²q, the difference of a point's two squares,
q(mx-T)² - p(nx-S)², is linear in x, because the x² cancel. So its sum over the
group follows from S alone, and n times that sum is q(mS-nT)², which is not
negative. The distances are sums of such squares, one coordinate at a time.

### The threaded engine: `KMeansProofs`

- `SharedInv == TypeOK /\ LockInv /\ SnapshotStable /\ MeansInv` is inductive.
  `TypeOK` alone says nothing of who is in the critical section; `LockInv` ties
  the mutex to the program counters, and `MeansInv` says how many means exist
  in the middle of `mInitialise`, which `MeansComplete` cannot.
- `WakeInv` adds to `NoLostWakeup` that, with the flag reset and no submitter
  inside, the worker has dealt with all points from `loop` to `waiting` and not
  only when it waits; with `SharedInv` it gives `NothingUnseenAtRest` too.
- `StopInv` says that a stop leaves the flag set and the worker out of its wait,
  whatever step is under way; with `LockInv` it gives `StopIsHeard`, the safety
  part of `StopJoins`.
- `SeenInv` follows the initialisation through a round and gives
  `SeenEnoughInitialised`.
- `NoAbort` is inductive with `TypeOK`: every stored vector is wide enough, so
  every group can be averaged.
- `IndexInv` says that there are as many points as submissions and, while the
  counter has not wrapped, that it is their number and that the points are
  `Identified`: every index occurs, no two points share one, and each point has
  the vector submitted under its index. A shuffle, a relabelling and an append
  each preserve that; it gives `IndexIdentifiesSubmission`.
- `NearestInv` adds to `AssignedToNearest` that all means have the coordinates
  of the vectors. The theorem `NearestAssigned` has the hypothesis
  `EqualWidths`: all vectors are equally wide, and the means are built no
  narrower. The engines of `KMeansTests.cpp` are used like that; the run
  `KMeansWidths` shows the property false without it.
- `EngineImplemented == Spec => ImplementsEngine` is the refinement: the initial
  states of `KMeans` are initial in `LearningEngine`, and under `EngineInv` every
  action of `KMeans` maps to one of its actions or to a stutter. What the mapping
  needs beyond the invariants above is `RefInv`: a stop is never taken back, a
  joined engine's worker is done, submissions stay within their bound, and a
  round that draws or averages means found new points.

### The engine called directly: `KMeansApiProofs`

`ShapeInv` is inductive: `TypeOK`, with the labels of the means and one distance
per point. `LostInv` says what 0/0 leaves behind, a mean whose sum is 0 in every
coordinate and, but for the first, a group without points; it gives
`EmptyMeanStaysEmpty` for `MaxPoints < UINT16`, because the size of a group of
65536 points is counted as 0 although it has points. `WidthInv` says that the
means have every coordinate of the vectors, which `OneWidth` (equally wide
vectors, of at least one coordinate) provides: then every comparison with a NaN
mean is false, and `NaNFirstMeanCollapses`. Over no coordinate at all the
distance to a NaN mean is 0, and nothing collapses.

`CostDescends` is the reason why k-means settles, here with the code's ties, NaN
means and truncated counts. `CostInv` is these three and `SizeInv`, that no mean
stands for more than `MaxPoints` points: then `Scale` is a multiple of every
denominator (`ScaleIsMultiple`) and the division in `Cost` is exact. An
assignment is compared point by point (`PointDescends`): a point moves only to
a nearer mean, or to one as near with a lower label, and a mean it
moves to is a number; so the sum of the distances falls, or stays and the sum of
the labels falls (`SumDescends`). An update is compared group by group
(`GroupDescends`): a group without points contributes nothing, and every
other gets its average or keeps its mean (`AverageIsCheapest`). The
theorem `CostGoesDown` has the hypotheses `MaxPoints < UINT16` and `OneWidth`; a
group whose size wraps is divided by too small a number, and its points can
become more expensive.

### The diode: `ProtocolLearnerProofs` and `ForwardsProofs`

For any clients, setups and `QueueCap`. That there are as many ports as objects
makes the ports differ (`PortsDiffer`).

- `TypeInv` adds to `TypeOK` that every object has exactly as many operations,
  outstanding or done, as it was told to start: one, and the pairs one for every
  call of `mStartListening`. `TypeOK` says at most as many, which a handler that
  starts its next operation keeps only because its own has ended. It gives
  `AlwaysListening` too.
- `QuotaInv` adds to `EngineHoldsDuePackets` that the two pairs' counters
  together are the number of packets observed modulo 2^32 (`ModSum`), and that
  `m_Decoded` is empty exactly when all packets within the quota were.
- `RouteInv` gives `UpwardGoesToFirstCaller`, `DiesOnlyWithoutCaller` and
  `WildOnlyWithPortZero`. Its parts: where the pairs send and how many sockets
  they opened (`PortInv`); that only clients send to the upper pair and clients
  never to each other (`SenderInv`); that, until the first packet is processed,
  the upper pair's endpoint is a client as soon as it has received, and the
  caller unless it listens twice, because with one operation its handler is
  still to run and it cannot receive again (`BeforeTraffic`), and that the
  port above is fixed afterwards (`SinceTraffic`); that a client which is not
  the one above has nothing coming but failed receives (`WaitInv`).
- `OneReceive` says, as long as `mStartListening` has been called at most once,
  that nothing has been written over a packet that waits for its handler. The
  next two hold under that condition, which no later step restores (`OnceInv`).
- `ForwardInv` gives the first part of `ForwardsInOrder`, which is not inductive:
  what was served in order says nothing of what comes next. What was served,
  what the server or sink holds between receive and handler, what waits in its
  socket, what the upper pair holds and what waits in its socket is one `Chain`,
  and each client's packets stand in it in order. Every step moves a packet
  along, drops one, puts a failed receive in or adds the latest packet at the
  end.
- `BlankInv` counts the empty packets along the same chain: no more than failed
  receives. Each step takes from one count what it adds to the next
  (`BlankBalance`).

### The learner: `LearnerProofs`

The engine in `Learner` is an instance of `KMeans`, and so is the one in
`KMeansProofs`, instantiated as `EP`; the first lemmas show that the two are the
same, definition by definition. `EngineUsed == Spec => Engine!Spec` then says
that the learner's threads take no step with the engine that the engine's
specification does not have, in particular that no handler submits to a joined
engine, so every theorem of `KMeansProofs` holds of a learner's engine.

- `HandlerInv` ties the handler, the service and the owner to the engine and
  says how many packets the engine holds or is just being given (`Taken`): as
  many as are `Due`. With
  `EP!EngineInv` it gives `DestroyedAlone`, `ReportsPacketsUpToQuota` and
  `SettledStays`.
- `MeansStayNumbers` needs the whole argument about the data. `GrowInv`: each
  submitted analysis is at least its predecessors and none is equal to another,
  because a packet has a byte and no counter is full. `NumberInv`: until the first update each mean
  stands at a point that no other mean stands at (`Untouched`), so that the
  first assignment leaves each mean that point (`OwnPointNearest`) and no
  group is empty; after an update either the means are too narrow for
  `mAssignAll` to relabel any point, and each group keeps its points
  (`Divided`), or the first average throws. Here `GroupsFit` and
  `NumMeans # NUMTYPES` are used, and without them, or without `CountersFit`, the
  property is false. What is once full or too many stays so (`AbleBefore`).

### The analyses: `PacketAlgosProofs`

For packets of any bytes and length. `ClassifyIs` computes the table of limits
for all 256 bytes. `BytesInv` says that `m_Decoded` holds the types of all bytes
so far, in order, wherever packets end. `DistributionIs` and `RunLengthsAre` say
what the two folds return for any sequence of types: the numbers of its places of
each type, and the sizes of the sets of places of equal `Rank`, where the rank
of a place is the number of runs that have begun up to it. That these sets are
the maximal runs gives `RunLengthsAreMaximalRuns`; that a longer sequence has the
same ranks at its old places gives `AnalysesExtend`.

### Only model-checked

- Liveness: `StopJoins`, `EverySubmissionSeen`, `WorkedOff`, `ShutdownEnds`,
  `ImplementsFairEngine`. The prover has no rules for `ENABLED`, on which
  fairness rests.
- `RequiresHold`, `RequirementsHold` and `UnitTestsHold`: what the repository's
  tests require of concrete programs, packets and setups. The instance is the
  claim, and TLC goes through all of it.

## Not modelled

- `include/catch.hpp`, 10663 of the repository's 12688 lines, is the vendored
  test framework: no part of the learner calls it. Nearly all of the other
  2000 lines that do something are mapped.
- In the tests: that the means of 1000 random points end near four corners (it
  depends on the points a generator draws), and the length of the sleeps, which
  are taken to be long enough for everything to come to rest.
- Rounding in floats, except that counters stop at 2^24.
- Sends that fail in the caller's thread: `CUdpClient::mSend` then throws to its
  caller before it has changed anything. In `Learner`, sends that throw: they end
  the process, as in `ProtocolLearner`, and no property of the run is about that.
- Torn reads: the unlocked read of the size gives any number, that of the
  client's endpoint the old or the new one (the addresses are equal, the port
  is two bytes); the getters' unlocked copy of the means is not followed, only
  when it is safe (`SettledStays`).
- `ConcurrentQueue`, which is not in the repository and whose only object is
  never used; the stream operator, `main` and the build files, without logic.

## Plan

What could be added:

1. The settling of repeated `mAssignAll` and `mUpdateMeans` as a liveness
   property: `CostGoesDown` is its argument but for the bound from below and the
   well-founded induction, whose theorems take operators as parameters.
2. Floats that round: `CostDescends` is about exact means, and rounding may end
   a descent early or break a tie otherwise.

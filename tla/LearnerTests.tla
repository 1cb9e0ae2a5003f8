---------------------------- MODULE LearnerTests ----------------------------
(***************************************************************************)
(* The tests of src/CUdpProtocolLearnerTests.cpp: what each of them        *)
(* builds, sends and requires.  Every test sleeps before it stops the      *)
(* service; what it requires afterwards is stated here of a service that   *)
(* has come to rest, so that the sleep is taken to be long enough.  The    *)
(* blast of 4810 frames is cut to ManyFrames, the 18 round trips to        *)
(* ManyRounds.                                                             *)
(***************************************************************************)
EXTENDS ProtocolLearner

ManyFrames == 25
ManyRounds == 6

\* frames sent before and after the service is given its thread
Frames(number, size) == [i \in 1 .. number |-> size]

Test(name, target, down, up, quota, frames, ahead) ==
  [name |-> name, target |-> target, down |-> down, up |-> up, quota |-> quota,
   algo |-> "CharDistributionAlgo", frames |-> frames, listens |-> 1, ahead |-> ahead,
   unasked |-> 0, failures |-> 0, refusals |-> FALSE]

Inject == Test("injection", HighToLow, Elsewhere, Elsewhere, 10, Frames(1, 2), 0)
MaxPackets == Test("max packets", HighToLow, Elsewhere, Elsewhere, 1, Frames(2, 2), 2)
Blast == Test("blast", Sink, Elsewhere, Elsewhere, 0, Frames(ManyFrames, 12), 1)
PassThrough == Test("pass through", HighToLow, Sink, Port0, 10, Frames(10, 2), 1)
AddsToEngine == Test("adds to engine", HighToLow, Sink, Port0, 4, Frames(4, 2), 4)
EchoCallback == Test("echo callback", HighToLow, Server, Elsewhere, 1000, Frames(1, 2), 1)
ReplySeen == Test("reply seen", HighToLow, Server, Elsewhere, 1000, Frames(1, 2), 1)
RoundTrip == Test("round trip", HighToLow, Server, Port0, 1000, Frames(ManyRounds, 2), ManyRounds)
BufferCleared == Test("buffer cleared", Sink, Elsewhere, Elsewhere, 0, <<2, 24, 3>>, 3)
PeriodicUpdate == Test("periodic update", HighToLow, Elsewhere, Elsewhere, 1000, Frames(2, 2), 0)

Tests == {Inject, MaxPackets, Blast, PassThrough, AddsToEngine, EchoCallback, ReplySeen,
          RoundTrip, BufferCleared, PeriodicUpdate}

-----------------------------------------------------------------------------
Seen(r, packets, bytes) == m_PacketsSeen[r] = packets /\ m_TotalBytesSeen[r] = bytes

mGetNumberPacketsInLearningEngine == Len(engine)

packetsReceived == LET client == CHOOSE c \in Clients : TRUE IN received[client]

InjectRequires == Seen(HighToLow, 1, 2) /\ Seen(LowToHigh, 0, 0)
MaxPacketsRequires == Seen(HighToLow, 2, 4) /\ Seen(LowToHigh, 0, 0)
BlastRequires == Seen(Sink, ManyFrames, 12 * ManyFrames)
PassThroughRequires == Seen(Sink, setup.quota, 2 * setup.quota)
AddsToEngineRequires ==
  m_PacketsSeen[Sink] = setup.quota /\ mGetNumberPacketsInLearningEngine = setup.quota
EchoCallbackRequires == served # <<>>
ReplySeenRequires == mGetNumberPacketsInLearningEngine = 2
RoundTripRequires == packetsReceived = Len(setup.frames)
BufferClearedRequires == Last(served).size = 3
PeriodicUpdateRequires == mGetNumberPacketsInLearningEngine = 2

(* What the tests require of counters and callbacks before the service     *)
(* runs: nothing has been seen.                                            *)
NothingYet ==
  /\ \A r \in Pairs \cup {Sink} : Seen(r, 0, 0)
  /\ mGetNumberPacketsInLearningEngine = 0
  /\ served = <<>> /\ packetsReceived = 0

(* No test ends in an exception, and what the ten of them require at their *)
(* end holds in every order in which the service's thread may run          *)
(* operations and handlers while the client goes on sending.               *)
RequirementsHold ==
  /\ io # "dead"
  /\ io = "idle" => NothingYet
  /\ io = "running" /\ Quiet =>
       CASE setup = Inject -> InjectRequires
         [] setup = MaxPackets -> MaxPacketsRequires
         [] setup = Blast -> BlastRequires
         [] setup = PassThrough -> PassThroughRequires
         [] setup = AddsToEngine -> AddsToEngineRequires
         [] setup = EchoCallback -> EchoCallbackRequires
         [] setup = ReplySeen -> ReplySeenRequires
         [] setup = RoundTrip -> RoundTripRequires
         [] setup = BufferCleared -> BufferClearedRequires
         [] setup = PeriodicUpdate -> PeriodicUpdateRequires

=============================================================================

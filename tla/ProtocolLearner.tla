--------------------------- MODULE ProtocolLearner ---------------------------
(***************************************************************************)
(* The diode: a CUdpProtocolLearner over two CUdpPairs, with the           *)
(* CUdpClients above it and, below, the CUdpTestEchoServer or the          *)
(* CUdpReceiver that the tests put there.  All of them share one           *)
(* io_service, run by one thread, so a handler runs alone; the callers of  *)
(* mSend are other threads.                                                *)
(*                                                                         *)
(* An object that receives is named by the port it is bound to.  What      *)
(* boost.asio does is modelled from its use in src/: async_receive_from    *)
(* leaves an operation with the socket; when a datagram is there, the      *)
(* operation writes it to the object's buffer and its sender to the        *)
(* object's endpoint, and the handler runs some time later.                *)
(*                                                                         *)
(* The clustering engine is KMeans.tla; here it is the sequence of the     *)
(* packets whose analyses were submitted.                                  *)
(***************************************************************************)
EXTENDS Integers, Sequences, FiniteSets, SequencesExt

CONSTANTS
  Clients,         \* the CUdpClients, by their ports
  HighToLow, LowToHigh, Server, Sink,  \* the ports the others listen on
  Elsewhere,       \* any port nobody of these listens on
  Port0,           \* port number 0
  Setups,          \* how the objects may be configured and used, see SetupType
  UINT32,          \* 2^32, where the counters wrap
  QueueCap         \* datagrams a socket's receive buffer holds

Pairs == {HighToLow, LowToHigh}
Receivers == Clients \cup Pairs \cup {Server, Sink}
Ports == Receivers \cup {Elsewhere, Port0}

SetupType ==
  [name : STRING,
   target : {HighToLow, Sink},           \* where the clients send
   down : {Server, Sink, Elsewhere, Port0},  \* m_PortToSendTo of the high-to-low pair
   up : {Elsewhere, Port0},              \* m_PortToSendTo the other pair is built with
   quota : 0 .. UINT32 - 1,              \* m_MaxPacketsToObserve
   algo : {"CharDistributionAlgo", "RunLengthAlgo"},  \* m_AlgoPointer
   listens : Nat,                        \* bound on the calls of mStartListening
   frames : Seq(Nat),                    \* the sizes of what each client sends
   ahead : Nat,                          \* how many it sends before the service may run
   unasked : Nat,                        \* bound on the packets from below that answer nothing
   failures : Nat,                       \* bound on the receives that fail
   refusals : BOOLEAN]                   \* whether the system may refuse to send

ASSUME LearnerAssumption ==
  /\ IsFiniteSet(Clients)
  /\ Cardinality(Receivers) = Cardinality(Clients) + 4
  /\ {Elsewhere, Port0} \cap Receivers = {} /\ Elsewhere # Port0
  /\ UINT32 \in Nat \ {0}
  /\ Setups \subseteq SetupType
  /\ QueueCap \in Nat

VARIABLES
  setup,      \* the configuration
  queue,      \* what waits in each socket's receive buffer
  armed,      \* the receive operations each object has outstanding
  completed,  \* what its operations that are done received, their handlers yet to run
  buffer,     \* the packet last written to m_ReceiveBuffer
  remote,     \* the endpoint its operations write the sender to
  io,         \* the io_service: idle, running or stopped; destroyed with all the objects; or the
              \* process is dead of a send to no port, of a send the system refused, or has
              \* used a pointer that was never set (wild)
  listening,  \* how often the owner has called mStartListening
  m_PacketsSeen,        \* of the pairs and of the sink
  m_TotalBytesSeen,     \* of the pairs and of the sink
  m_PortToSendTo,       \* per pair
  opened,     \* how many outbound sockets each pair has made, of which it keeps the last
  m_DownwardTrafficSeen,
  m_Decoded,  \* how many characters m_AlgoPointer has decoded
  engine,     \* the packets submitted to the clustering engine
  sent,       \* m_NumberPacketsSent, per client
  m_PortToReceiveOn,    \* per client
  received,   \* calls of m_FrameReceivedCallback, per client
  unsolicited,\* packets from below that answer nothing
  errors,     \* receives that have failed
  observed,   \* history: the packets mProcessPacket was given, with their pair
  served,     \* history: the packets the server or the sink was given
  caller      \* history: who sent the first datagram the high-to-low pair received

sockets == <<queue, armed, completed, buffer, remote>>
counters == <<m_PacketsSeen, m_TotalBytesSeen>>
learner == <<m_PortToSendTo, opened, m_DownwardTrafficSeen, m_Decoded, engine, observed>>
clients == <<sent, m_PortToReceiveOn, received>>
world == <<setup, listening, unsolicited, errors>>
vars == <<sockets, io, counters, learner, clients, served, caller, world>>

-----------------------------------------------------------------------------
(* Packets and sockets.                                                    *)

Packet(c, n, size) == [from |-> c, n |-> n, reply |-> FALSE, size |-> size]

\* the echo function of the tests changes every byte
Echoed(packet) == [packet EXCEPT !.reply = TRUE]

\* what a receive that has failed is given, and the buffer before the first one
Empty == Packet(Elsewhere, 0, 0)

\* a datagram to a full buffer, or to a port nobody is bound to, is dropped
Sent(packet, sender, port) ==
  IF port \in Receivers /\ Len(queue[port]) < QueueCap
  THEN [queue EXCEPT ![port] = Append(@, [data |-> packet, sender |-> sender])]
  ELSE queue

\* An operation ends, and its handler is queued.
Complete(r, packet) ==
  /\ io = "running"
  /\ armed[r] > 0
  /\ armed' = [armed EXCEPT ![r] = @ - 1]
  /\ completed' = [completed EXCEPT ![r] = Append(@, packet)]
  /\ UNCHANGED <<io, counters, learner, clients, served>>

\* The operation of async_receive_from, in the thread that runs the io_service.  (One
\* that finds a datagram when it is started before Run takes it then; here it does so
\* after Run, and until then nothing reads the buffer or the endpoint of a pair.)
ReceiveFrom(r) ==
  /\ queue[r] # <<>>
  /\ Complete(r, Head(queue[r]).data)
  /\ queue' = [queue EXCEPT ![r] = Tail(@)]
  /\ buffer' = [buffer EXCEPT ![r] = Head(queue[r]).data]
  /\ remote' = [remote EXCEPT ![r] = Head(queue[r]).sender]
  /\ caller' = IF r = HighToLow /\ caller = Elsewhere THEN Head(queue[r]).sender ELSE caller
  /\ UNCHANGED world

\* The operation fails: no byte is received, and neither the buffer nor the endpoint written.
ReceiveError(r) ==
  /\ Complete(r, Empty)
  /\ errors < setup.failures
  /\ errors' = errors + 1
  /\ UNCHANGED <<queue, buffer, remote, caller, setup, listening, unsolicited>>

\* The packet of the oldest operation that is done, as its handler finds it: the first
\* bytes_recvd bytes of the buffer, to which a second operation may have written since.
Received(r) ==
  IF Head(completed[r]) = Empty THEN Empty
  ELSE [buffer[r] EXCEPT !.size = Head(completed[r]).size]

\* Mutant: two operations share the one buffer.
mStartReceive_Twice(r) == armed[r] + 2

mStartReceive(r) == armed[r] + 1

\* Mutant: the handler does not receive again.
Rearmed_Once(r) == armed

\* Mutant: the handler returns when the receive has failed.
Rearmed_UnlessError(r) ==
  IF Head(completed[r]) = Empty THEN armed ELSE [armed EXCEPT ![r] = mStartReceive(r)]

\* the last line of every handler
Rearmed(r) == [armed EXCEPT ![r] = mStartReceive(r)]

\* The handler of r is called.
Called(r) ==
  /\ io = "running"
  /\ completed[r] # <<>>
  /\ completed' = [completed EXCEPT ![r] = Tail(@)]
  /\ UNCHANGED <<buffer, remote, caller, world>>

\* It comes to its end.
Handled(r) == Called(r) /\ armed' = Rearmed(r)

\* It does not: nothing catches what is thrown in a handler, and the process ends.
Ends(how) == io' = how /\ UNCHANGED <<queue, armed>>

\* A handler's last two statements, send_to and mStartReceive.  The system may refuse to
\* send whatever the port is, and then the first of them throws.
SendOn(r, packet, port) ==
  \/ io' = io /\ queue' = Sent(packet, Elsewhere, port) /\ armed' = Rearmed(r)
  \/ setup.refusals /\ Ends("refused")

\* the counters of CUdpPair and CUdpReceiver
Counted(r) ==
  /\ m_PacketsSeen' = [m_PacketsSeen EXCEPT ![r] = (@ + 1) % UINT32]
  /\ m_TotalBytesSeen' = [m_TotalBytesSeen EXCEPT ![r] = (@ + Received(r).size) % UINT32]

-----------------------------------------------------------------------------
\* The pairs alone do not start to receive in their constructors.
InitiallyArmed(r) == IF r \in Pairs THEN 0 ELSE 1

\* CUdpClient receives into m_RemoteEndpointToSendTo, which it has resolved.
InitialRemote(r) == IF r \in Clients THEN setup.target ELSE Port0

\* A pair opens no outbound socket for port 0.
PairsInit ==
  /\ m_PortToSendTo = [p \in Pairs |-> IF p = HighToLow THEN setup.down ELSE setup.up]
  /\ opened = [p \in Pairs |-> IF m_PortToSendTo[p] = Port0 THEN 0 ELSE 1]

CountersInit ==
  /\ m_PacketsSeen = [r \in Pairs \cup {Sink} |-> 0]
  /\ m_TotalBytesSeen = [r \in Pairs \cup {Sink} |-> 0]

LearnerInit ==
  m_DownwardTrafficSeen = FALSE /\ m_Decoded = 0 /\ engine = <<>> /\ observed = <<>>

ClientsInit ==
  /\ sent = [c \in Clients |-> 0]
  /\ m_PortToReceiveOn = [c \in Clients |-> Port0]
  /\ received = [c \in Clients |-> 0]

Init ==
  /\ setup \in Setups
  /\ queue = [r \in Receivers |-> <<>>]
  /\ armed = [r \in Receivers |-> InitiallyArmed(r)]
  /\ completed = [r \in Receivers |-> <<>>]
  /\ buffer = [r \in Receivers |-> Empty]
  /\ remote = [r \in Receivers |-> InitialRemote(r)]
  /\ io = "idle" /\ listening = 0
  /\ PairsInit /\ CountersInit /\ LearnerInit /\ ClientsInit
  /\ unsolicited = 0 /\ errors = 0
  /\ served = <<>> /\ caller = Elsewhere

\* In any thread and as often as the owner likes; nothing stops a second call, after which
\* a pair has two operations for its one buffer.  (The two sockets are taken in one step:
\* an operation of the second may complete any time later.)
mStartListening ==
  /\ listening < setup.listens
  /\ setup.target = HighToLow
  /\ io \in {"idle", "running", "stopped"}
  /\ listening' = listening + 1
  /\ armed' = [r \in Receivers |-> IF r \in Pairs THEN mStartReceive(r) ELSE armed[r]]
  /\ UNCHANGED <<queue, completed, buffer, remote, io, counters, learner, clients, served, caller,
                 setup, unsolicited, errors>>

Run ==
  /\ io = "idle"
  /\ \A c \in Clients : sent[c] >= setup.ahead
  /\ io' = "running"
  /\ UNCHANGED <<sockets, counters, learner, clients, served, caller, world>>

\* io_service::stop leaves the handlers that wait unrun
mStop ==
  /\ io = "running"
  /\ io' = "stopped"
  /\ UNCHANGED <<sockets, counters, learner, clients, served, caller, world>>

\* The destructors.  A pair deletes its outbound socket and endpoint, made or not.
Destroy ==
  /\ io = "stopped"
  /\ io' = IF \E p \in Pairs : opened[p] = 0 THEN "wild" ELSE "destroyed"
  /\ UNCHANGED <<sockets, counters, learner, clients, served, caller, world>>

\* The client's socket has a port of its own since its first send.
mReadParametersFromLocalSocket(c) ==
  IF sent[c] = 0 THEN [m_PortToReceiveOn EXCEPT ![c] = c] ELSE m_PortToReceiveOn

\* CUdpClient::mSend.  While the service runs it reads an endpoint that
\* ReceiveFrom may be writing; the two are taken as one before the other.  A send that
\* the system refuses throws in the caller's thread, before anything has been changed.
mSend(c) ==
  /\ io \in {"idle", "running"}
  /\ sent[c] < Len(setup.frames)
  /\ queue' = Sent(Packet(c, sent[c] + 1, setup.frames[sent[c] + 1]), c, remote[c])
  /\ sent' = [sent EXCEPT ![c] = @ + 1]
  /\ m_PortToReceiveOn' = mReadParametersFromLocalSocket(c)
  /\ UNCHANGED <<armed, completed, buffer, remote, io, counters, learner, received, served, caller,
                 world>>

\* A program below sends up without having been asked.
SendUnsolicited ==
  /\ io = "running"
  /\ unsolicited < setup.unasked
  /\ unsolicited' = unsolicited + 1
  /\ queue' = Sent(Packet(Elsewhere, unsolicited', 1), Elsewhere, LowToHigh)
  /\ UNCHANGED <<armed, completed, buffer, remote, io, counters, learner, clients, served, caller,
                 setup, listening, errors>>

-----------------------------------------------------------------------------
mGetPortOfClient(p) == remote[p]

\* The new port, with a new socket and endpoint; the old ones are not deleted.
mSetOutboundPortAndOpenSocket(p, port) ==
  /\ m_PortToSendTo' = [m_PortToSendTo EXCEPT ![p] = port]
  /\ opened' = [opened EXCEPT ![p] = @ + 1]

PacketsSeen == (m_PacketsSeen'[HighToLow] + m_PacketsSeen'[LowToHigh]) % UINT32

\* Mutant: < for <=.
WithinQuota_OneLess == PacketsSeen < setup.quota

\* the counter of the packet's pair already counts it
WithinQuota == PacketsSeen <= setup.quota

\* Mutant: the analysis is of this packet alone.
AnalysisEmpty_Fresh(packet) == setup.algo = "RunLengthAlgo" /\ packet.size = 0

\* A histogram is never empty; there are no runs as long as nothing has been decoded.
AnalysisEmpty(packet) == setup.algo = "RunLengthAlgo" /\ m_Decoded + packet.size = 0

\* Mutant: the port above is set anew by every packet.
SetsUpwardPort_Always(p) == TRUE

\* Mutant: it is set only by downward traffic, as the name of the flag says.
SetsUpwardPort_Downward(p) == ~m_DownwardTrafficSeen /\ p = HighToLow

SetsUpwardPort(p) == ~m_DownwardTrafficSeen

\* Mutant: the port above is taken from the pair below.
UpwardPort_WrongPair == mGetPortOfClient(LowToHigh)

UpwardPort == mGetPortOfClient(HighToLow)

\* CUdpProtocolLearner::mProcessPacket
mProcessPacket(p, packet) ==
  /\ observed' = Append(observed, [pair |-> p, data |-> packet])
  /\ m_Decoded' = IF WithinQuota THEN m_Decoded + packet.size ELSE m_Decoded
  /\ engine' = IF WithinQuota /\ ~AnalysisEmpty(packet) THEN Append(engine, packet) ELSE engine
  /\ IF SetsUpwardPort(p)
     THEN mSetOutboundPortAndOpenSocket(LowToHigh, UpwardPort) /\ m_DownwardTrafficSeen' = TRUE
     ELSE UNCHANGED <<m_PortToSendTo, opened, m_DownwardTrafficSeen>>

(* CUdpPair::handle_receive_from.  send_to on port 0 throws; without an    *)
(* outbound socket it would use an uninitialised pointer.                  *)
HandlePair(p) ==
  /\ Called(p)
  /\ Counted(p)
  /\ mProcessPacket(p, Received(p))
  /\ CASE opened'[p] = 0 -> Ends("wild")
       [] opened'[p] > 0 /\ m_PortToSendTo'[p] = Port0 -> Ends("dead")
       [] OTHER -> SendOn(p, Received(p), m_PortToSendTo'[p])
  /\ UNCHANGED <<clients, served>>

\* CUdpTestEchoServer::handle_receive_from
HandleServer ==
  /\ Called(Server)
  /\ served' = Append(served, Received(Server))
  /\ SendOn(Server, Echoed(Received(Server)), LowToHigh)
  /\ UNCHANGED <<counters, learner, clients>>

\* CUdpReceiver::handle_receive_from
HandleSink ==
  /\ Handled(Sink)
  /\ Counted(Sink)
  /\ served' = Append(served, Received(Sink))
  /\ UNCHANGED <<queue, io, learner, clients>>

\* CUdpClient::handle_receive_from
HandleClient(c) ==
  /\ Handled(c)
  /\ received' = [received EXCEPT ![c] = @ + 1]
  /\ UNCHANGED <<queue, io, counters, learner, sent, m_PortToReceiveOn, served>>

IoThread ==
  \/ \E r \in Receivers : ReceiveFrom(r)
  \/ \E p \in Pairs : HandlePair(p)
  \/ HandleServer
  \/ HandleSink
  \/ \E c \in Clients : HandleClient(c)

Owner == mStartListening \/ Run

Sources == SendUnsolicited \/ \E c \in Clients : mSend(c)

AllSent == \A c \in Clients : sent[c] = Len(setup.frames)

Quiet ==
  /\ \A r \in Receivers : queue[r] = <<>> /\ completed[r] = <<>>
  /\ AllSent

Ended == io \in {"destroyed", "dead", "refused", "wild"}

Next ==
  \/ IoThread \/ Owner \/ Sources
  \/ \E r \in Receivers : ReceiveError(r)
  \/ mStop \/ Destroy
  \/ Ended /\ UNCHANGED vars

Spec == Init /\ [][Next]_vars

(* The thread in io_service::run takes every operation and handler that is *)
(* ready, one after the other.                                             *)
FairSpec == Spec /\ WF_vars(IoThread) /\ WF_vars(Owner)

-----------------------------------------------------------------------------
PacketType == [from : Clients \cup {Elsewhere}, n : Nat, reply : BOOLEAN, size : Nat]

\* how many operations of r have been started beside those of its handlers
Calls(r) == IF r \in Pairs THEN listening ELSE 1

(* Types of the sockets' and the learner's state.  An object has no more   *)
(* operations, outstanding or done, than it was told to start: at most one *)
(* for its one buffer unless mStartListening is called twice.              *)
TypeOK ==
  /\ setup \in Setups
  /\ queue \in [Receivers -> Seq([data : PacketType, sender : Clients \cup {Elsewhere}])]
  /\ \A r \in Receivers : Len(queue[r]) <= QueueCap
  /\ armed \in [Receivers -> Nat]
  /\ completed \in [Receivers -> Seq(PacketType)]
  /\ \A r \in Receivers : armed[r] + Len(completed[r]) <= Calls(r)
  /\ buffer \in [Receivers -> PacketType]
  /\ remote \in [Receivers -> Ports]
  /\ io \in {"idle", "running", "stopped", "dead", "refused", "wild", "destroyed"}
  /\ listening \in 0 .. setup.listens
  /\ {m_PacketsSeen, m_TotalBytesSeen} \subseteq [Pairs \cup {Sink} -> 0 .. UINT32 - 1]
  /\ m_PortToSendTo \in [Pairs -> Ports]
  /\ opened \in [Pairs -> Nat]
  /\ m_DownwardTrafficSeen \in BOOLEAN
  /\ m_Decoded \in Nat
  /\ engine \in Seq(PacketType)
  /\ {sent, received} \subseteq [Clients -> Nat]
  /\ m_PortToReceiveOn \in [Clients -> Ports]
  /\ unsolicited \in 0 .. setup.unasked
  /\ errors \in 0 .. setup.failures
  /\ observed \in Seq([pair : Pairs, data : PacketType])
  /\ served \in Seq(PacketType)
  /\ caller \in Clients \cup {Elsewhere}

(* No path through a handler forgets to receive again, not even the one    *)
(* after an error, unless it ends the process: whoever listens has one     *)
(* operation outstanding or done for every call that told it to start.     *)
AlwaysListening ==
  io \notin {"dead", "refused", "wild"} =>
    \A r \in Receivers : armed[r] + Len(completed[r]) = Calls(r)

(* The diode neither duplicates nor reorders nor alters as long as         *)
(* mStartListening has been called only once: below, the packets of each   *)
(* client arrive as they were sent, in order, and what else arrives comes  *)
(* of a failed receive.  One operation per socket protects the one buffer  *)
(* between receive and handler; with two of them a packet can overwrite    *)
(* its predecessor there and be forwarded twice.                           *)
ForwardsInOrder ==
  listening <= 1 =>
    /\ \A i, j \in DOMAIN served :
         served[i] # Empty =>
           /\ served[i].from \in Clients /\ ~served[i].reply
           /\ served[i].n \in 1 .. sent[served[i].from]
           /\ i < j /\ served[i].from = served[j].from => served[i].n < served[j].n
    /\ Cardinality({i \in DOMAIN served : served[i] = Empty}) <= errors

\* whether the k-th packet is observed: the first m_MaxPacketsToObserve of every 2^32 are, and
\* every 2^32-th, for the counters and their sum start again at 0
InQuota(k) == k % UINT32 <= setup.quota

\* the packets, by number, whose analyses are due in the engine
Due ==
  {k \in DOMAIN observed :
     /\ InQuota(k)
     /\ setup.algo = "RunLengthAlgo" =>
          \E j \in 1 .. k : InQuota(j) /\ observed[j].data.size > 0}

(* The quota is shared by both directions: as long as 2^32 packets have    *)
(* not been seen, the engine holds exactly the first m_MaxPacketsToObserve *)
(* packets the learner was given; when the counters wrap it takes in the   *)
(* next ones.  Only the empty packets a RunLengthAlgo starts with are left *)
(* out, for they have no runs.                                             *)
EngineHoldsDuePackets ==
  /\ Len(engine) = Cardinality(Due)
  /\ \A k \in Due : engine[Cardinality({j \in Due : j <= k})] = observed[k].data

(* Once the first packet has been processed, everything from below goes to *)
(* one client and never to another, in whatever order the two pairs'       *)
(* handlers ran: to the sender of the first packet from above, or, when    *)
(* mStartListening has been called twice, to the sender of a later one     *)
(* that was received before the first was handled.  Or, when the first     *)
(* packet was a failed receive, to nobody ever.                            *)
UpwardGoesToFirstCaller ==
  m_DownwardTrafficSeen /\ io # "dead" =>
    /\ \/ /\ m_PortToSendTo[LowToHigh] \in Clients
          /\ listening <= 1 => m_PortToSendTo[LowToHigh] = caller
       \/ m_PortToSendTo[LowToHigh] = Port0 /\ observed[1].data = Empty
    /\ \A c \in Clients : received[c] > 0 => c = m_PortToSendTo[LowToHigh] \/ errors > 0

(* The learner dies for want of a port only when the first packet it was   *)
(* given came from below, or was a failed receive, before any datagram     *)
(* from above had been received: there was no port to send to, and there   *)
(* is none ever after.                                                     *)
DiesOnlyWithoutCaller ==
  io = "dead" =>
    /\ (observed[1].pair = LowToHigh /\ caller = Elsewhere) \/ observed[1].data = Empty
    /\ \A c \in Clients : received[c] <= errors

(* A pair built with port 0 has no outbound socket.  Above, the first      *)
(* packet gives it one, before any handler uses it, and only the           *)
(* destructor of a learner that has seen no packet meets the pointers that *)
(* were never set; below, nothing does, and the first packet from above is *)
(* the last that is handled.  At most one socket is leaked.                *)
WildOnlyWithPortZero ==
  /\ io = "wild" => setup.down = Port0 \/ (setup.up = Port0 /\ observed = <<>>)
  /\ setup.down = Port0 =>
       \A i \in DOMAIN observed :
         observed[i].pair = HighToLow => i = Len(observed) /\ io = "wild"
  /\ opened[HighToLow] <= 1 /\ opened[LowToHigh] <= 2

(* src/CUdpProtocolLearnerTests.cpp:411: when everything has come to rest, *)
(* a client has as many replies as it sent packets (no buffer was full).   *)
RoundTripComplete ==
  io = "running" /\ Quiet => \A c \in Clients : received[c] = sent[c]

(* Whatever was sent is worked off, unless the service stops or dies.      *)
WorkedOff == AllSent ~> Quiet \/ io \notin {"idle", "running"}

=============================================================================

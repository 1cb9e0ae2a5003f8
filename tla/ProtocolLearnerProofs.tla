------------------------ MODULE ProtocolLearnerProofs ------------------------
(***************************************************************************)
(* Proofs about the diode of ProtocolLearner.tla, for any number of        *)
(* clients, any setups, any capacity of the sockets' buffers and any width *)
(* of the counters.  TypeInv, the types with the operations of each        *)
(* object, is inductive; QuotaInv and RouteInv are inductive relative to   *)
(* it.                                                                     *)
(***************************************************************************)
EXTENDS ProtocolLearner, FiniteSetTheorems, SequenceTheorems, TLAPS

(* Every object has the operations it was told to start, outstanding or    *)
(* done.                                                                   *)
TypeInv == TypeOK /\ AlwaysListening

Senders == Clients \cup {Elsewhere}

Datagrams == [data : PacketType, sender : Senders]

(* Clients, pairs and the two below them are all different, for there are  *)
(* as many ports as objects.                                               *)
LEMMA PortsDiffer ==
  /\ HighToLow # LowToHigh /\ Server \notin Pairs /\ Sink \notin Pairs /\ Server # Sink
  /\ Clients \cap {HighToLow, LowToHigh, Server, Sink} = {}
<1> DEFINE Two == Clients \cup {HighToLow} \cup {LowToHigh}
           Four == Two \cup {Server} \cup {Sink}
<1>1. IsFiniteSet(Clients) /\ Cardinality(Clients) \in Nat
  BY LearnerAssumption, FS_CardinalityType
<1>2. Receivers = Four
  BY DEF Receivers, Pairs
<1>3. /\ IsFiniteSet(Clients \cup {HighToLow})
      /\ Cardinality(Clients \cup {HighToLow}) =
           IF HighToLow \in Clients THEN Cardinality(Clients) ELSE Cardinality(Clients) + 1
  BY <1>1, FS_AddElement
<1>4. /\ IsFiniteSet(Two)
      /\ Cardinality(Two) = IF LowToHigh \in Clients \cup {HighToLow}
                            THEN Cardinality(Clients \cup {HighToLow})
                            ELSE Cardinality(Clients \cup {HighToLow}) + 1
  BY <1>3, FS_AddElement
<1>5. /\ IsFiniteSet(Two \cup {Server})
      /\ Cardinality(Two \cup {Server}) =
           IF Server \in Two THEN Cardinality(Two) ELSE Cardinality(Two) + 1
  BY <1>4, FS_AddElement
<1>6. Cardinality(Four) = IF Sink \in Two \cup {Server} THEN Cardinality(Two \cup {Server})
                                                       ELSE Cardinality(Two \cup {Server}) + 1
  BY <1>5, FS_AddElement
<1>7. /\ HighToLow \notin Clients /\ LowToHigh \notin Clients \cup {HighToLow}
      /\ Server \notin Two /\ Sink \notin Two \cup {Server}
  <2> HIDE DEF Two, Four
  <2> QED
    BY <1>1, <1>2, <1>3, <1>4, <1>5, <1>6, LearnerAssumption
<1> QED
  BY <1>7 DEF Pairs

(* Nobody listens on Elsewhere or on port 0.                               *)
LEMMA PortsUnused ==
  Elsewhere \notin Receivers /\ Port0 \notin Receivers /\ Elsewhere # Port0
BY LearnerAssumption

(* The parts of a setup.                                                   *)
LEMMA SetupParts ==
  ASSUME setup \in Setups
  PROVE  /\ setup.target \in {HighToLow, Sink}
         /\ setup.down \in {Server, Sink, Elsewhere, Port0}
         /\ setup.up \in {Elsewhere, Port0}
         /\ setup.quota \in 0 .. UINT32 - 1 /\ setup.frames \in Seq(Nat)
         /\ setup.listens \in Nat /\ setup.refusals \in BOOLEAN
         /\ setup.unasked \in Nat /\ setup.failures \in Nat
BY LearnerAssumption DEF SetupType

(* Appending to a sequence and taking its head off.                        *)
LEMMA AppendFacts ==
  ASSUME NEW S, NEW s \in Seq(S), NEW e \in S
  PROVE  /\ Append(s, e) \in Seq(S) /\ Len(Append(s, e)) = Len(s) + 1
         /\ \A i \in 1 .. Len(s) : Append(s, e)[i] = s[i]
         /\ Append(s, e)[Len(s) + 1] = e
OBVIOUS

\* What the first datagram of a queue leaves behind.
LEMMA TailFacts ==
  ASSUME NEW S, NEW s \in Seq(S), s # <<>>
  PROVE  /\ Head(s) \in S /\ Tail(s) \in Seq(S)
         /\ Len(Tail(s)) = Len(s) - 1 /\ Len(s) \in Nat
OBVIOUS

(* A datagram goes to the queue of the port it is sent to, when that has   *)
(* room, and leaves every other queue alone.                               *)
LEMMA SentFacts ==
  ASSUME queue \in [Receivers -> Seq(Datagrams)],
         \A r \in Receivers : Len(queue[r]) <= QueueCap,
         NEW packet \in PacketType, NEW sender \in Senders, NEW port
  PROVE  /\ Sent(packet, sender, port) \in [Receivers -> Seq(Datagrams)]
         /\ \A r \in Receivers : Len(Sent(packet, sender, port)[r]) <= QueueCap
         /\ \A r \in Receivers : r # port => Sent(packet, sender, port)[r] = queue[r]
         /\ \A T : port \in Receivers /\ queue[port] \in Seq(T) /\ [data |-> packet, sender |-> sender] \in T
                   => Sent(packet, sender, port)[port] \in Seq(T)
<1> DEFINE d == [data |-> packet, sender |-> sender]
<1>1. d \in Datagrams
  BY DEF Datagrams
<1>2. CASE port \in Receivers /\ Len(queue[port]) < QueueCap
  <2>1. Sent(packet, sender, port) = [queue EXCEPT ![port] = Append(@, d)]
    BY <1>2 DEF Sent
  <2>2. /\ Append(queue[port], d) \in Seq(Datagrams)
        /\ Len(Append(queue[port], d)) = Len(queue[port]) + 1 /\ Len(queue[port]) \in Nat
    BY <1>1, <1>2, AppendFacts
  <2>3. \A T : queue[port] \in Seq(T) /\ d \in T => Append(queue[port], d) \in Seq(T)
    OBVIOUS
  <2> HIDE DEF d
  <2>4. QueueCap \in Nat
    BY LearnerAssumption
  <2> QED
    BY <1>2, <2>1, <2>2, <2>3, <2>4 DEF d
<1>3. CASE ~(port \in Receivers /\ Len(queue[port]) < QueueCap)
  BY <1>3 DEF Sent
<1> QED
  BY <1>2, <1>3

(* What the objects beside the sockets keep, and their types.              *)
RestTypes ==
  /\ io \in {"idle", "running", "stopped", "dead", "refused", "wild", "destroyed"}
  /\ listening \in 0 .. setup.listens
  /\ {m_PacketsSeen, m_TotalBytesSeen} \subseteq [Pairs \cup {Sink} -> 0 .. UINT32 - 1]
  /\ m_PortToSendTo \in [Pairs -> Ports]
  /\ opened \in [Pairs -> Nat]
  /\ m_DownwardTrafficSeen \in BOOLEAN
  /\ m_Decoded \in Nat
  /\ engine \in Seq(PacketType)
  /\ {sent, received} \subseteq [Clients -> Nat]
  /\ m_PortToReceiveOn \in [Clients -> Ports]
  /\ unsolicited \in 0 .. setup.unasked
  /\ errors \in 0 .. setup.failures
  /\ observed \in Seq([pair : Pairs, data : PacketType])
  /\ served \in Seq(PacketType)
  /\ caller \in Senders

(* The types of the sockets.                                               *)
QueueTypes ==
  /\ queue \in [Receivers -> Seq(Datagrams)]
  /\ \A r \in Receivers : Len(queue[r]) <= QueueCap

OperationTypes ==
  /\ armed \in [Receivers -> Nat]
  /\ completed \in [Receivers -> Seq(PacketType)]
  /\ \A r \in Receivers : armed[r] + Len(completed[r]) <= Calls(r)

BufferTypes ==
  /\ buffer \in [Receivers -> PacketType]
  /\ remote \in [Receivers -> Ports]

(* The parts of TypeOK, by what the actions change together.               *)
LEMMA TypeParts ==
  TypeOK <=> setup \in Setups /\ QueueTypes /\ OperationTypes /\ BufferTypes /\ RestTypes
BY Zenon DEF TypeOK, QueueTypes, OperationTypes, BufferTypes, RestTypes, Datagrams, Senders

(* The same after a step, with the operations.                             *)
LEMMA TypeAfterStep ==
  ASSUME setup' \in Setups, QueueTypes', OperationTypes', BufferTypes', RestTypes', AlwaysListening'
  PROVE  TypeInv'
BY Zenon DEF TypeInv, TypeOK, QueueTypes, OperationTypes, BufferTypes, RestTypes, Datagrams, Senders

(* What a failed receive leaves is a packet.                               *)
LEMMA EmptyIsPacket == Empty \in PacketType
BY DEF Empty, Packet, PacketType

(* So is what the server sends back.                                       *)
LEMMA EchoedIsPacket ==
  ASSUME NEW packet \in PacketType
  PROVE  Echoed(packet) \in PacketType
BY DEF Echoed, PacketType

(* The packet a handler is given.                                          *)
LEMMA ReceivedFacts ==
  ASSUME OperationTypes, BufferTypes, NEW r \in Receivers, completed[r] # <<>>
  PROVE  /\ Received(r) \in PacketType
         /\ Head(completed[r]) = Empty => Received(r) = Empty
<1>1. Head(completed[r]) \in PacketType /\ buffer[r] \in PacketType
  BY TailFacts DEF OperationTypes, BufferTypes
<1>2. [buffer[r] EXCEPT !.size = Head(completed[r]).size] \in PacketType
  BY <1>1 DEF PacketType
<1> QED
  BY <1>2, EmptyIsPacket DEF Received

(* How many operations an object was told to start.                        *)
LEMMA CallsFacts ==
  ASSUME TypeInv
  PROVE  listening \in Nat /\ \A r \in Receivers : Calls(r) \in Nat
<1>1. listening \in 0 .. setup.listens /\ setup.listens \in Nat
  BY SetupParts DEF TypeInv, TypeOK
<1> QED
  BY <1>1 DEF Calls

(* The end of an operation leaves its object with those it has.            *)
LEMMA CompleteFacts ==
  ASSUME TypeInv, NEW r \in Receivers, NEW packet \in PacketType, Complete(r, packet),
         listening' = listening
  PROVE  /\ OperationTypes' /\ AlwaysListening'
         /\ \A q \in Receivers :
              completed'[q] = IF q = r THEN Append(completed[r], packet) ELSE completed[q]
<1>1. /\ armed \in [Receivers -> Nat] /\ completed \in [Receivers -> Seq(PacketType)]
      /\ \A q \in Receivers : armed[q] + Len(completed[q]) <= Calls(q)
      /\ armed[r] > 0 /\ io' = io
      /\ armed' = [armed EXCEPT ![r] = @ - 1]
      /\ completed' = [completed EXCEPT ![r] = Append(@, packet)]
  BY DEF TypeInv, TypeOK, Complete
<1>2. /\ Append(completed[r], packet) \in Seq(PacketType)
      /\ Len(Append(completed[r], packet)) = Len(completed[r]) + 1 /\ Len(completed[r]) \in Nat
  BY <1>1, AppendFacts
<1>3. \A q \in Receivers : completed'[q] = IF q = r THEN Append(completed[r], packet) ELSE completed[q]
  BY <1>1
<1>4. armed[r] - 1 \in Nat
  BY <1>1
<1>5. \A q \in Receivers : armed'[q] = IF q = r THEN armed[q] - 1 ELSE armed[q]
  BY <1>1
<1>6. armed' \in [Receivers -> Nat] /\ completed' \in [Receivers -> Seq(PacketType)]
  BY <1>1, <1>2, <1>4
<1>7. \A q \in Receivers : armed'[q] + Len(completed'[q]) = armed[q] + Len(completed[q])
  BY <1>1, <1>2, <1>3, <1>5
<1>8. \A q \in Receivers : Calls(q)' = Calls(q)
  BY DEF Calls
<1>9. AlwaysListening'
  BY <1>1, <1>7, <1>8, Zenon DEF TypeInv, AlwaysListening
<1>10. \A q \in Receivers : armed'[q] + Len(completed'[q]) <= Calls(q)'
  BY <1>1, <1>7, <1>8
<1> QED
  BY <1>3, <1>6, <1>9, <1>10 DEF OperationTypes

(* What a call of a handler takes.                                         *)
LEMMA CalledFacts ==
  ASSUME TypeInv, NEW r \in Receivers, Called(r)
  PROVE  /\ completed' \in [Receivers -> Seq(PacketType)]
         /\ \A q \in Receivers : q # r => completed'[q] = completed[q]
         /\ Len(completed'[r]) = Len(completed[r]) - 1
         /\ Len(completed[r]) \in Nat \ {0} /\ completed[r] # <<>>
<1>1. completed \in [Receivers -> Seq(PacketType)] /\ completed[r] # <<>>
      /\ completed' = [completed EXCEPT ![r] = Tail(@)]
  BY DEF TypeInv, TypeOK, Called
<1>2. /\ Tail(completed[r]) \in Seq(PacketType)
      /\ Len(Tail(completed[r])) = Len(completed[r]) - 1 /\ Len(completed[r]) \in Nat
  BY <1>1, TailFacts
<1>3. Len(completed[r]) # 0
  BY <1>1, EmptySeq
<1> QED
  BY <1>1, <1>2, <1>3

(* A handler that has run leaves its object receiving again, or has ended  *)
(* the process.                                                            *)
LEMMA HandlerFacts ==
  ASSUME TypeInv, NEW r \in Receivers, Called(r),
         \/ armed' = Rearmed(r) /\ io' = io
         \/ armed' = armed /\ io' \in {"dead", "refused", "wild"}
  PROVE  OperationTypes' /\ AlwaysListening'
<1>1. /\ armed \in [Receivers -> Nat] /\ completed \in [Receivers -> Seq(PacketType)]
      /\ \A q \in Receivers : armed[q] + Len(completed[q]) <= Calls(q)
  BY DEF TypeInv, TypeOK
<1>2. /\ completed' \in [Receivers -> Seq(PacketType)]
      /\ \A q \in Receivers : q # r => completed'[q] = completed[q]
      /\ Len(completed'[r]) = Len(completed[r]) - 1
      /\ Len(completed[r]) \in Nat \ {0}
  BY CalledFacts
<1>3. \A q \in Receivers : Calls(q)' = Calls(q)
  BY DEF Calls, Called, world
<1>4. \A q \in Receivers : armed[q] \in Nat /\ Len(completed[q]) \in Nat
  BY <1>1
<1>5. CASE armed' = Rearmed(r) /\ io' = io
  <2>1. armed' = [armed EXCEPT ![r] = armed[r] + 1]
    BY <1>5 DEF Rearmed, mStartReceive
  <2>2. \A q \in Receivers : armed'[q] = IF q = r THEN armed[q] + 1 ELSE armed[q]
    BY <1>1, <2>1
  <2>3. ASSUME NEW q \in Receivers
        PROVE  armed'[q] + Len(completed'[q]) = armed[q] + Len(completed[q])
    <3>1. armed[q] \in Nat /\ Len(completed[q]) \in Nat
      BY <1>4
    <3>2. CASE q = r
      <4>1. armed'[q] = armed[q] + 1 /\ Len(completed'[q]) = Len(completed[q]) - 1
        BY <1>2, <2>2, <3>2
      <4> QED
        BY <3>1, <4>1
    <3>3. CASE q # r
      BY <1>2, <2>2, <3>3
    <3> QED
      BY <3>2, <3>3
  <2>4. armed' \in [Receivers -> Nat]
    BY <1>1, <1>4, <2>1
  <2>5. AlwaysListening'
    BY <1>3, <1>5, <2>3, Zenon DEF TypeInv, AlwaysListening
  <2>6. \A q \in Receivers : armed'[q] + Len(completed'[q]) <= Calls(q)'
    BY <1>1, <1>3, <2>3
  <2> QED
    BY <1>2, <2>4, <2>5, <2>6 DEF OperationTypes
<1>6. CASE armed' = armed /\ io' \in {"dead", "refused", "wild"}
  <2>1. \A q \in Receivers : Calls(q) \in Nat
    BY CallsFacts
  <2>2. ASSUME NEW q \in Receivers
        PROVE  armed'[q] + Len(completed'[q]) <= Calls(q)'
    <3>1. /\ armed[q] \in Nat /\ Len(completed[q]) \in Nat /\ Calls(q) \in Nat
          /\ armed[q] + Len(completed[q]) <= Calls(q) /\ Calls(q)' = Calls(q)
      BY <1>1, <1>3, <1>4, <2>1
    <3>2. Len(completed'[q]) \in {Len(completed[q]), Len(completed[q]) - 1}
      BY <1>2
    <3>3. armed'[q] = armed[q]
      BY <1>6
    <3> QED
      BY <3>1, <3>2, <3>3
  <2> QED
    BY <1>1, <1>2, <1>6, <2>2 DEF OperationTypes, AlwaysListening
<1> QED
  BY <1>5, <1>6

(* The end of a handler that sends.                                        *)
LEMMA SendOnFacts ==
  ASSUME NEW r, NEW packet, NEW port, SendOn(r, packet, port)
  PROVE  /\ \/ armed' = Rearmed(r) /\ io' = io
            \/ armed' = armed /\ io' = "refused"
         /\ queue' = queue \/ queue' = Sent(packet, Elsewhere, port)
BY DEF SendOn, Ends

(* The constructors establish the types and the operations.                *)
LEMMA TypeInit == Init => TypeInv
<1> SUFFICES ASSUME Init PROVE TypeInv
  OBVIOUS
<1> USE DEF Init
<1>1. QueueTypes
  BY EmptySeq, LearnerAssumption DEF QueueTypes
<1>2. OperationTypes /\ AlwaysListening
  BY EmptySeq DEF OperationTypes, AlwaysListening, InitiallyArmed, Calls
<1>3. BufferTypes
  BY EmptyIsPacket, SetupParts DEF BufferTypes, InitialRemote, Ports, Receivers, Pairs
<1>4. RestTypes
  <2>1. m_PortToSendTo \in [Pairs -> Ports] /\ opened \in [Pairs -> Nat]
    BY SetupParts DEF PairsInit, Ports, Receivers
  <2>2. {m_PacketsSeen, m_TotalBytesSeen} \subseteq [Pairs \cup {Sink} -> 0 .. UINT32 - 1]
    BY LearnerAssumption DEF CountersInit
  <2>3. m_DownwardTrafficSeen \in BOOLEAN /\ m_Decoded \in Nat /\ engine \in Seq(PacketType)
        /\ observed \in Seq([pair : Pairs, data : PacketType])
    BY EmptySeq DEF LearnerInit
  <2>4. {sent, received} \subseteq [Clients -> Nat] /\ m_PortToReceiveOn \in [Clients -> Ports]
    BY DEF ClientsInit, Ports
  <2>5. unsolicited \in 0 .. setup.unasked /\ errors \in 0 .. setup.failures
    BY SetupParts
  <2>6. served \in Seq(PacketType) /\ caller \in Senders
    BY EmptySeq DEF Senders
  <2>7. listening \in 0 .. setup.listens /\ io = "idle"
    BY SetupParts
  <2> QED
    BY <2>1, <2>2, <2>3, <2>4, <2>5, <2>6, <2>7, Zenon DEF RestTypes
<1> QED
  BY <1>1, <1>2, <1>3, <1>4, TypeParts DEF TypeInv

(* A receive.                                                              *)
LEMMA ReceiveFromType ==
  ASSUME TypeInv, NEW r \in Receivers, ReceiveFrom(r)
  PROVE  TypeInv'
<1>1. setup \in Setups /\ QueueTypes /\ BufferTypes /\ RestTypes
  BY TypeParts DEF TypeInv
<1>3. /\ Head(queue[r]) \in Datagrams /\ Tail(queue[r]) \in Seq(Datagrams)
      /\ Len(Tail(queue[r])) <= QueueCap
  BY <1>1, TailFacts, LearnerAssumption DEF QueueTypes, ReceiveFrom
<1>4. Head(queue[r]).data \in PacketType /\ Head(queue[r]).sender \in Senders
  BY <1>3 DEF Datagrams
<1>2. OperationTypes' /\ AlwaysListening'
  BY <1>4, CompleteFacts DEF ReceiveFrom, world
<1>5. QueueTypes'
  BY <1>1, <1>3 DEF QueueTypes, ReceiveFrom
<1>6. BufferTypes'
  BY <1>1, <1>4 DEF BufferTypes, ReceiveFrom, Senders, Ports, Receivers
<1>7. caller' \in Senders
  BY <1>1, <1>4 DEF RestTypes, ReceiveFrom
<1>8. setup' = setup /\ RestTypes'
  BY <1>1, <1>7, Zenon DEF RestTypes, ReceiveFrom, Complete, world, counters, learner, clients
<1> QED
  BY <1>1, <1>2, <1>5, <1>6, <1>8, TypeParts, Zenon DEF TypeInv, TypeOK, QueueTypes, OperationTypes,
     BufferTypes, RestTypes, Datagrams, Senders

(* A receive that fails.                                                   *)
LEMMA ReceiveErrorType ==
  ASSUME TypeInv, NEW r \in Receivers, ReceiveError(r)
  PROVE  TypeInv'
<1>1. setup \in Setups /\ QueueTypes /\ BufferTypes /\ RestTypes
  BY TypeParts DEF TypeInv
<1>2. OperationTypes' /\ AlwaysListening'
  BY CompleteFacts, EmptyIsPacket DEF ReceiveError
<1>3. setup' = setup /\ QueueTypes' /\ BufferTypes'
  BY <1>1 DEF QueueTypes, BufferTypes, ReceiveError
<1>4. errors' \in 0 .. setup.failures
  BY <1>1, SetupParts DEF RestTypes, ReceiveError
<1>5. RestTypes'
  BY <1>1, <1>3, <1>4, Zenon DEF RestTypes, ReceiveError, Complete, counters, learner, clients
<1> QED
  BY <1>1, <1>2, <1>3, <1>5, TypeAfterStep

(* The owner of the objects.                                               *)
LEMMA ListeningType ==
  ASSUME TypeInv, mStartListening
  PROVE  TypeInv'
<1>1. setup \in Setups /\ QueueTypes /\ OperationTypes /\ BufferTypes /\ RestTypes
  BY TypeParts DEF TypeInv
<1>2. /\ armed \in [Receivers -> Nat] /\ completed' = completed
      /\ listening \in Nat /\ listening' = listening + 1
      /\ listening < setup.listens /\ io' = io /\ setup' = setup
  BY <1>1, CallsFacts DEF OperationTypes, mStartListening
<1>3. \A r \in Receivers : armed'[r] = IF r \in Pairs THEN armed[r] + 1 ELSE armed[r]
  BY DEF mStartListening, mStartReceive
<1>4. ASSUME NEW r \in Receivers
      PROVE  /\ Len(completed[r]) \in Nat /\ armed[r] \in Nat
             /\ Calls(r)' = IF r \in Pairs THEN Calls(r) + 1 ELSE Calls(r)
             /\ armed[r] + Len(completed[r]) <= Calls(r) /\ Calls(r) \in Nat
  <2>1. Calls(r)' = IF r \in Pairs THEN Calls(r) + 1 ELSE Calls(r)
    BY <1>2 DEF Calls
  <2>2. completed[r] \in Seq(PacketType) /\ armed[r] \in Nat
        /\ armed[r] + Len(completed[r]) <= Calls(r)
    BY <1>1 DEF OperationTypes
  <2>3. Calls(r) \in Nat
    BY CallsFacts
  <2> QED
    BY <2>1, <2>2, <2>3
<1>5. OperationTypes'
  <2>1. armed' = [r \in Receivers |-> armed'[r]]
    BY DEF mStartListening
  <2>2. ASSUME NEW r \in Receivers
        PROVE  armed'[r] \in Nat /\ armed'[r] + Len(completed'[r]) <= Calls(r)'
    <3>1. armed'[r] = (IF r \in Pairs THEN armed[r] + 1 ELSE armed[r]) /\ completed'[r] = completed[r]
      BY <1>2, <1>3
    <3> QED
      BY <1>4, <3>1
  <2>3. armed' \in [Receivers -> Nat]
    BY <2>1, <2>2
  <2> QED
    BY <1>1, <1>2, <2>2, <2>3 DEF OperationTypes
<1>6. AlwaysListening'
  <2>1. ASSUME io \notin {"dead", "refused", "wild"}, NEW r \in Receivers
        PROVE  armed'[r] + Len(completed'[r]) = Calls(r)'
    <3>1. armed[r] + Len(completed[r]) = Calls(r)
      BY <2>1 DEF TypeInv, AlwaysListening
    <3>2. armed'[r] = (IF r \in Pairs THEN armed[r] + 1 ELSE armed[r]) /\ completed'[r] = completed[r]
      BY <1>2, <1>3
    <3> QED
      BY <1>4, <3>1, <3>2
  <2> QED
    BY <1>2, <2>1 DEF AlwaysListening
<1>7. setup' = setup /\ QueueTypes' /\ BufferTypes'
  BY <1>1 DEF QueueTypes, BufferTypes, mStartListening
<1>8. RestTypes'
  <2>1. listening' \in 0 .. setup'.listens
    BY <1>1, <1>2, SetupParts
  <2> QED
    BY <1>1, <1>7, <2>1, Zenon DEF RestTypes, mStartListening, counters, learner, clients
<1> QED
  BY <1>1, <1>5, <1>6, <1>7, <1>8, TypeAfterStep

(* The service starts, stops and is destroyed with the objects.            *)
LEMMA ServiceType ==
  ASSUME TypeInv, Run \/ mStop \/ Destroy
  PROVE  TypeInv'
<1>1. setup \in Setups /\ QueueTypes /\ OperationTypes /\ BufferTypes /\ RestTypes /\ AlwaysListening
  BY TypeParts DEF TypeInv
<1>2. UNCHANGED <<sockets, counters, learner, clients, served, caller, world>>
  BY DEF Run, mStop, Destroy
<1>3. io' \in {"running", "stopped", "wild", "destroyed"} /\ io \in {"idle", "running", "stopped"}
  BY DEF Run, mStop, Destroy
<1>4. setup' = setup /\ QueueTypes' /\ OperationTypes' /\ BufferTypes' /\ AlwaysListening'
  BY <1>1, <1>2, <1>3
  DEF QueueTypes, OperationTypes, BufferTypes, AlwaysListening, Calls, sockets, world
<1>5. RestTypes'
  BY <1>1, <1>2, <1>3 DEF RestTypes, counters, learner, clients, world
<1> QED
  BY <1>1, <1>4, <1>5, TypeAfterStep

(* The frame that a client sends next.                                     *)
LEMMA FrameFacts ==
  ASSUME setup \in Setups, RestTypes, NEW c \in Clients, mSend(c)
  PROVE  /\ sent[c] \in Nat /\ sent[c] < Len(setup.frames)
         /\ setup.frames[sent[c] + 1] \in Nat
<1>1. sent \in [Clients -> Nat] /\ setup.frames \in Seq(Nat)
  BY SetupParts DEF RestTypes
<1>2. sent[c] < Len(setup.frames)
  BY DEF mSend
<1>3. \A q \in Seq(Nat), n \in Nat : n < Len(q) => q[n + 1] \in Nat
  OBVIOUS
<1> QED
  BY <1>1, <1>2, <1>3

(* The senders.                                                            *)
LEMMA SendType ==
  ASSUME TypeInv, NEW c \in Clients, mSend(c)
  PROVE  TypeInv'
<1>1. setup \in Setups /\ QueueTypes /\ OperationTypes /\ BufferTypes /\ RestTypes /\ AlwaysListening
  BY TypeParts DEF TypeInv
<1>2. sent[c] \in Nat /\ sent[c] < Len(setup.frames) /\ setup.frames[sent[c] + 1] \in Nat
  BY <1>1, FrameFacts
<1>3. Packet(c, sent[c] + 1, setup.frames[sent[c] + 1]) \in PacketType
  BY <1>2 DEF Packet, PacketType
<1>4. QueueTypes'
  BY <1>1, <1>3, SentFacts, Zenon DEF QueueTypes, mSend, Senders
<1>5. setup' = setup /\ OperationTypes' /\ BufferTypes' /\ AlwaysListening'
  BY <1>1 DEF OperationTypes, BufferTypes, AlwaysListening, Calls, mSend, world
<1>6. sent' \in [Clients -> Nat] /\ m_PortToReceiveOn' \in [Clients -> Ports]
  BY <1>1, <1>2 DEF RestTypes, mSend, mReadParametersFromLocalSocket, Ports, Receivers
<1>7. RestTypes'
  BY <1>1, <1>6 DEF RestTypes, mSend, counters, learner, world
<1> QED
  BY <1>1, <1>4, <1>5, <1>7, TypeAfterStep

(* A program below sends without being asked.                              *)
LEMMA UnsolicitedType ==
  ASSUME TypeInv, SendUnsolicited
  PROVE  TypeInv'
<1>1. setup \in Setups /\ QueueTypes /\ OperationTypes /\ BufferTypes /\ RestTypes /\ AlwaysListening
  BY TypeParts DEF TypeInv
<1>2. setup' = setup /\ unsolicited' \in 0 .. setup.unasked /\ unsolicited' \in Nat
  BY <1>1, SetupParts DEF RestTypes, SendUnsolicited
<1>3. Packet(Elsewhere, unsolicited', 1) \in PacketType
  BY <1>2 DEF Packet, PacketType
<1>4. QueueTypes'
  BY <1>1, <1>3, SentFacts, Zenon DEF QueueTypes, SendUnsolicited, Senders
<1>5. OperationTypes' /\ BufferTypes' /\ AlwaysListening'
  BY <1>1 DEF OperationTypes, BufferTypes, AlwaysListening, Calls, SendUnsolicited
<1>6. RestTypes'
  BY <1>1, <1>2 DEF RestTypes, SendUnsolicited, counters, learner, clients
<1> QED
  BY <1>1, <1>2, <1>4, <1>5, <1>6, TypeAfterStep

(* A counter of a fixed width keeps to it.                                 *)
LEMMA WrapFacts ==
  ASSUME NEW x \in Nat
  PROVE  x % UINT32 \in 0 .. UINT32 - 1
BY LearnerAssumption

(* The counters of a pair or of the sink.                                  *)
LEMMA CountedType ==
  ASSUME RestTypes, NEW r \in Pairs \cup {Sink}, Received(r) \in PacketType, Counted(r)
  PROVE  /\ {m_PacketsSeen', m_TotalBytesSeen'} \subseteq [Pairs \cup {Sink} -> 0 .. UINT32 - 1]
         /\ \A q \in Pairs \cup {Sink} :
              m_PacketsSeen'[q] = IF q = r THEN (m_PacketsSeen[q] + 1) % UINT32 ELSE m_PacketsSeen[q]
<1> DEFINE N == 0 .. UINT32 - 1
<1>1. Received(r).size \in Nat
  BY DEF PacketType
<1>2. m_PacketsSeen \in [Pairs \cup {Sink} -> N] /\ m_TotalBytesSeen \in [Pairs \cup {Sink} -> N]
  BY DEF RestTypes
<1>3. m_PacketsSeen[r] + 1 \in Nat /\ m_TotalBytesSeen[r] + Received(r).size \in Nat
  BY <1>1, <1>2
<1>4. /\ (m_PacketsSeen[r] + 1) % UINT32 \in N
      /\ (m_TotalBytesSeen[r] + Received(r).size) % UINT32 \in N
  BY <1>3, WrapFacts
<1>5. /\ m_PacketsSeen' = [m_PacketsSeen EXCEPT ![r] = (m_PacketsSeen[r] + 1) % UINT32]
      /\ m_TotalBytesSeen' = [m_TotalBytesSeen EXCEPT ![r] =
                                (m_TotalBytesSeen[r] + Received(r).size) % UINT32]
  BY DEF Counted
<1> HIDE DEF N
<1>6. m_PacketsSeen' \in [Pairs \cup {Sink} -> N] /\ m_TotalBytesSeen' \in [Pairs \cup {Sink} -> N]
  BY <1>2, <1>4, <1>5
<1> QED
  BY <1>2, <1>5, <1>6 DEF N

(* What mProcessPacket leaves.                                             *)
LEMMA ProcessType ==
  ASSUME RestTypes, BufferTypes, NEW p \in Pairs, NEW packet \in PacketType,
         mProcessPacket(p, packet)
  PROVE  /\ observed' \in Seq([pair : Pairs, data : PacketType])
         /\ engine' \in Seq(PacketType)
         /\ m_Decoded' \in Nat
         /\ m_PortToSendTo' \in [Pairs -> Ports]
         /\ opened' \in [Pairs -> Nat]
         /\ m_DownwardTrafficSeen' \in BOOLEAN
<1>1. packet.size \in Nat /\ remote[HighToLow] \in Ports
  BY DEF BufferTypes, Receivers, Pairs, PacketType
<1>2. observed' \in Seq([pair : Pairs, data : PacketType]) /\ engine' \in Seq(PacketType)
  BY DEF RestTypes, mProcessPacket
<1>3. m_Decoded' \in Nat
  <2>1. m_Decoded \in Nat
    BY DEF RestTypes
  <2>2. m_Decoded' \in {m_Decoded, m_Decoded + packet.size}
    BY DEF mProcessPacket
  <2> QED
    BY <1>1, <2>1, <2>2
<1>4. CASE SetsUpwardPort(p)
  <2>1. /\ m_PortToSendTo' = [m_PortToSendTo EXCEPT ![LowToHigh] = remote[HighToLow]]
        /\ opened' = [opened EXCEPT ![LowToHigh] = @ + 1]
        /\ m_DownwardTrafficSeen' = TRUE
    BY <1>4 DEF mProcessPacket, mSetOutboundPortAndOpenSocket, UpwardPort, mGetPortOfClient
  <2>2. m_PortToSendTo' \in [Pairs -> Ports]
    BY <1>1, <2>1 DEF RestTypes
  <2>3. opened' \in [Pairs -> Nat]
    <3>1. opened \in [Pairs -> Nat] /\ LowToHigh \in Pairs
      BY DEF RestTypes, Pairs
    <3>2. opened[LowToHigh] + 1 \in Nat
      BY <3>1
    <3> QED
      BY <2>1, <3>1, <3>2
  <2> QED
    BY <1>2, <1>3, <2>1, <2>2, <2>3
<1>5. CASE ~SetsUpwardPort(p)
  BY <1>2, <1>3, <1>5 DEF mProcessPacket, RestTypes
<1> QED
  BY <1>4, <1>5

(* How the handler of a pair ends.                                         *)
LEMMA PairEnds ==
  ASSUME NEW p \in Pairs, HandlePair(p), opened' \in [Pairs -> Nat]
  PROVE  /\ \/ armed' = Rearmed(p) /\ io' = io
            \/ armed' = armed /\ io' \in {"dead", "refused", "wild"}
         /\ queue' = queue \/ queue' = Sent(Received(p), Elsewhere, m_PortToSendTo'[p])
         /\ io = "running"
         /\ io' = "wild" <=> opened'[p] = 0
         /\ io' = "dead" => opened'[p] > 0 /\ m_PortToSendTo'[p] = Port0
         /\ opened'[p] > 0 /\ m_PortToSendTo'[p] = Port0 => io' = "dead"
<1>1. opened'[p] \in Nat /\ io = "running"
  BY DEF HandlePair, Called
<1>2. CASE opened'[p] = 0
  BY <1>1, <1>2 DEF HandlePair, Ends
<1>3. CASE opened'[p] > 0 /\ m_PortToSendTo'[p] = Port0
  BY <1>1, <1>3 DEF HandlePair, Ends
<1>4. CASE opened'[p] > 0 /\ m_PortToSendTo'[p] # Port0
  <2>1. SendOn(p, Received(p), m_PortToSendTo'[p])
    BY <1>1, <1>4 DEF HandlePair
  <2>2. /\ \/ armed' = Rearmed(p) /\ io' = io
           \/ armed' = armed /\ io' = "refused"
        /\ queue' = queue \/ queue' = Sent(Received(p), Elsewhere, m_PortToSendTo'[p])
    BY <2>1, SendOnFacts, Zenon
  <2> QED
    BY <1>1, <1>4, <2>2
<1> QED
  BY <1>1, <1>2, <1>3, <1>4

(* A datagram sent or not, the queues keep their types.                    *)
LEMMA QueuesAfterSend ==
  ASSUME QueueTypes, NEW packet \in PacketType, NEW port,
         queue' = queue \/ queue' = Sent(packet, Elsewhere, port)
  PROVE  QueueTypes'
<1>1. Elsewhere \in Senders
  BY DEF Senders
<1>2. CASE queue' = queue
  BY <1>2 DEF QueueTypes
<1>3. CASE queue' = Sent(packet, Elsewhere, port)
  BY <1>1, <1>3, SentFacts, Zenon DEF QueueTypes
<1> QED
  BY <1>2, <1>3

(* The handlers: of a pair,                                                *)
LEMMA HandlePairType ==
  ASSUME TypeInv, NEW p \in Pairs, HandlePair(p)
  PROVE  TypeInv'
<1>1. /\ setup \in Setups /\ QueueTypes /\ BufferTypes /\ RestTypes /\ p \in Receivers
      /\ OperationTypes
  BY TypeParts DEF TypeInv, Receivers
<1>2. /\ Called(p) /\ Counted(p) /\ mProcessPacket(p, Received(p))
      /\ UNCHANGED <<buffer, remote, caller, world, clients, served>>
  BY DEF HandlePair, Called
<1>3. Received(p) \in PacketType
  BY <1>1, <1>2, ReceivedFacts DEF Called
<1>4. /\ observed' \in Seq([pair : Pairs, data : PacketType])
      /\ engine' \in Seq(PacketType)
      /\ m_Decoded' \in Nat
      /\ m_PortToSendTo' \in [Pairs -> Ports]
      /\ opened' \in [Pairs -> Nat]
      /\ m_DownwardTrafficSeen' \in BOOLEAN
  BY <1>1, <1>2, <1>3, ProcessType
<1>5. /\ \/ armed' = Rearmed(p) /\ io' = io
         \/ armed' = armed /\ io' \in {"dead", "refused", "wild"}
      /\ queue' = queue \/ queue' = Sent(Received(p), Elsewhere, m_PortToSendTo'[p])
      /\ io = "running"
  BY <1>4, PairEnds
<1>6. OperationTypes' /\ AlwaysListening'
  BY <1>1, <1>2, <1>5, HandlerFacts
<1>7. setup' = setup /\ BufferTypes'
  BY <1>1, <1>2 DEF BufferTypes, world
<1>8. QueueTypes'
  BY <1>1, <1>3, <1>5, QueuesAfterSend, Zenon
<1>9. RestTypes'
  <2>1. {m_PacketsSeen', m_TotalBytesSeen'} \subseteq [Pairs \cup {Sink} -> 0 .. UINT32 - 1]
    BY <1>1, <1>2, <1>3, CountedType
  <2>2. /\ {sent', received'} \subseteq [Clients -> Nat] /\ m_PortToReceiveOn' \in [Clients -> Ports]
        /\ served' \in Seq(PacketType)
    BY <1>1, <1>2 DEF RestTypes, clients
  <2>3. /\ listening' \in 0 .. setup'.listens /\ unsolicited' \in 0 .. setup'.unasked
        /\ errors' \in 0 .. setup'.failures /\ caller' \in Senders
    BY <1>1, <1>2 DEF RestTypes, world
  <2>4. io' \in {"running", "dead", "refused", "wild"}
    BY <1>5
  <2> QED
    BY <1>4, <2>1, <2>2, <2>3, <2>4 DEF RestTypes
<1> QED
  BY <1>1, <1>6, <1>7, <1>8, <1>9, TypeAfterStep

(* of the server,                                                          *)
LEMMA HandleServerType ==
  ASSUME TypeInv, HandleServer
  PROVE  TypeInv'
<1>1. /\ setup \in Setups /\ QueueTypes /\ BufferTypes /\ RestTypes /\ Server \in Receivers
      /\ OperationTypes
  BY TypeParts DEF TypeInv, Receivers
<1>2. Received(Server) \in PacketType /\ Echoed(Received(Server)) \in PacketType
  BY <1>1, ReceivedFacts, EchoedIsPacket DEF HandleServer, Called
<1>3. /\ \/ armed' = Rearmed(Server) /\ io' = io
         \/ armed' = armed /\ io' = "refused"
      /\ queue' = queue \/ queue' = Sent(Echoed(Received(Server)), Elsewhere, LowToHigh)
      /\ io = "running"
  BY SendOnFacts DEF HandleServer, Called
<1>4. OperationTypes' /\ AlwaysListening'
  BY <1>1, <1>3, HandlerFacts DEF HandleServer
<1>5. setup' = setup /\ BufferTypes'
  BY <1>1 DEF BufferTypes, HandleServer, Called, world
<1>6. QueueTypes'
  BY <1>1, <1>2, <1>3, QueuesAfterSend, Zenon
<1>7. served' \in Seq(PacketType) /\ io' \in {"running", "refused"}
  BY <1>1, <1>2, <1>3 DEF RestTypes, HandleServer
<1>8. RestTypes'
  BY <1>1, <1>7 DEF RestTypes, HandleServer, Called, counters, learner, clients, world
<1> QED
  BY <1>1, <1>4, <1>5, <1>6, <1>8, TypeAfterStep

(* of the sink,                                                            *)
LEMMA HandleSinkType ==
  ASSUME TypeInv, HandleSink
  PROVE  TypeInv'
<1>1. /\ setup \in Setups /\ QueueTypes /\ BufferTypes /\ RestTypes /\ Sink \in Receivers
      /\ OperationTypes
  BY TypeParts DEF TypeInv, Receivers
<1>2. Received(Sink) \in PacketType
  BY <1>1, ReceivedFacts DEF HandleSink, Handled, Called
<1>3. OperationTypes' /\ AlwaysListening'
  BY <1>1, HandlerFacts DEF HandleSink, Handled
<1>4. setup' = setup /\ BufferTypes' /\ QueueTypes'
  BY <1>1 DEF BufferTypes, QueueTypes, HandleSink, Handled, Called, world
<1>5. {m_PacketsSeen', m_TotalBytesSeen'} \subseteq [Pairs \cup {Sink} -> 0 .. UINT32 - 1]
  BY <1>1, <1>2, CountedType DEF HandleSink
<1>6. served' \in Seq(PacketType)
  BY <1>1, <1>2 DEF RestTypes, HandleSink
<1>7. RestTypes'
  BY <1>1, <1>5, <1>6, Zenon DEF RestTypes, HandleSink, Handled, Called, learner, clients, world
<1> QED
  BY <1>1, <1>3, <1>4, <1>7, TypeAfterStep

(* of a client.                                                            *)
LEMMA HandleClientType ==
  ASSUME TypeInv, NEW c \in Clients, HandleClient(c)
  PROVE  TypeInv'
<1>1. setup \in Setups /\ QueueTypes /\ BufferTypes /\ RestTypes /\ c \in Receivers
  BY TypeParts DEF TypeInv, Receivers
<1>2. OperationTypes' /\ AlwaysListening'
  BY <1>1, HandlerFacts DEF HandleClient, Handled
<1>3. setup' = setup /\ BufferTypes' /\ QueueTypes'
  BY <1>1 DEF BufferTypes, QueueTypes, HandleClient, Handled, Called, world
<1>4. {sent', received'} \subseteq [Clients -> Nat]
  BY <1>1 DEF RestTypes, HandleClient
<1>5. RestTypes'
  BY <1>1, <1>4, Zenon DEF RestTypes, HandleClient, Handled, Called, counters, learner, world
<1> QED
  BY <1>1, <1>2, <1>3, <1>5, TypeAfterStep

(* The next-state relation, one case per action.                           *)
LEMMA StepCases ==
  ASSUME [Next]_vars
  PROVE  \/ \E r \in Receivers : ReceiveFrom(r) \/ ReceiveError(r)
         \/ \E p \in Pairs : HandlePair(p)
         \/ HandleServer \/ HandleSink
         \/ \E c \in Clients : HandleClient(c) \/ mSend(c)
         \/ mStartListening \/ Run \/ mStop \/ Destroy \/ SendUnsolicited
         \/ UNCHANGED vars
BY Zenon DEF Next, IoThread, Owner, Sources

(* Every step keeps the types and the operations.                          *)
LEMMA TypeStep == TypeInv /\ [Next]_vars => TypeInv'
<1> SUFFICES ASSUME TypeInv, [Next]_vars PROVE TypeInv'
  OBVIOUS
<1>1. ASSUME UNCHANGED vars PROVE TypeInv'
  BY <1>1, Zenon DEF vars, sockets, counters, learner, clients, world, TypeInv, TypeOK,
     AlwaysListening, Calls
<1> QED
  BY <1>1, StepCases, ReceiveFromType, ReceiveErrorType, HandlePairType, HandleServerType,
     HandleSinkType, HandleClientType, SendType, ListeningType, ServiceType, UnsolicitedType, Zenon

(* Types, and no more operations per object than it was told to start.     *)
THEOREM TypeCorrect == Spec => []TypeOK
<1>1. TypeInv => TypeOK
  BY DEF TypeInv
<1> QED
  BY <1>1, TypeInit, TypeStep, PTL DEF Spec

(* No path through a handler forgets to receive again, unless it ends the  *)
(* process.                                                                *)
THEOREM ListeningStays == Spec => []AlwaysListening
<1>1. TypeInv => AlwaysListening
  BY DEF TypeInv
<1> QED
  BY <1>1, TypeInit, TypeStep, PTL DEF Spec

(* Every U numbers the remainder starts again.                             *)
LEMMA ModUnique ==
  ASSUME NEW U \in Nat \ {0}, NEW q \in Nat, NEW r \in 0 .. U - 1
  PROVE  (U * q + r) % U = r
OBVIOUS

\* The remainder of a sum of two remainders.
LEMMA ModSmall ==
  ASSUME NEW U \in Nat \ {0}, NEW x \in 0 .. 2 * U - 1
  PROVE  x % U = IF x < U THEN x ELSE x - U
OBVIOUS

(* Counting one more, the remainder goes on or starts again.               *)
LEMMA ModNext ==
  ASSUME NEW U \in Nat \ {0}, NEW n \in Nat
  PROVE  /\ n % U \in 0 .. U - 1
         /\ (n + 1) % U = IF n % U = U - 1 THEN 0 ELSE (n % U) + 1
<1> DEFINE q == n \div U
           r == n % U
<1>1. r \in 0 .. U - 1 /\ q \in Nat /\ n = U * q + r
  OBVIOUS
<1> HIDE DEF q, r
<1>2. CASE r = U - 1
  <2>1. n + 1 = U * (q + 1) + 0
    BY <1>1, <1>2
  <2>2. (n + 1) % U = 0
    BY <1>1, <2>1, ModUnique
  <2> QED
    BY <1>1, <1>2, <2>2 DEF r
<1>3. CASE r # U - 1
  <2>1. n + 1 = U * q + (r + 1) /\ r + 1 \in 0 .. U - 1
    BY <1>1, <1>3
  <2>2. (n + 1) % U = r + 1
    BY <1>1, <2>1, ModUnique
  <2> QED
    BY <1>1, <1>3, <2>2 DEF r
<1> QED
  BY <1>2, <1>3

(* When the sum of two counters is right up to the width of all three, it  *)
(* is still so when one of them has counted.                               *)
LEMMA ModSum ==
  ASSUME NEW U \in Nat \ {0}, NEW a \in 0 .. U - 1, NEW b \in 0 .. U - 1, NEW n \in Nat,
         (a + b) % U = n % U
  PROVE  (((a + 1) % U) + b) % U = (n + 1) % U
<1> DEFINE x == (a + 1) % U
           y == n % U
           z == (n + 1) % U
<1>0. \A w \in 0 .. 2 * U - 1 : w % U = IF w < U THEN w ELSE w - U
  BY ModSmall
<1>1. z = IF y = U - 1 THEN 0 ELSE y + 1
  BY ModNext
<1>2. x = IF a + 1 < U THEN a + 1 ELSE a + 1 - U
  <2>1. a + 1 \in 0 .. 2 * U - 1
    OBVIOUS
  <2> QED
    BY <1>0, <2>1
<1>3. y = IF a + b < U THEN a + b ELSE a + b - U
  <2>1. a + b \in 0 .. 2 * U - 1
    OBVIOUS
  <2> QED
    BY <1>0, <2>1
<1> HIDE DEF x, y, z
<1> DEFINE w == x + b
<1>4. w \in 0 .. 2 * U - 1
  BY <1>2
<1>5. w = (IF a + 1 < U THEN a + b + 1 ELSE a + 1 - U + b)
  BY <1>2
<1> HIDE DEF w
<1>6. w % U = IF w < U THEN w ELSE w - U
  BY <1>0, <1>4, Zenon
<1>7. w % U = z
  BY <1>1, <1>3, <1>5, <1>6
<1> QED
  BY <1>7 DEF w, x, z

(* The quota is of both directions, nothing else moves the engine, and the *)
(* algorithm has decoded what was within the quota.                        *)
QuotaInv ==
  /\ (m_PacketsSeen[HighToLow] + m_PacketsSeen[LowToHigh]) % UINT32 = Len(observed) % UINT32
  /\ m_Decoded = 0 <=> \A k \in DOMAIN observed : InQuota(k) => observed[k].data.size = 0
  /\ EngineHoldsDuePackets

(* One more packet in a sequence of packets of which those of D are in     *)
(* another sequence, in order.                                             *)
LEMMA Positions ==
  ASSUME NEW n \in Nat, NEW D \in SUBSET (1 .. n)
  PROVE  /\ IsFiniteSet(D) /\ Cardinality(D) \in Nat
         /\ Cardinality(D \cup {n + 1}) = Cardinality(D) + 1
         /\ \A k \in D : Cardinality({j \in D : j <= k}) \in 1 .. Cardinality(D)
<1>1. IsFiniteSet(1 .. n)
  BY FS_Interval
<1>2. IsFiniteSet(D) /\ Cardinality(D) \in Nat
  BY <1>1, FS_Subset, FS_CardinalityType
<1>3. Cardinality(D \cup {n + 1}) = Cardinality(D) + 1
  <2>1. n + 1 \notin D
    OBVIOUS
  <2> QED
    BY <1>2, <2>1, FS_AddElement
<1>4. ASSUME NEW k \in D PROVE Cardinality({j \in D : j <= k}) \in 1 .. Cardinality(D)
  <2> DEFINE E == {j \in D : j <= k}
  <2>1. E \subseteq D /\ k \in E
    OBVIOUS
  <2>2. IsFiniteSet(E) /\ Cardinality(E) <= Cardinality(D) /\ Cardinality(E) \in Nat
    BY <1>2, <2>1, FS_Subset, FS_CardinalityType
  <2>3. Cardinality(E) # 0
    BY <2>1, <2>2, FS_EmptySet
  <2> HIDE DEF E
  <2>4. Cardinality(E) \in 1 .. Cardinality(D)
    BY <1>2, <2>2, <2>3
  <2> QED
    BY <2>4 DEF E
<1> QED
  BY <1>2, <1>3, <1>4

(* Which packets are due when one more has been observed.                  *)
LEMMA DueNext ==
  ASSUME TypeInv, QuotaInv, NEW p \in Pairs, HandlePair(p)
  PROVE  /\ Received(p) \in PacketType /\ Len(observed) \in Nat
         /\ Due \in SUBSET (1 .. Len(observed)) /\ DOMAIN observed' = 1 .. Len(observed) + 1
         /\ Len(observed') = Len(observed) + 1
         /\ \A k \in 1 .. Len(observed) : observed'[k] = observed[k]
         /\ observed'[Len(observed) + 1].data = Received(p)
         /\ Due' = IF WithinQuota /\ ~AnalysisEmpty(Received(p))
                   THEN Due \cup {Len(observed) + 1} ELSE Due
         /\ (m_PacketsSeen'[HighToLow] + m_PacketsSeen'[LowToHigh]) % UINT32 =
              (Len(observed) + 1) % UINT32
         /\ (m_Decoded = 0 <=> \A k \in DOMAIN observed : InQuota(k) => observed[k].data.size = 0)'
<1> DEFINE n == Len(observed)
           packet == Received(p)
<1>1. /\ setup \in Setups /\ BufferTypes /\ RestTypes /\ OperationTypes /\ setup' = setup
      /\ p \in Receivers /\ UINT32 \in Nat \ {0}
  BY TypeParts, LearnerAssumption DEF TypeInv, HandlePair, Called, world, Receivers
<1>2. packet \in PacketType /\ packet.size \in Nat /\ m_Decoded \in Nat
  <2>1. packet \in PacketType
    BY <1>1, ReceivedFacts DEF HandlePair, Called
  <2> QED
    BY <1>1, <2>1 DEF PacketType, RestTypes
<1>3. /\ observed \in Seq([pair : Pairs, data : PacketType])
      /\ [pair |-> p, data |-> packet] \in [pair : Pairs, data : PacketType]
      /\ observed' = Append(observed, [pair |-> p, data |-> packet])
  BY <1>1, <1>2 DEF RestTypes, HandlePair, mProcessPacket
<1>4. /\ n \in Nat /\ Len(observed') = n + 1 /\ DOMAIN observed' = 1 .. n + 1
      /\ DOMAIN observed = 1 .. n
      /\ \A k \in 1 .. n : observed'[k] = observed[k]
      /\ observed'[n + 1].data = packet
  <2> HIDE DEF packet
  <2> QED
    BY <1>3, AppendFacts
<1>5. (m_PacketsSeen'[HighToLow] + m_PacketsSeen'[LowToHigh]) % UINT32 = (n + 1) % UINT32
  <2> DEFINE a == m_PacketsSeen[HighToLow]
             b == m_PacketsSeen[LowToHigh]
  <2>1. a \in 0 .. UINT32 - 1 /\ b \in 0 .. UINT32 - 1
    BY <1>1 DEF RestTypes, Pairs
  <2>2. \A q \in Pairs :
          m_PacketsSeen'[q] = IF q = p THEN (m_PacketsSeen[q] + 1) % UINT32 ELSE m_PacketsSeen[q]
    BY <1>1, <1>2, CountedType DEF HandlePair
  <2>3. (a + b) % UINT32 = n % UINT32 /\ (b + a) % UINT32 = n % UINT32
    BY <2>1 DEF QuotaInv
  <2>4. CASE p = HighToLow
    <3>1. m_PacketsSeen'[HighToLow] = (a + 1) % UINT32 /\ m_PacketsSeen'[LowToHigh] = b
      BY <2>2, <2>4, PortsDiffer DEF Pairs
    <3>2. (((a + 1) % UINT32) + b) % UINT32 = (n + 1) % UINT32
      <4> HIDE DEF a, b, n
      <4> QED
        BY <1>1, <1>4, <2>1, <2>3, ModSum
    <3> QED
      BY <3>1, <3>2
  <2>5. CASE p = LowToHigh
    <3>1. m_PacketsSeen'[LowToHigh] = (b + 1) % UINT32 /\ m_PacketsSeen'[HighToLow] = a
      BY <2>2, <2>5, PortsDiffer DEF Pairs
    <3>2. (((b + 1) % UINT32) + a) % UINT32 = (n + 1) % UINT32
      <4> HIDE DEF a, b, n
      <4> QED
        BY <1>1, <1>4, <2>1, <2>3, ModSum
    <3>3. a \in Int /\ (b + 1) % UINT32 \in Int
      <4>1. b + 1 \in Nat
        BY <2>1
      <4> QED
        BY <1>1, <2>1, <4>1, WrapFacts
    <3>4. a + ((b + 1) % UINT32) = ((b + 1) % UINT32) + a
      <4> DEFINE w == (b + 1) % UINT32
      <4> HIDE DEF w, a
      <4> QED
        BY <3>3 DEF w
    <3> QED
      BY <3>1, <3>2, <3>4
  <2> QED
    BY <2>4, <2>5 DEF Pairs
<1>6. WithinQuota <=> InQuota(n + 1)
  BY <1>5 DEF WithinQuota, PacketsSeen, InQuota
<1>7. \A k : InQuota(k)' <=> InQuota(k)
  BY <1>1 DEF InQuota
<1>8. m_Decoded = 0 <=> \A k \in 1 .. n : InQuota(k) => observed[k].data.size = 0
  BY <1>4 DEF QuotaInv
<1>9. (m_Decoded = 0 <=> \A k \in DOMAIN observed : InQuota(k) => observed[k].data.size = 0)'
  <2>1. m_Decoded' = IF InQuota(n + 1) THEN m_Decoded + packet.size ELSE m_Decoded
    BY <1>6 DEF HandlePair, mProcessPacket
  <2>2. m_Decoded' = 0 <=> m_Decoded = 0 /\ (InQuota(n + 1) => packet.size = 0)
    BY <1>2, <2>1
  <2>3. (\A k \in 1 .. n + 1 : InQuota(k) => observed'[k].data.size = 0)
          <=> /\ \A k \in 1 .. n : InQuota(k) => observed[k].data.size = 0
              /\ InQuota(n + 1) => packet.size = 0
    <3> HIDE DEF packet, n
    <3> QED
      BY <1>4 DEF n
  <2> QED
    BY <1>4, <1>7, <1>8, <2>2, <2>3
<1>10. \A k : k \in Due <=> /\ k \in 1 .. n /\ InQuota(k)
                            /\ setup.algo = "RunLengthAlgo" =>
                                 \E j \in 1 .. k : InQuota(j) /\ observed[j].data.size > 0
  BY <1>4 DEF Due
<1>11. \A k : k \in Due' <=> /\ k \in 1 .. n + 1 /\ InQuota(k)
                             /\ setup.algo = "RunLengthAlgo" =>
                                  \E j \in 1 .. k : InQuota(j) /\ observed'[j].data.size > 0
  BY <1>1, <1>4, <1>7 DEF Due
<1>12. ASSUME NEW k \in 1 .. n PROVE k \in Due' <=> k \in Due
  <2>1. \A j \in 1 .. k : observed'[j] = observed[j]
    BY <1>4
  <2> QED
    BY <1>4, <1>10, <1>11, <2>1
<1>13. n + 1 \in Due' <=> WithinQuota /\ ~AnalysisEmpty(packet)
  <2>1. ASSUME NEW j \in 1 .. n PROVE observed[j].data.size \in Nat
    <3>1. observed[j] \in [pair : Pairs, data : PacketType]
      BY <1>3, ElementOfSeq
    <3> QED
      BY <3>1 DEF PacketType
  <2>2. CASE ~InQuota(n + 1)
    BY <1>4, <1>6, <1>11, <2>2
  <2>3. CASE InQuota(n + 1)
    <3>1. AnalysisEmpty(packet) <=> /\ setup.algo = "RunLengthAlgo" /\ packet.size = 0
                                    /\ \A k \in 1 .. n : InQuota(k) => observed[k].data.size = 0
      BY <1>2, <1>8 DEF AnalysisEmpty
    <3>2. (\E j \in 1 .. n + 1 : InQuota(j) /\ observed'[j].data.size > 0)
            <=> \/ packet.size > 0
                \/ \E j \in 1 .. n : InQuota(j) /\ observed[j].data.size > 0
      <4> HIDE DEF packet, n
      <4> QED
        BY <1>4, <2>3 DEF n
    <3>3. (\E j \in 1 .. n : InQuota(j) /\ observed[j].data.size > 0)
            <=> ~ \A k \in 1 .. n : InQuota(k) => observed[k].data.size = 0
      BY <2>1
    <3>4. packet.size > 0 <=> packet.size # 0
      BY <1>2
    <3>5. n + 1 \in 1 .. n + 1
      BY <1>4
    <3> HIDE DEF packet, n
    <3> QED
      BY <1>6, <1>11, <2>3, <3>1, <3>2, <3>3, <3>4, <3>5, Zenon
  <2> QED
    BY <2>2, <2>3
<1>14. Due' = IF WithinQuota /\ ~AnalysisEmpty(packet) THEN Due \cup {n + 1} ELSE Due
  <2>1. \A k : k \in Due' => k \in 1 .. n \/ k = n + 1
    BY <1>4, <1>11
  <2>2. \A k : k \in Due => k \in 1 .. n
    BY <1>10
  <2>3. n + 1 \notin Due
    BY <1>4, <2>2
  <2> HIDE DEF n, packet
  <2> QED
    BY <1>12, <1>13, <2>1, <2>2, <2>3
<1>15. Due \in SUBSET (1 .. n)
  BY <1>10
<1> QED
  BY <1>2, <1>4, <1>5, <1>9, <1>14, <1>15

(* One more packet is observed, and submitted while the quota lasts.       *)
LEMMA QuotaPair ==
  ASSUME TypeInv, QuotaInv, NEW p \in Pairs, HandlePair(p)
  PROVE  QuotaInv'
<1> DEFINE n == Len(observed)
           packet == Received(p)
<1>1. /\ packet \in PacketType /\ n \in Nat /\ Due \in SUBSET (1 .. n)
      /\ Len(observed') = n + 1
      /\ \A k \in 1 .. n : observed'[k] = observed[k]
      /\ observed'[n + 1].data = packet
      /\ Due' = IF WithinQuota /\ ~AnalysisEmpty(packet) THEN Due \cup {n + 1} ELSE Due
      /\ (m_PacketsSeen'[HighToLow] + m_PacketsSeen'[LowToHigh]) % UINT32 = (n + 1) % UINT32
      /\ (m_Decoded = 0 <=> \A k \in DOMAIN observed : InQuota(k) => observed[k].data.size = 0)'
  BY DueNext
<1>2. engine \in Seq(PacketType)
  BY TypeParts DEF TypeInv, RestTypes
<1>3. /\ Len(engine) = Cardinality(Due)
      /\ \A k \in Due : engine[Cardinality({j \in Due : j <= k})] = observed[k].data
  BY DEF QuotaInv, EngineHoldsDuePackets
<1>4. /\ Cardinality(Due) \in Nat /\ Cardinality(Due \cup {n + 1}) = Cardinality(Due) + 1
      /\ \A k \in Due : Cardinality({j \in Due : j <= k}) \in 1 .. Cardinality(Due)
  BY <1>1, Positions
<1>5. engine' = IF WithinQuota /\ ~AnalysisEmpty(packet) THEN Append(engine, packet) ELSE engine
  BY DEF HandlePair, mProcessPacket
<1>6. CASE ~(WithinQuota /\ ~AnalysisEmpty(packet))
  <2>1. Due' = Due /\ engine' = engine
    BY <1>1, <1>5, <1>6
  <2>2. \A k \in Due : observed'[k] = observed[k]
    BY <1>1
  <2>3. EngineHoldsDuePackets'
    BY <1>3, <2>1, <2>2 DEF EngineHoldsDuePackets
  <2> QED
    BY <1>1, <2>3 DEF QuotaInv
<1>7. CASE WithinQuota /\ ~AnalysisEmpty(packet)
  <2>1. Due' = Due \cup {n + 1} /\ engine' = Append(engine, packet)
    BY <1>1, <1>5, <1>7
  <2>2. /\ Len(engine') = Len(engine) + 1 /\ engine'[Len(engine) + 1] = packet
        /\ \A i \in 1 .. Len(engine) : engine'[i] = engine[i]
    BY <1>1, <1>2, <2>1, AppendFacts
  <2>3. Len(engine') = Cardinality(Due')
    BY <1>3, <1>4, <2>1, <2>2
  <2>4. ASSUME NEW k \in Due'
        PROVE  engine'[Cardinality({j \in Due' : j <= k})] = observed'[k].data
    <3>1. CASE k = n + 1
      <4>1. {j \in Due' : j <= k} = Due'
        BY <1>1, <2>1, <3>1
      <4> QED
        BY <1>1, <1>3, <1>4, <2>1, <2>2, <3>1, <4>1
    <3>2. CASE k # n + 1
      <4>1. k \in Due /\ k \in 1 .. n
        BY <1>1, <2>1, <3>2
      <4>2. {j \in Due' : j <= k} = {j \in Due : j <= k}
        BY <1>1, <2>1, <4>1
      <4> DEFINE i == Cardinality({j \in Due : j <= k})
      <4>3. i \in 1 .. Len(engine) /\ engine[i] = observed[k].data
        BY <1>3, <1>4, <4>1
      <4> HIDE DEF i
      <4>4. engine'[i] = observed'[k].data
        BY <1>1, <2>2, <4>1, <4>3
      <4> QED
        BY <4>2, <4>4 DEF i
    <3> QED
      BY <3>1, <3>2
  <2>5. EngineHoldsDuePackets'
    BY <2>3, <2>4 DEF EngineHoldsDuePackets
  <2> QED
    BY <1>1, <2>5 DEF QuotaInv
<1> QED
  BY <1>6, <1>7

(* The counter of the sink is not one of those the quota is about.         *)
LEMMA QuotaSink ==
  ASSUME TypeInv, QuotaInv, HandleSink
  PROVE  QuotaInv'
<1>1. \A q \in Pairs : m_PacketsSeen'[q] = m_PacketsSeen[q]
  <2>1. BufferTypes /\ RestTypes /\ OperationTypes /\ Sink \in Receivers
    BY TypeParts DEF TypeInv, Receivers
  <2>2. Received(Sink) \in PacketType
    BY <2>1, ReceivedFacts DEF HandleSink, Handled, Called
  <2> QED
    BY <2>1, <2>2, CountedType, PortsDiffer DEF HandleSink
<1>2. UNCHANGED <<observed, engine, m_Decoded, setup>>
  BY DEF HandleSink, Handled, Called, learner, world
<1> QED
  BY <1>1, <1>2 DEF QuotaInv, EngineHoldsDuePackets, Due, InQuota, Pairs

(* Every step keeps the quota.                                             *)
LEMMA QuotaStep == TypeInv /\ QuotaInv /\ [Next]_vars => QuotaInv'
<1> SUFFICES ASSUME TypeInv, QuotaInv, [Next]_vars PROVE QuotaInv'
  OBVIOUS
<1>1. ASSUME UNCHANGED <<counters, learner, setup>> PROVE QuotaInv'
  BY <1>1 DEF counters, learner, QuotaInv, EngineHoldsDuePackets, Due, InQuota
<1>2. ASSUME NEW r \in Receivers, ReceiveFrom(r) \/ ReceiveError(r) PROVE QuotaInv'
  BY <1>1, <1>2, Zenon DEF ReceiveFrom, ReceiveError, Complete, world
<1>3. ASSUME NEW c \in Clients, HandleClient(c) \/ mSend(c) PROVE QuotaInv'
  BY <1>1, <1>3, Zenon DEF HandleClient, Handled, Called, mSend, world
<1>4. ASSUME mStartListening \/ Run \/ mStop \/ Destroy \/ SendUnsolicited PROVE QuotaInv'
  BY <1>1, <1>4, Zenon DEF mStartListening, Run, mStop, Destroy, SendUnsolicited, world
<1>5. ASSUME HandleServer PROVE QuotaInv'
  BY <1>1, <1>5, Zenon DEF HandleServer, Called, world
<1>6. ASSUME UNCHANGED vars PROVE QuotaInv'
  BY <1>1, <1>6, Zenon DEF vars, world
<1> QED
  BY <1>2, <1>3, <1>4, <1>5, <1>6, StepCases, QuotaPair, QuotaSink, Zenon

(* The constructors establish the quota.                                   *)
LEMMA QuotaInit == Init => QuotaInv
<1> SUFFICES ASSUME Init PROVE QuotaInv
  OBVIOUS
<1>1. observed = <<>> /\ engine = <<>> /\ m_Decoded = 0
  BY DEF Init, LearnerInit
<1>2. m_PacketsSeen[HighToLow] = 0 /\ m_PacketsSeen[LowToHigh] = 0
  BY DEF Init, CountersInit, Pairs
<1>3. DOMAIN observed = {} /\ Len(observed) = 0 /\ Len(engine) = 0
  BY <1>1
<1>4. Due = {}
  BY <1>3 DEF Due
<1>5. Cardinality(Due) = 0
  BY <1>4, FS_EmptySet
<1> QED
  BY <1>1, <1>2, <1>3, <1>4, <1>5 DEF QuotaInv, EngineHoldsDuePackets

(* The engine holds exactly the packets that are due, whichever pair they  *)
(* came from and however often the counters have wrapped.                  *)
THEOREM QuotaKept == Spec => []EngineHoldsDuePackets
<1>1. QuotaInv => EngineHoldsDuePackets
  BY DEF QuotaInv
<1> QED
  BY <1>1, TypeInit, TypeStep, QuotaInit, QuotaStep, PTL DEF Spec

(* How often sockets were opened for the pairs, and where they send.       *)
PortInv ==
  /\ m_PortToSendTo[HighToLow] = setup.down
  /\ opened[HighToLow] = IF setup.down = Port0 THEN 0 ELSE 1
  /\ opened[LowToHigh] = (IF setup.up = Port0 THEN 0 ELSE 1) + (IF m_DownwardTrafficSeen THEN 1 ELSE 0)
  /\ m_DownwardTrafficSeen <=> observed # <<>>
  /\ io = "wild" => setup.down = Port0 \/ (setup.up = Port0 /\ ~m_DownwardTrafficSeen)
  /\ setup.down = Port0 =>
       \A i \in DOMAIN observed : observed[i].pair = HighToLow => i = Len(observed) /\ io = "wild"

(* Only clients send to the upper pair; a client sends there, to the sink  *)
(* or, once it has an answer, to where nobody listens.                     *)
SenderInv ==
  /\ queue[HighToLow] \in Seq([data : PacketType, sender : Clients])
  /\ \A c \in Clients : /\ remote[c] \in {HighToLow, Sink, Elsewhere}
                       /\ queue[c] \in Seq([data : PacketType, sender : {Elsewhere}])

(* Until the first packet is processed, the upper pair's endpoint is unset *)
(* or a client, and the caller as long as it has only one operation, for   *)
(* then it cannot receive again.                                           *)
BeforeTraffic ==
  /\ m_PortToSendTo[LowToHigh] = setup.up
  /\ io # "dead"
  /\ caller = Elsewhere =>
       /\ remote[HighToLow] = Port0
       /\ \A i \in 1 .. Len(completed[HighToLow]) : completed[HighToLow][i] = Empty
  /\ caller # Elsewhere =>
       /\ remote[HighToLow] \in Clients /\ completed[HighToLow] # <<>>
       /\ listening <= 1 => remote[HighToLow] = caller

(* Afterwards the port above is fixed.                                     *)
SinceTraffic ==
  \/ /\ m_PortToSendTo[LowToHigh] \in Clients /\ io # "dead"
     /\ listening <= 1 => m_PortToSendTo[LowToHigh] = caller
  \/ m_PortToSendTo[LowToHigh] = Port0 /\ observed[1].data = Empty
  \/ /\ m_PortToSendTo[LowToHigh] = Port0 /\ caller = Elsewhere
     /\ io = "dead" /\ observed[1].pair = LowToHigh

CallerInv == IF m_DownwardTrafficSeen THEN SinceTraffic ELSE BeforeTraffic

(* A client that is not the one above gets nothing but failed receives.    *)
WaitInv ==
  \A c \in Clients :
    m_PortToSendTo[LowToHigh] # c => queue[c] = <<>> /\ Len(completed[c]) + received[c] <= errors

RouteInv == PortInv /\ SenderInv /\ CallerInv /\ WaitInv

(* The constructors establish the routes.                                  *)
LEMMA RouteInit == Init => RouteInv
<1> SUFFICES ASSUME Init PROVE RouteInv
  OBVIOUS
<1> USE DEF Init
<1>1. m_DownwardTrafficSeen = FALSE /\ observed = <<>> /\ io = "idle" /\ DOMAIN observed = {}
  BY DEF LearnerInit
<1>2. PortInv
  <2>1. /\ m_PortToSendTo[HighToLow] = setup.down
        /\ m_PortToSendTo[LowToHigh] = setup.up
        /\ opened[HighToLow] = IF setup.down = Port0 THEN 0 ELSE 1
        /\ opened[LowToHigh] = IF setup.up = Port0 THEN 0 ELSE 1
    BY PortsDiffer DEF PairsInit, Pairs
  <2> HIDE DEF Init
  <2> QED
    BY <1>1, <2>1 DEF PortInv
<1>3. SenderInv
  BY EmptySeq, SetupParts DEF SenderInv, InitialRemote, Receivers, Pairs
<1>4. CallerInv
  <2>1. remote[HighToLow] = Port0 /\ Len(completed[HighToLow]) = 0
    BY PortsDiffer DEF InitialRemote, Receivers, Pairs
  <2> QED
    BY <1>1, <2>1, PortsDiffer DEF CallerInv, BeforeTraffic, PairsInit, Receivers, Pairs
<1>5. WaitInv
  BY SetupParts DEF WaitInv, ClientsInit, Receivers
<1> QED
  BY <1>2, <1>3, <1>4, <1>5 DEF RouteInv

(* A datagram keeps SenderInv when only clients send to the upper pair and *)
(* no client sends to a client.                                            *)
LEMMA SenderSent ==
  ASSUME TypeInv, SenderInv, NEW packet \in PacketType, NEW sender \in Senders, NEW port,
         port = HighToLow => sender \in Clients,
         port \in Clients => sender = Elsewhere,
         queue' = Sent(packet, sender, port), remote' = remote
  PROVE  SenderInv'
<1> DEFINE d == [data |-> packet, sender |-> sender]
<1>1. /\ queue \in [Receivers -> Seq(Datagrams)]
      /\ \A r \in Receivers : Len(queue[r]) <= QueueCap
  BY TypeParts DEF TypeInv, QueueTypes
<1>2. /\ \A r \in Receivers : r # port => queue'[r] = queue[r]
      /\ \A T : port \in Receivers /\ queue[port] \in Seq(T) /\ d \in T => queue'[port] \in Seq(T)
  BY <1>1, SentFacts, Zenon
<1>3. HighToLow \in Receivers /\ \A c \in Clients : c \in Receivers
  BY DEF Receivers, Pairs
<1>4. queue'[HighToLow] \in Seq([data : PacketType, sender : Clients])
  <2>1. CASE port = HighToLow
    <3>1. d \in [data : PacketType, sender : Clients]
      BY <2>1
    <3> QED
      BY <1>2, <1>3, <2>1, <3>1, Zenon DEF SenderInv
  <2>2. CASE port # HighToLow
    BY <1>2, <1>3, <2>2 DEF SenderInv
  <2> QED
    BY <2>1, <2>2
<1>5. ASSUME NEW c \in Clients
      PROVE  queue'[c] \in Seq([data : PacketType, sender : {Elsewhere}])
  <2>1. CASE port = c
    <3>1. d \in [data : PacketType, sender : {Elsewhere}]
      BY <2>1
    <3> QED
      BY <1>2, <1>3, <2>1, <3>1, Zenon DEF SenderInv
  <2>2. CASE port # c
    BY <1>2, <1>3, <2>2 DEF SenderInv
  <2> QED
    BY <2>1, <2>2
<1> QED
  BY <1>4, <1>5 DEF SenderInv

(* It keeps WaitInv when it goes to no client but the one above.           *)
LEMMA WaitSent ==
  ASSUME TypeInv, WaitInv, NEW packet \in PacketType, NEW sender \in Senders, NEW port,
         queue' = Sent(packet, sender, port),
         \A c \in Clients : m_PortToSendTo'[LowToHigh] # c => m_PortToSendTo[LowToHigh] # c /\ port # c,
         \A c \in Clients : completed'[c] = completed[c] /\ received'[c] = received[c],
         errors' = errors
  PROVE  WaitInv'
<1>1. /\ queue \in [Receivers -> Seq(Datagrams)]
      /\ \A r \in Receivers : Len(queue[r]) <= QueueCap
  BY TypeParts DEF TypeInv, QueueTypes
<1>2. \A r \in Receivers : r # port => queue'[r] = queue[r]
  BY <1>1, SentFacts, Zenon
<1>3. \A c \in Clients : c \in Receivers
  BY DEF Receivers
<1> QED
  BY <1>2, <1>3 DEF WaitInv

(* A receive: the first from above makes its sender the caller.            *)
LEMMA RouteReceive ==
  ASSUME TypeInv, RouteInv, NEW r \in Receivers, ReceiveFrom(r)
  PROVE  RouteInv'
<1>1. /\ QueueTypes /\ OperationTypes /\ BufferTypes /\ RestTypes
      /\ queue[r] # <<>> /\ io = "running" /\ armed[r] > 0
      /\ queue' = [queue EXCEPT ![r] = Tail(@)]
      /\ remote' = [remote EXCEPT ![r] = Head(queue[r]).sender]
      /\ caller' = IF r = HighToLow /\ caller = Elsewhere THEN Head(queue[r]).sender ELSE caller
      /\ UNCHANGED <<io, learner, clients, world>>
  BY TypeParts DEF TypeInv, ReceiveFrom, Complete
<1>2. HighToLow \in Receivers /\ \A c \in Clients : c \in Receivers /\ c # HighToLow
  BY PortsDiffer DEF Receivers, Pairs
<1>3. UNCHANGED <<m_PortToSendTo, opened, m_DownwardTrafficSeen, observed, received, setup, errors,
                  listening>>
  BY <1>1 DEF learner, clients, world
<1>4. PortInv'
  BY <1>1, <1>3 DEF RouteInv, PortInv
<1>5. /\ Head(queue[r]).data \in PacketType /\ completed[r] \in Seq(PacketType)
      /\ \A q \in Receivers : completed'[q] = IF q = r THEN Append(completed[r], Head(queue[r]).data)
                                                       ELSE completed[q]
  <2>1. Head(queue[r]) \in Datagrams
    BY <1>1, TailFacts DEF QueueTypes
  <2>2. Head(queue[r]).data \in PacketType /\ Complete(r, Head(queue[r]).data)
    BY <2>1 DEF Datagrams, ReceiveFrom
  <2> QED
    BY <1>1, <1>3, <2>2, CompleteFacts DEF OperationTypes
<1>6. SenderInv'
  <2>1. \A q \in Receivers : /\ queue'[q] = IF q = r THEN Tail(queue[q]) ELSE queue[q]
                            /\ remote'[q] = IF q = r THEN Head(queue[q]).sender ELSE remote[q]
    BY <1>1 DEF QueueTypes, BufferTypes
  <2>2. queue'[HighToLow] \in Seq([data : PacketType, sender : Clients])
    <3>1. queue[HighToLow] \in Seq([data : PacketType, sender : Clients])
      BY DEF RouteInv, SenderInv
    <3> QED
      BY <1>1, <1>2, <2>1, <3>1, TailFacts
  <2>3. ASSUME NEW c \in Clients
        PROVE  /\ remote'[c] \in {HighToLow, Sink, Elsewhere}
               /\ queue'[c] \in Seq([data : PacketType, sender : {Elsewhere}])
    <3>1. /\ queue[c] \in Seq([data : PacketType, sender : {Elsewhere}])
          /\ remote[c] \in {HighToLow, Sink, Elsewhere}
      BY DEF RouteInv, SenderInv
    <3>2. CASE c = r
      <4>1. /\ Head(queue[c]) \in [data : PacketType, sender : {Elsewhere}]
            /\ Tail(queue[c]) \in Seq([data : PacketType, sender : {Elsewhere}])
        BY <1>1, <3>1, <3>2, TailFacts
      <4> QED
        BY <1>2, <2>1, <3>2, <4>1
    <3>3. CASE c # r
      BY <1>2, <2>1, <3>1, <3>3
    <3> QED
      BY <3>2, <3>3
  <2> QED
    BY <2>2, <2>3 DEF SenderInv
<1>7. CallerInv'
  <2>1. CASE m_DownwardTrafficSeen
    <3>1. SinceTraffic
      BY <2>1 DEF RouteInv, CallerInv
    <3>2. CASE m_PortToSendTo[LowToHigh] \in Clients /\ listening <= 1
      <4>1. caller' = caller
        BY <1>1, <3>1, <3>2, PortsUnused DEF SinceTraffic, Receivers
      <4> QED
        BY <1>1, <1>3, <2>1, <3>1, <3>2, <4>1 DEF CallerInv, SinceTraffic
    <3>3. CASE ~(m_PortToSendTo[LowToHigh] \in Clients /\ listening <= 1)
      BY <1>1, <1>3, <2>1, <3>1, <3>3 DEF CallerInv, SinceTraffic
    <3> QED
      BY <3>2, <3>3
  <2>2. CASE ~m_DownwardTrafficSeen /\ r = HighToLow
    <3>1. Head(queue[r]).sender \in Clients
      <4>1. Head(queue[r]) \in [data : PacketType, sender : Clients]
        BY <1>1, <2>2, TailFacts DEF RouteInv, SenderInv
      <4> QED
        BY <4>1
    <3>2. remote'[HighToLow] = Head(queue[r]).sender /\ completed'[HighToLow] # <<>>
      <4>1. Len(completed'[HighToLow]) = Len(completed[r]) + 1 /\ Len(completed[r]) \in Nat
        <5>1. completed'[HighToLow] = Append(completed[r], Head(queue[r]).data)
          BY <1>2, <1>5, <2>2
        <5> DEFINE e == Head(queue[r]).data
        <5>2. e \in PacketType
          BY <1>5
        <5> HIDE DEF e
        <5>3. Len(Append(completed[r], e)) = Len(completed[r]) + 1
          BY <1>5, <5>2, AppendFacts
        <5> QED
          BY <1>5, <5>1, <5>3 DEF e
      <4>2. completed'[HighToLow] # <<>>
        BY <4>1, EmptySeq
      <4> QED
        BY <1>1, <1>2, <2>2, <4>2 DEF BufferTypes
    <3>3. listening <= 1 => caller = Elsewhere
      <4>1. armed[r] \in Nat /\ armed[r] + Len(completed[r]) <= listening
        BY <1>1, <2>2 DEF OperationTypes, Calls, Pairs
      <4>2. listening <= 1 => completed[r] = <<>>
        <5>1. Len(completed[r]) \in Nat /\ listening \in Nat
          BY <1>5, CallsFacts
        <5>2. listening <= 1 => Len(completed[r]) = 0
          BY <1>1, <4>1, <5>1
        <5> QED
          BY <1>5, <5>2, EmptySeq
      <4> QED
        BY <2>2, <4>2 DEF RouteInv, CallerInv, BeforeTraffic
    <3>4. caller' # Elsewhere
      <4>1. CASE caller = Elsewhere
        <5>1. caller' \in Clients
          BY <1>1, <2>2, <3>1, <4>1
        <5> QED
          BY <5>1, PortsUnused DEF Receivers
      <4>2. CASE caller # Elsewhere
        BY <1>1, <4>2
      <4> QED
        BY <4>1, <4>2
    <3>5. listening' <= 1 => remote'[HighToLow] = caller'
      BY <1>1, <1>3, <2>2, <3>2, <3>3
    <3> QED
      BY <1>1, <1>3, <2>2, <3>1, <3>2, <3>4, <3>5 DEF RouteInv, CallerInv, BeforeTraffic
  <2>3. CASE ~m_DownwardTrafficSeen /\ r # HighToLow
    <3>1. /\ remote'[HighToLow] = remote[HighToLow] /\ completed'[HighToLow] = completed[HighToLow]
          /\ caller' = caller
      BY <1>1, <1>2, <1>5, <2>3 DEF BufferTypes
    <3> QED
      BY <1>1, <1>3, <2>3, <3>1 DEF RouteInv, CallerInv, BeforeTraffic
  <2> QED
    BY <2>1, <2>2, <2>3
<1>8. WaitInv'
  <2>1. SUFFICES ASSUME NEW c \in Clients, m_PortToSendTo[LowToHigh] # c
                 PROVE  queue'[c] = <<>> /\ Len(completed'[c]) + received'[c] <= errors'
    BY <1>3 DEF WaitInv
  <2>2. queue[c] = <<>> /\ Len(completed[c]) + received[c] <= errors
    BY <2>1 DEF RouteInv, WaitInv
  <2>3. c # r
    BY <1>1, <2>2
  <2>4. queue'[c] = queue[c] /\ completed'[c] = completed[c]
    BY <1>1, <1>2, <1>5, <2>3 DEF QueueTypes
  <2> QED
    BY <1>3, <2>2, <2>4
<1> QED
  BY <1>4, <1>6, <1>7, <1>8 DEF RouteInv

(* A failed receive counts as an error and leaves the endpoint.            *)
LEMMA RouteError ==
  ASSUME TypeInv, RouteInv, NEW r \in Receivers, ReceiveError(r)
  PROVE  RouteInv'
<1>1. /\ OperationTypes /\ BufferTypes /\ RestTypes /\ errors' = errors + 1
      /\ Complete(r, Empty)
      /\ UNCHANGED <<io, learner, clients, queue, remote, caller, setup, listening>>
  BY TypeParts DEF TypeInv, ReceiveError, Complete
<1>2. HighToLow \in Receivers /\ \A c \in Clients : c \in Receivers
  BY DEF Receivers, Pairs
<1>3. UNCHANGED <<m_PortToSendTo, opened, m_DownwardTrafficSeen, observed, received>>
  BY <1>1 DEF learner, clients
<1>4. PortInv' /\ SenderInv'
  BY <1>1, <1>3 DEF RouteInv, PortInv, SenderInv
<1>5. \A q \in Receivers :
        /\ Len(completed'[q]) = IF q = r THEN Len(completed[q]) + 1 ELSE Len(completed[q])
        /\ completed[q] # <<>> => completed'[q] # <<>>
        /\ \A i \in 1 .. Len(completed'[q]) :
             completed'[q][i] = IF i \in 1 .. Len(completed[q]) THEN completed[q][i] ELSE Empty
  <2>1. SUFFICES ASSUME NEW q \in Receivers
                 PROVE  /\ Len(completed'[q]) =
                             IF q = r THEN Len(completed[q]) + 1 ELSE Len(completed[q])
                        /\ completed[q] # <<>> => completed'[q] # <<>>
                        /\ \A i \in 1 .. Len(completed'[q]) :
                             completed'[q][i] =
                               IF i \in 1 .. Len(completed[q]) THEN completed[q][i] ELSE Empty
    OBVIOUS
  <2>2. /\ completed[q] \in Seq(PacketType)
        /\ completed'[q] = IF q = r THEN Append(completed[q], Empty) ELSE completed[q]
    BY <1>1, EmptyIsPacket, CompleteFacts DEF OperationTypes
  <2>3. CASE q = r
    <3> DEFINE s == completed[q]
    <3>1. s \in Seq(PacketType) /\ completed'[q] = Append(s, Empty)
      BY <2>2, <2>3
    <3> HIDE DEF s
    <3>2. /\ Len(Append(s, Empty)) = Len(s) + 1 /\ Len(s) \in Nat
          /\ \A i \in 1 .. Len(s) : Append(s, Empty)[i] = s[i]
          /\ Append(s, Empty)[Len(s) + 1] = Empty
      BY <3>1, EmptyIsPacket, AppendFacts
    <3>3. Append(s, Empty) # <<>>
      BY <3>2, EmptySeq
    <3>4. \A i \in 1 .. Len(s) + 1 :
            Append(s, Empty)[i] = IF i \in 1 .. Len(s) THEN s[i] ELSE Empty
      BY <3>2
    <3> QED
      BY <2>3, <3>1, <3>2, <3>3, <3>4 DEF s
  <2>4. CASE q # r
    BY <2>2, <2>4
  <2> QED
    BY <2>3, <2>4
<1>6. CallerInv'
  <2>1. CASE m_DownwardTrafficSeen
    BY <1>1, <1>3, <2>1 DEF RouteInv, CallerInv, SinceTraffic
  <2>2. CASE ~m_DownwardTrafficSeen
    <3>1. BeforeTraffic
      BY <2>2 DEF RouteInv, CallerInv
    <3>2. (\A i \in 1 .. Len(completed[HighToLow]) : completed[HighToLow][i] = Empty) =>
             \A i \in 1 .. Len(completed'[HighToLow]) : completed'[HighToLow][i] = Empty
      BY <1>2, <1>5, Zenon
    <3>3. completed[HighToLow] # <<>> => completed'[HighToLow] # <<>>
      BY <1>2, <1>5
    <3>4. BeforeTraffic'
      BY <1>1, <1>3, <3>1, <3>2, <3>3, Zenon DEF BeforeTraffic
    <3> QED
      BY <1>3, <2>2, <3>4 DEF CallerInv
  <2> QED
    BY <2>1, <2>2
<1>7. WaitInv'
  <2>1. SUFFICES ASSUME NEW c \in Clients, m_PortToSendTo[LowToHigh] # c
                 PROVE  queue'[c] = <<>> /\ Len(completed'[c]) + received'[c] <= errors'
    BY <1>3 DEF WaitInv
  <2>2. queue[c] = <<>> /\ Len(completed[c]) + received[c] <= errors
    BY <2>1 DEF RouteInv, WaitInv
  <2>3. Len(completed[c]) \in Nat /\ received[c] \in Nat /\ errors \in Int
    BY <1>1, <1>2 DEF OperationTypes, RestTypes
  <2>4. Len(completed'[c]) \in {Len(completed[c]), Len(completed[c]) + 1}
    BY <1>2, <1>5
  <2> QED
    BY <1>1, <1>3, <2>2, <2>3, <2>4
<1> QED
  BY <1>4, <1>6, <1>7 DEF RouteInv

(* What a handler of a pair does to ports and callers.                     *)
LEMMA RoutePair ==
  ASSUME TypeInv, RouteInv, NEW p \in Pairs, HandlePair(p)
  PROVE  RouteInv'
<1>1. /\ OperationTypes /\ BufferTypes /\ RestTypes /\ setup \in Setups
      /\ p \in Receivers /\ Called(p)
      /\ mProcessPacket(p, Received(p))
      /\ UNCHANGED <<buffer, remote, caller, setup, errors, received, listening>>
  BY TypeParts DEF TypeInv, HandlePair, Called, world, clients, Receivers
<1>2. /\ HighToLow # LowToHigh /\ setup.down \in {Server, Sink, Elsewhere, Port0}
      /\ setup.up \in {Elsewhere, Port0} /\ Port0 # Elsewhere
      /\ Port0 \notin Clients \cup {Server, Sink, HighToLow, LowToHigh}
      /\ Elsewhere \notin Clients \cup {Server, Sink, HighToLow, LowToHigh}
      /\ {Server, Sink, HighToLow, LowToHigh} \cap Clients = {}
      /\ HighToLow \notin {Server, Sink} /\ p \in {HighToLow, LowToHigh}
  BY <1>1, SetupParts, PortsDiffer, PortsUnused DEF Receivers, Pairs
<1>3. /\ Received(p) \in PacketType
      /\ Head(completed[p]) = Empty => Received(p) = Empty
      /\ completed[p] # <<>> /\ completed[p] \in Seq(PacketType)
      /\ \A q \in Receivers : q # p => completed'[q] = completed[q]
  BY <1>1, ReceivedFacts, CalledFacts DEF OperationTypes
<1>4. /\ observed' # <<>>
      /\ observed # <<>> => observed'[1] = observed[1]
      /\ observed = <<>> => observed'[1].pair = p /\ observed'[1].data = Received(p)
      /\ DOMAIN observed = 1 .. Len(observed) /\ Len(observed) \in Nat
      /\ DOMAIN observed' = 1 .. Len(observed) + 1 /\ Len(observed') = Len(observed) + 1
      /\ \A i \in 1 .. Len(observed) : observed'[i] = observed[i]
      /\ observed'[Len(observed) + 1].pair = p
  <2> DEFINE S == [pair : Pairs, data : PacketType]
             e == [pair |-> p, data |-> Received(p)]
  <2>1. observed \in Seq(S) /\ e \in S /\ observed' = Append(observed, e)
    BY <1>1, <1>3 DEF RestTypes, mProcessPacket
  <2>2. e.pair = p /\ e.data = Received(p)
    OBVIOUS
  <2> HIDE DEF S, e
  <2>3. /\ Len(observed) \in Nat /\ Len(observed') = Len(observed) + 1 /\ observed' \in Seq(S)
        /\ \A i \in 1 .. Len(observed) : observed'[i] = observed[i]
        /\ observed'[Len(observed) + 1] = e
    BY <2>1, AppendFacts
  <2>4. observed' # <<>> /\ (observed # <<>> => Len(observed) # 0)
    BY <2>1, <2>3, EmptySeq
  <2>5. observed = <<>> => Len(observed) = 0
    OBVIOUS
  <2> QED
    BY <2>1, <2>2, <2>3, <2>4, <2>5
<1>5. /\ m_DownwardTrafficSeen'
      /\ m_PortToSendTo'[HighToLow] = setup.down
      /\ m_PortToSendTo'[LowToHigh] =
           IF m_DownwardTrafficSeen THEN m_PortToSendTo[LowToHigh] ELSE remote[HighToLow]
      /\ opened'[HighToLow] = IF setup.down = Port0 THEN 0 ELSE 1
      /\ opened'[LowToHigh] = (IF setup.up = Port0 THEN 0 ELSE 1) + 1
      /\ opened' \in [Pairs -> Nat]
  <2>1. /\ m_PortToSendTo \in [Pairs -> Ports] /\ opened \in [Pairs -> Nat]
        /\ m_DownwardTrafficSeen \in BOOLEAN /\ LowToHigh \in Pairs /\ HighToLow \in Pairs
    BY <1>1 DEF RestTypes, Pairs
  <2>2. PortInv
    BY DEF RouteInv
  <2>3. CASE m_DownwardTrafficSeen
    <3>1. UNCHANGED <<m_PortToSendTo, opened, m_DownwardTrafficSeen>>
      BY <1>1, <2>3 DEF mProcessPacket, SetsUpwardPort
    <3> QED
      BY <2>1, <2>2, <2>3, <3>1 DEF PortInv
  <2>4. CASE ~m_DownwardTrafficSeen
    <3>1. /\ m_PortToSendTo' = [m_PortToSendTo EXCEPT ![LowToHigh] = remote[HighToLow]]
          /\ opened' = [opened EXCEPT ![LowToHigh] = @ + 1]
          /\ m_DownwardTrafficSeen' = TRUE
      BY <1>1, <2>4 DEF mProcessPacket, SetsUpwardPort, mSetOutboundPortAndOpenSocket, UpwardPort,
         mGetPortOfClient
    <3>2. opened[LowToHigh] + 1 \in Nat
      BY <2>1
    <3> QED
      BY <1>2, <2>1, <2>2, <2>4, <3>1, <3>2 DEF PortInv
  <2> QED
    BY <2>3, <2>4
<1>6. /\ io = "running"
      /\ queue' = queue \/ queue' = Sent(Received(p), Elsewhere, m_PortToSendTo'[p])
      /\ io' = "wild" <=> opened'[p] = 0
      /\ io' = "dead" => opened'[p] > 0 /\ m_PortToSendTo'[p] = Port0
      /\ opened'[p] > 0 /\ m_PortToSendTo'[p] = Port0 => io' = "dead"
  BY <1>5, PairEnds
<1>7. /\ io' = "wild" <=> p = HighToLow /\ setup.down = Port0
      /\ io' = "dead" <=> p = LowToHigh /\ m_PortToSendTo'[LowToHigh] = Port0
  <2>1. CASE p = HighToLow
    BY <1>2, <1>5, <1>6, <2>1
  <2>2. CASE p = LowToHigh
    BY <1>2, <1>5, <1>6, <2>2
  <2> QED
    BY <1>2, <2>1, <2>2
<1>8. PortInv'
  <2>1. ASSUME setup.down = Port0, NEW i \in DOMAIN observed', observed'[i].pair = HighToLow
        PROVE  i = Len(observed') /\ io' = "wild"
    <3>1. i # Len(observed) + 1 => observed[i].pair = HighToLow /\ i \in DOMAIN observed
      BY <1>4, <2>1
    <3>2. i = Len(observed) + 1
      BY <1>6, <2>1, <3>1 DEF RouteInv, PortInv
    <3>3. p = HighToLow
      BY <1>4, <2>1, <3>2
    <3> QED
      BY <1>4, <1>7, <2>1, <3>2, <3>3
  <2> QED
    BY <1>1, <1>4, <1>5, <1>7, <2>1 DEF PortInv
<1>9. SinceTraffic'
  <2>1. CASE m_DownwardTrafficSeen
    <3>1. observed # <<>> /\ SinceTraffic
      BY <2>1 DEF RouteInv, PortInv, CallerInv
    <3> QED
      BY <1>1, <1>2, <1>4, <1>5, <1>6, <1>7, <2>1, <3>1 DEF SinceTraffic
  <2>2. CASE ~m_DownwardTrafficSeen
    <3>1. observed = <<>> /\ BeforeTraffic
      BY <2>2 DEF RouteInv, PortInv, CallerInv
    <3>2. observed'[1].pair = p /\ observed'[1].data = Received(p)
      BY <1>4, <3>1
    <3>3. CASE caller = Elsewhere
      <4>1. m_PortToSendTo'[LowToHigh] = Port0
        BY <1>5, <2>2, <3>1, <3>3 DEF BeforeTraffic
      <4>2. p = HighToLow => observed'[1].data = Empty
        <5>1. ASSUME p = HighToLow PROVE Head(completed[p]) = Empty
          <6>1. \A i \in 1 .. Len(completed[p]) : completed[p][i] = Empty
            BY <3>1, <3>3, <5>1 DEF BeforeTraffic
          <6>2. Head(completed[p]) = completed[p][1] /\ 1 \in 1 .. Len(completed[p])
            BY <1>3
          <6> QED
            BY <6>1, <6>2
        <5> QED
          BY <1>3, <3>2, <5>1
      <4> QED
        BY <1>1, <1>2, <1>7, <3>2, <3>3, <4>1, <4>2 DEF SinceTraffic
    <3>4. CASE caller # Elsewhere
      <4>1. m_PortToSendTo'[LowToHigh] = remote[HighToLow] /\ remote[HighToLow] \in Clients
        BY <1>5, <2>2, <3>1, <3>4 DEF BeforeTraffic
      <4>2. io' # "dead"
        BY <1>2, <1>7, <4>1
      <4> QED
        BY <1>1, <3>1, <3>4, <4>1, <4>2 DEF SinceTraffic, BeforeTraffic
    <3> QED
      BY <3>3, <3>4
  <2> QED
    BY <2>1, <2>2
<1>10. Elsewhere \in Senders
  BY DEF Senders
<1>11. SenderInv'
  <2>1. CASE queue' = queue
    BY <1>1, <2>1 DEF RouteInv, SenderInv
  <2>2. CASE queue' = Sent(Received(p), Elsewhere, m_PortToSendTo'[p])
    <3>1. m_PortToSendTo'[p] # HighToLow
      BY <1>2, <1>5, <1>9 DEF SinceTraffic
    <3>2. m_PortToSendTo'[p] = HighToLow => Elsewhere \in Clients
      BY <3>1
    <3> QED
      BY <1>1, <1>3, <1>10, <2>2, <3>2, SenderSent, Zenon DEF RouteInv
  <2> QED
    BY <1>6, <2>1, <2>2
<1>12. WaitInv'
  <2>1. \A c \in Clients : completed'[c] = completed[c] /\ received'[c] = received[c]
    BY <1>1, <1>2, <1>3 DEF Receivers
  <2>2. \A c \in Clients : m_PortToSendTo'[LowToHigh] # c => m_PortToSendTo[LowToHigh] # c
    <3>1. CASE m_DownwardTrafficSeen
      BY <1>5, <3>1
    <3>2. CASE ~m_DownwardTrafficSeen
      BY <1>2, <3>2 DEF RouteInv, CallerInv, BeforeTraffic
    <3> QED
      BY <3>1, <3>2
  <2>3. CASE queue' = queue
    BY <1>1, <2>1, <2>2, <2>3 DEF RouteInv, WaitInv
  <2>4. CASE queue' = Sent(Received(p), Elsewhere, m_PortToSendTo'[p])
    <3>1. \A c \in Clients : m_PortToSendTo'[LowToHigh] # c => m_PortToSendTo'[p] # c
      BY <1>2, <1>5
    <3> QED
      BY <1>1, <1>3, <1>10, <2>1, <2>2, <2>4, <3>1, WaitSent DEF RouteInv
  <2> QED
    BY <1>6, <2>3, <2>4
<1> QED
  BY <1>5, <1>8, <1>9, <1>11, <1>12 DEF RouteInv, CallerInv

(* The server answers the lower pair, the clients and the programs below   *)
(* send where SenderInv says.                                              *)
LEMMA RouteSend ==
  ASSUME TypeInv, RouteInv, HandleServer \/ SendUnsolicited \/ \E c \in Clients : mSend(c)
  PROVE  RouteInv'
<1>1. /\ BufferTypes /\ RestTypes /\ OperationTypes /\ setup \in Setups /\ Server \in Receivers
      /\ UNCHANGED <<buffer, remote, counters, learner, received, caller, setup, errors, listening>>
  BY TypeParts DEF TypeInv, HandleServer, Called, SendUnsolicited, mSend, world, clients, Receivers
<1>2. \A q \in Clients \cup Pairs : completed'[q] = completed[q]
  <2>1. \A q \in Clients \cup Pairs : q # Server /\ q \in Receivers
    BY PortsDiffer DEF Receivers
  <2>2. CASE HandleServer
    BY <1>1, <2>1, <2>2, CalledFacts DEF HandleServer
  <2>3. CASE SendUnsolicited \/ \E c \in Clients : mSend(c)
    BY <2>3 DEF SendUnsolicited, mSend
  <2> QED
    BY <2>2, <2>3
<1>3. io' = io \/ (io = "running" /\ io' = "refused")
  BY SendOnFacts DEF HandleServer, Called, SendUnsolicited, mSend
<1>4. PICK packet \in PacketType, sender \in Senders, port \in Ports :
        /\ queue' = queue \/ queue' = Sent(packet, sender, port)
        /\ port = HighToLow => sender \in Clients
        /\ port \notin Clients
  <2>1. CASE HandleServer
    <3>1. Echoed(Received(Server)) \in PacketType
      BY <1>1, <2>1, ReceivedFacts, EchoedIsPacket DEF HandleServer, Called
    <3>2. /\ queue' = queue \/ queue' = Sent(Echoed(Received(Server)), Elsewhere, LowToHigh)
          /\ LowToHigh # HighToLow /\ LowToHigh \notin Clients
      BY <2>1, SendOnFacts, PortsDiffer DEF HandleServer
    <3> QED
      BY <3>1, <3>2, Zenon DEF Senders, Ports, Receivers, Pairs
  <2>2. CASE SendUnsolicited
    <3>1. unsolicited' \in Nat
      BY <1>1, <2>2, SetupParts DEF RestTypes, SendUnsolicited
    <3>2. Packet(Elsewhere, unsolicited', 1) \in PacketType
      BY <3>1 DEF Packet, PacketType
    <3>3. /\ queue' = Sent(Packet(Elsewhere, unsolicited', 1), Elsewhere, LowToHigh)
          /\ LowToHigh # HighToLow /\ LowToHigh \notin Clients
      BY <2>2, PortsDiffer DEF SendUnsolicited
    <3> QED
      BY <3>2, <3>3, Zenon DEF Senders, Ports, Receivers, Pairs
  <2>3. ASSUME NEW c \in Clients, mSend(c)
        PROVE  \E packet \in PacketType, sender \in Senders, port \in Ports :
                 /\ queue' = queue \/ queue' = Sent(packet, sender, port)
                 /\ port = HighToLow => sender \in Clients
                 /\ port \notin Clients
    <3>1. sent[c] \in Nat /\ setup.frames[sent[c] + 1] \in Nat
      BY <1>1, <2>3, FrameFacts
    <3>2. Packet(c, sent[c] + 1, setup.frames[sent[c] + 1]) \in PacketType
      BY <3>1 DEF Packet, PacketType
    <3>3. remote[c] \notin Clients /\ remote[c] \in Ports
      BY PortsDiffer, PortsUnused DEF RouteInv, SenderInv, Ports, Receivers, Pairs
    <3>4. queue' = Sent(Packet(c, sent[c] + 1, setup.frames[sent[c] + 1]), c, remote[c])
      BY <2>3 DEF mSend
    <3> QED
      BY <3>2, <3>3, <3>4, Zenon DEF Senders
  <2> QED
    BY <2>1, <2>2, <2>3, Zenon
<1>5. UNCHANGED <<m_PortToSendTo, opened, m_DownwardTrafficSeen, observed>>
  BY <1>1 DEF learner
<1>6. PortInv' /\ CallerInv'
  BY <1>1, <1>2, <1>3, <1>5 DEF RouteInv, PortInv, CallerInv, BeforeTraffic, SinceTraffic, Pairs
<1>7. SenderInv'
  <2>1. CASE queue' = queue
    BY <1>1, <2>1 DEF RouteInv, SenderInv
  <2>2. CASE queue' = Sent(packet, sender, port)
    BY <1>1, <1>4, <2>2, SenderSent DEF RouteInv
  <2> QED
    BY <1>4, <2>1, <2>2
<1>8. WaitInv'
  <2>1. \A c \in Clients : m_PortToSendTo'[LowToHigh] # c => m_PortToSendTo[LowToHigh] # c /\ port # c
    BY <1>4, <1>5
  <2>2. \A c \in Clients : completed'[c] = completed[c] /\ received'[c] = received[c]
    BY <1>1, <1>2
  <2>3. CASE queue' = queue
    BY <1>1, <2>1, <2>2, <2>3 DEF RouteInv, WaitInv
  <2>4. CASE queue' = Sent(packet, sender, port)
    BY <1>1, <1>4, <2>1, <2>2, <2>4, WaitSent DEF RouteInv
  <2> QED
    BY <1>4, <2>3, <2>4
<1> QED
  BY <1>6, <1>7, <1>8 DEF RouteInv

(* The sink and the clients send nothing.                                  *)
LEMMA RouteDeliver ==
  ASSUME TypeInv, RouteInv, HandleSink \/ \E c \in Clients : HandleClient(c)
  PROVE  RouteInv'
<1>1. /\ RestTypes
      /\ UNCHANGED <<buffer, remote, io, learner, queue, caller, setup, errors, listening>>
  BY TypeParts DEF TypeInv, HandleSink, HandleClient, Handled, Called, world
<1>2. \A c \in Clients : c # Sink /\ c \in Receivers /\ c \notin Pairs
  BY PortsDiffer DEF Receivers, Pairs
<1>3. \A q \in Pairs : completed'[q] = completed[q]
  <2>1. \A q \in Pairs : q # Sink /\ q \in Receivers /\ q \notin Clients
    BY PortsDiffer DEF Receivers, Pairs
  <2>2. Sink \in Receivers
    BY DEF Receivers
  <2> QED
    BY <1>2, <2>1, <2>2, CalledFacts DEF HandleSink, HandleClient, Handled
<1>4. \A c \in Clients : Len(completed'[c]) + received'[c] = Len(completed[c]) + received[c]
  <2>1. CASE HandleSink
    <3>1. Sink \in Receivers /\ Called(Sink) /\ received' = received
      BY <2>1 DEF Receivers, HandleSink, Handled, clients
    <3> QED
      BY <1>2, <3>1, CalledFacts
  <2>2. ASSUME NEW k \in Clients, HandleClient(k)
        PROVE  \A c \in Clients : Len(completed'[c]) + received'[c] = Len(completed[c]) + received[c]
    <3>1. /\ \A q \in Receivers : q # k => completed'[q] = completed[q]
          /\ Len(completed'[k]) = Len(completed[k]) - 1 /\ Len(completed[k]) \in Nat
      BY <1>2, <2>2, CalledFacts DEF HandleClient, Handled
    <3>2. \A c \in Clients : /\ received[c] \in Nat
                            /\ received'[c] = IF c = k THEN received[c] + 1 ELSE received[c]
      BY <1>1, <2>2 DEF HandleClient, RestTypes
    <3>3. ASSUME NEW c \in Clients
          PROVE  Len(completed'[c]) + received'[c] = Len(completed[c]) + received[c]
      <4>1. CASE c = k
        <5>1. /\ Len(completed'[c]) = Len(completed[c]) - 1 /\ Len(completed[c]) \in Nat
              /\ received'[c] = received[c] + 1 /\ received[c] \in Nat
          BY <3>1, <3>2, <4>1
        <5> QED
          BY <5>1
      <4>2. CASE c # k
        BY <1>2, <3>1, <3>2, <4>2
      <4> QED
        BY <4>1, <4>2
    <3> QED
      BY <3>3
  <2> QED
    BY <2>1, <2>2
<1>5. UNCHANGED <<m_PortToSendTo, opened, m_DownwardTrafficSeen, observed>>
  BY <1>1 DEF learner
<1>6. PortInv' /\ SenderInv' /\ CallerInv'
  BY <1>1, <1>3, <1>5
  DEF RouteInv, PortInv, SenderInv, CallerInv, BeforeTraffic, SinceTraffic, Pairs
<1>7. WaitInv'
  BY <1>1, <1>4, <1>5 DEF RouteInv, WaitInv
<1> QED
  BY <1>6, <1>7 DEF RouteInv

(* The owner's calls.  The destructors come upon a pair without a socket   *)
(* when one was built with port 0 and has been given none.                 *)
LEMMA RouteService ==
  ASSUME TypeInv, RouteInv, mStartListening \/ Run \/ mStop \/ Destroy
  PROVE  RouteInv'
<1>1. /\ RestTypes /\ io \in {"idle", "running", "stopped"}
      /\ UNCHANGED <<queue, completed, buffer, remote, learner, clients, caller, setup, errors>>
  BY TypeParts DEF TypeInv, mStartListening, Run, mStop, Destroy, sockets, world
<1>2. UNCHANGED <<m_PortToSendTo, opened, m_DownwardTrafficSeen, observed, received>>
  BY <1>1 DEF learner, clients
<1>3. \/ io' = io
      \/ io' # "dead" /\ (io' = "wild" => \E p \in Pairs : opened[p] = 0)
  BY DEF mStartListening, Run, mStop, Destroy
<1>4. PortInv'
  BY <1>1, <1>2, <1>3 DEF RouteInv, PortInv, Pairs
<1>5. SenderInv' /\ WaitInv'
  BY <1>1, <1>2 DEF RouteInv, SenderInv, WaitInv
<1>6. listening' <= 1 => listening <= 1
  <2>1. listening \in Nat
    BY CallsFacts
  <2>2. listening' \in {listening, listening + 1}
    BY DEF mStartListening, Run, mStop, Destroy, world
  <2> QED
    BY <2>1, <2>2
<1>7. CallerInv'
  <2>1. io' # "dead"
    BY <1>1, <1>3
  <2> QED
    BY <1>1, <1>2, <1>6, <2>1 DEF RouteInv, CallerInv, BeforeTraffic, SinceTraffic
<1> QED
  BY <1>4, <1>5, <1>7 DEF RouteInv

(* Every step keeps the routes.                                            *)
LEMMA RouteStep == TypeInv /\ RouteInv /\ [Next]_vars => RouteInv'
<1> SUFFICES ASSUME TypeInv, RouteInv, [Next]_vars PROVE RouteInv'
  OBVIOUS
<1>1. ASSUME UNCHANGED vars PROVE RouteInv'
  BY <1>1, Zenon DEF vars, sockets, learner, clients, world, RouteInv, PortInv, SenderInv, CallerInv,
     BeforeTraffic, SinceTraffic, WaitInv
<1> QED
  BY <1>1, StepCases, RouteReceive, RouteError, RoutePair, RouteSend, RouteDeliver, RouteService, Zenon

(* The counters that WaitInv adds and compares.                            *)
LEMMA CountTypes ==
  ASSUME TypeInv, NEW c \in Clients
  PROVE  Len(completed[c]) \in Nat /\ received[c] \in Nat /\ errors \in Int
<1>1. OperationTypes /\ RestTypes /\ c \in Receivers
  BY TypeParts DEF TypeInv, Receivers
<1>2. Len(completed[c]) \in Nat /\ received[c] \in Nat
  BY <1>1 DEF OperationTypes, RestTypes
<1> QED
  BY <1>1, <1>2 DEF RestTypes

(* Types and routes hold of every reachable state.                         *)
LEMMA RouteAlways == Spec => [](TypeInv /\ RouteInv)
BY TypeInit, TypeStep, RouteInit, RouteStep, PTL DEF Spec

(* Once the first packet has been processed, everything from below goes to *)
(* one client and never to another: after one call of mStartListening to   *)
(* the sender of the first packet from above.                              *)
THEOREM UpwardRouted == Spec => []UpwardGoesToFirstCaller
<1>1. TypeInv /\ RouteInv => UpwardGoesToFirstCaller
  <2> SUFFICES ASSUME TypeInv, RouteInv, m_DownwardTrafficSeen, io # "dead"
               PROVE  /\ \/ /\ m_PortToSendTo[LowToHigh] \in Clients
                            /\ listening <= 1 => m_PortToSendTo[LowToHigh] = caller
                         \/ m_PortToSendTo[LowToHigh] = Port0 /\ observed[1].data = Empty
                      /\ \A c \in Clients :
                           received[c] > 0 => c = m_PortToSendTo[LowToHigh] \/ errors > 0
    BY DEF UpwardGoesToFirstCaller
  <2>1. \/ /\ m_PortToSendTo[LowToHigh] \in Clients
           /\ listening <= 1 => m_PortToSendTo[LowToHigh] = caller
        \/ m_PortToSendTo[LowToHigh] = Port0 /\ observed[1].data = Empty
    BY DEF RouteInv, CallerInv, SinceTraffic
  <2>2. ASSUME NEW c \in Clients, received[c] > 0, c # m_PortToSendTo[LowToHigh] PROVE errors > 0
    <3>1. Len(completed[c]) \in Nat /\ received[c] \in Nat /\ errors \in Int
      BY CountTypes
    <3> QED
      BY <2>2, <3>1 DEF RouteInv, WaitInv
  <2> QED
    BY <2>1, <2>2
<1> QED
  BY <1>1, RouteAlways, PTL

(* The learner dies for want of a port only when it was given a packet     *)
(* from below, or a failed receive, before any datagram from above, and    *)
(* then nobody has had an answer.                                          *)
THEOREM DiesUncalled == Spec => []DiesOnlyWithoutCaller
<1>1. TypeInv /\ RouteInv => DiesOnlyWithoutCaller
  <2> SUFFICES ASSUME TypeInv, RouteInv, io = "dead"
               PROVE  /\ (observed[1].pair = LowToHigh /\ caller = Elsewhere) \/ observed[1].data = Empty
                      /\ \A c \in Clients : received[c] <= errors
    BY DEF DiesOnlyWithoutCaller
  <2>1. /\ m_PortToSendTo[LowToHigh] = Port0
        /\ (observed[1].pair = LowToHigh /\ caller = Elsewhere) \/ observed[1].data = Empty
    BY DEF RouteInv, CallerInv, BeforeTraffic, SinceTraffic
  <2>2. ASSUME NEW c \in Clients PROVE received[c] <= errors
    <3>1. Len(completed[c]) \in Nat /\ received[c] \in Nat /\ errors \in Int
      BY CountTypes
    <3> QED
      BY <2>1, <3>1, PortsUnused DEF RouteInv, WaitInv, Receivers
  <2> QED
    BY <2>1, <2>2
<1> QED
  BY <1>1, RouteAlways, PTL

(* Uninitialised pointers are met in a handler only of a pair that is      *)
(* built with port 0 below, and then by the first packet from above;       *)
(* otherwise by a destructor before any traffic.  At most one socket is    *)
(* leaked.                                                                 *)
THEOREM WildWithPortZero == Spec => []WildOnlyWithPortZero
<1>1. RouteInv => WildOnlyWithPortZero
  BY DEF RouteInv, PortInv, WildOnlyWithPortZero
<1> QED
  BY <1>1, RouteAlways, PTL

=============================================================================

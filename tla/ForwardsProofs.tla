---------------------------- MODULE ForwardsProofs ----------------------------
(***************************************************************************)
(* The way down through the diode after one call of mStartListening, for   *)
(* any number of clients, any setups and any capacity of the sockets'      *)
(* buffers: what the server or the sink was given, what it holds between   *)
(* receive and handler, what waits in its socket, what the upper pair      *)
(* holds and what waits in its socket form one chain, in which the packets *)
(* of each client stand in the order they were sent.  Each step moves a    *)
(* packet along the chain, drops one, adds a failed receive or adds a      *)
(* packet at the end.                                                      *)
(***************************************************************************)
EXTENDS ProtocolLearnerProofs

\* Of two packets of a client the first was sent first.
Before(p, q) == p.from \in Clients /\ q.from = p.from => p.n < q.n

Goes(A, B) == \A p \in A, q \in B : Before(p, q)

Data(q) == {q[i].data : i \in DOMAIN q}

InOrder(q) == \A i, j \in DOMAIN q : i < j => Before(q[i].data, q[j].data)

Sound(p, counts) ==
  p # Empty => p.from \in Clients /\ ~p.reply /\ p.n \in 1 .. counts[p.from]

\* Given to the one below, held by it, waiting for it, and the same above.
Chain(given, held1, waiting1, held2, waiting2, counts) ==
  /\ \A p \in Range(given) \cup held1 \cup Data(waiting1) \cup held2 \cup Data(waiting2) :
       Sound(p, counts)
  /\ \A i, j \in DOMAIN given : i < j => Before(given[i], given[j])
  /\ InOrder(waiting1) /\ InOrder(waiting2)
  /\ Goes(Range(given), held1 \cup Data(waiting1) \cup held2 \cup Data(waiting2))
  /\ Goes(held1, Data(waiting1) \cup held2 \cup Data(waiting2))
  /\ Goes(Data(waiting1), held2 \cup Data(waiting2))
  /\ Goes(held2, Data(waiting2))

\* With one operation an object has received one packet at most that it has not handled,
\* and nothing has been written over it.
OneReceive ==
  /\ listening <= 1
  /\ \A r \in Receivers :
       completed[r] # <<>> => Head(completed[r]) = Empty \/ Head(completed[r]) = buffer[r]

\* The packet an object has received and not handled.
Held(r) == IF completed[r] # <<>> THEN {Head(completed[r])} ELSE {}

\* The one below: the clients send to the sink, or the upper pair sends on.
End == IF setup.target = Sink THEN Sink ELSE setup.down

EndHeld == IF End \in Receivers THEN Held(End) ELSE {}

EndQueue == IF End \in Receivers THEN queue[End] ELSE <<>>

ForwardInv ==
  /\ Chain(served, EndHeld, EndQueue, Held(HighToLow), queue[HighToLow], sent)
  /\ \A r \in {Server, Sink} \ {End} : queue[r] = <<>> /\ Held(r) \subseteq {Empty}
  /\ setup.target = Sink => listening = 0 /\ queue[HighToLow] = <<>>
  /\ \A c \in Clients : remote[c] \in {setup.target, Elsewhere}

\* The failed receives that wait in a socket, and the one an object may hold.
Places(q, T) == {i \in DOMAIN q : q[i] \in T}

Blanks == {d \in Datagrams : d.data = Empty}

BlankQueue(r) == Cardinality(Places(queue[r], Blanks))

BlankHeld(r) == IF completed[r] # <<>> /\ Head(completed[r]) = Empty THEN 1 ELSE 0

BlankServed == Cardinality(Places(served, {Empty}))

\* Every empty packet on the way down comes of a failed receive of its own.
BlankInv ==
  BlankServed + BlankQueue(Server) + BlankHeld(Server) + BlankQueue(Sink) + BlankHeld(Sink)
    + BlankQueue(HighToLow) + BlankHeld(HighToLow) <= errors

-----------------------------------------------------------------------------
(* How a chain changes.                                                    *)

(* A failed receive is nobody's packet: it stands anywhere.                *)
LEMMA EmptyFacts ==
  /\ Empty.from \notin Clients
  /\ \A p : Before(Empty, p) /\ Before(p, Empty)
  /\ \A counts : Sound(Empty, counts)
<1>1. Empty.from = Elsewhere /\ Elsewhere \notin Clients
  BY PortsUnused DEF Empty, Packet, Receivers
<1> QED
  BY <1>1 DEF Before, Sound

(* The packets of a queue that gets one more datagram.                     *)
LEMMA QueueAppend ==
  ASSUME NEW q \in Seq(Datagrams), NEW d \in Datagrams, InOrder(q), Goes(Data(q), {d.data})
  PROVE  Data(Append(q, d)) = Data(q) \cup {d.data} /\ InOrder(Append(q, d))
<1>1. /\ Len(q) \in Nat /\ DOMAIN q = 1 .. Len(q) /\ DOMAIN Append(q, d) = 1 .. Len(q) + 1
      /\ \A i \in 1 .. Len(q) : Append(q, d)[i] = q[i]
      /\ Append(q, d)[Len(q) + 1] = d
  OBVIOUS
<1> DEFINE t == Append(q, d)
<1> HIDE DEF t
<1>2. Data(t) = Data(q) \cup {d.data}
  <2>1. \A i \in 1 .. Len(q) + 1 : i \in 1 .. Len(q) \/ i = Len(q) + 1
    BY <1>1
  <2>2. \A i \in 1 .. Len(q) : i \in 1 .. Len(q) + 1
    BY <1>1
  <2>3. Len(q) + 1 \in 1 .. Len(q) + 1
    BY <1>1
  <2> QED
    BY <1>1, <2>1, <2>2, <2>3 DEF Data, t
<1>3. ASSUME NEW i \in 1 .. Len(q) + 1, NEW j \in 1 .. Len(q) + 1, i < j
      PROVE  Before(t[i].data, t[j].data)
  <2>1. i \in 1 .. Len(q) /\ t[i] = q[i]
    BY <1>1, <1>3 DEF t
  <2>2. CASE j \in 1 .. Len(q)
    BY <1>1, <1>3, <2>1, <2>2 DEF InOrder, t
  <2>3. CASE j = Len(q) + 1
    <3>1. q[i].data \in Data(q) /\ t[j] = d
      BY <1>1, <2>1, <2>3 DEF Data, t
    <3> QED
      BY <2>1, <3>1 DEF Goes
  <2> QED
    BY <1>1, <2>2, <2>3
<1> QED
  BY <1>1, <1>2, <1>3 DEF InOrder, t

(* The packets of a queue whose first datagram is taken.                   *)
LEMMA QueueTail ==
  ASSUME NEW q \in Seq(Datagrams), q # <<>>, InOrder(q)
  PROVE  /\ Data(q) = {Head(q).data} \cup Data(Tail(q))
         /\ InOrder(Tail(q)) /\ Goes({Head(q).data}, Data(Tail(q)))
<1>1. /\ Len(q) \in Nat \ {0} /\ DOMAIN q = 1 .. Len(q) /\ DOMAIN Tail(q) = 1 .. Len(q) - 1
      /\ \A i \in 1 .. Len(q) - 1 : Tail(q)[i] = q[i + 1]
      /\ Head(q) = q[1]
  OBVIOUS
<1> DEFINE t == Tail(q)
           h == Head(q)
<1> HIDE DEF t, h
<1>2. \A i \in 1 .. Len(q) - 1 : i + 1 \in 1 .. Len(q) /\ 1 < i + 1 /\ t[i] = q[i + 1]
  BY <1>1 DEF t
<1>3. \A i \in 1 .. Len(q) : i = 1 \/ (i - 1 \in 1 .. Len(q) - 1 /\ t[i - 1] = q[i])
  BY <1>1 DEF t
<1>4. 1 \in 1 .. Len(q) /\ h = q[1] /\ DOMAIN t = 1 .. Len(q) - 1
  BY <1>1 DEF h, t
<1>5. Data(q) = {h.data} \cup Data(t)
  <2>1. ASSUME NEW i \in 1 .. Len(q) PROVE q[i].data \in {h.data} \cup Data(t)
    <3>1. CASE i = 1
      BY <1>4, <3>1
    <3>2. CASE i # 1
      BY <1>3, <1>4, <3>2 DEF Data
    <3> QED
      BY <3>1, <3>2
  <2>2. ASSUME NEW i \in 1 .. Len(q) - 1 PROVE t[i].data \in Data(q)
    BY <1>1, <1>2 DEF Data
  <2>3. h.data \in Data(q)
    BY <1>1, <1>4 DEF Data
  <2> QED
    BY <1>1, <1>4, <2>1, <2>2, <2>3 DEF Data
<1>6. InOrder(t)
  <2> SUFFICES ASSUME NEW i \in 1 .. Len(q) - 1, NEW j \in 1 .. Len(q) - 1, i < j
               PROVE  Before(t[i].data, t[j].data)
    BY <1>4 DEF InOrder
  <2>1. i + 1 \in DOMAIN q /\ j + 1 \in DOMAIN q /\ i + 1 < j + 1
    BY <1>1, <1>2
  <2>2. Before(q[i + 1].data, q[j + 1].data)
    BY <2>1 DEF InOrder
  <2> QED
    BY <1>2, <2>2
<1>7. Goes({h.data}, Data(t))
  BY <1>1, <1>2, <1>4 DEF InOrder, Goes, Data
<1> QED
  BY <1>5, <1>6, <1>7 DEF t, h

(* The packets given, and one more.                                        *)
LEMMA GivenAppend ==
  ASSUME NEW s \in Seq(PacketType), NEW p \in PacketType, Goes(Range(s), {p}),
         \A i, j \in DOMAIN s : i < j => Before(s[i], s[j])
  PROVE  /\ Range(Append(s, p)) = Range(s) \cup {p}
         /\ \A i, j \in DOMAIN Append(s, p) : i < j => Before(Append(s, p)[i], Append(s, p)[j])
<1>1. /\ Len(s) \in Nat /\ DOMAIN s = 1 .. Len(s) /\ DOMAIN Append(s, p) = 1 .. Len(s) + 1
      /\ \A i \in 1 .. Len(s) : Append(s, p)[i] = s[i]
      /\ Append(s, p)[Len(s) + 1] = p
  OBVIOUS
<1> DEFINE t == Append(s, p)
<1> HIDE DEF t
<1>2. Range(t) = Range(s) \cup {p}
  <2>1. \A i \in 1 .. Len(s) + 1 : i \in 1 .. Len(s) \/ i = Len(s) + 1
    BY <1>1
  <2>2. \A i \in 1 .. Len(s) : i \in 1 .. Len(s) + 1
    BY <1>1
  <2>3. Len(s) + 1 \in 1 .. Len(s) + 1
    BY <1>1
  <2> QED
    BY <1>1, <2>1, <2>2, <2>3 DEF Range, t
<1>3. ASSUME NEW i \in 1 .. Len(s) + 1, NEW j \in 1 .. Len(s) + 1, i < j
      PROVE  Before(t[i], t[j])
  <2>1. i \in 1 .. Len(s) /\ t[i] = s[i]
    BY <1>1, <1>3 DEF t
  <2>2. CASE j \in 1 .. Len(s)
    BY <1>1, <1>3, <2>1, <2>2 DEF t
  <2>3. CASE j = Len(s) + 1
    <3>1. s[i] \in Range(s) /\ t[j] = p
      BY <1>1, <2>1, <2>3 DEF Range, t
    <3> QED
      BY <2>1, <3>1 DEF Goes
  <2> QED
    BY <1>1, <2>2, <2>3
<1> QED
  BY <1>1, <1>2, <1>3 DEF t

(* A receive moves a packet from the queue to the object, below or above.  *)
LEMMA ChainReceive ==
  ASSUME NEW s, NEW q1 \in Seq(Datagrams), NEW h2, NEW q2 \in Seq(Datagrams), NEW h1, NEW counts
  PROVE  /\ q1 # <<>> /\ Chain(s, {}, q1, h2, q2, counts) =>
              Chain(s, {Head(q1).data}, Tail(q1), h2, q2, counts)
         /\ q2 # <<>> /\ Chain(s, h1, q1, {}, q2, counts) =>
              Chain(s, h1, q1, {Head(q2).data}, Tail(q2), counts)
<1>1. ASSUME q1 # <<>>, Chain(s, {}, q1, h2, q2, counts)
      PROVE  Chain(s, {Head(q1).data}, Tail(q1), h2, q2, counts)
  <2>1. /\ Data(q1) = {Head(q1).data} \cup Data(Tail(q1))
        /\ InOrder(Tail(q1)) /\ Goes({Head(q1).data}, Data(Tail(q1)))
    BY <1>1, QueueTail DEF Chain
  <2> QED
    BY <1>1, <2>1 DEF Chain, Goes
<1>2. ASSUME q2 # <<>>, Chain(s, h1, q1, {}, q2, counts)
      PROVE  Chain(s, h1, q1, {Head(q2).data}, Tail(q2), counts)
  <2>1. /\ Data(q2) = {Head(q2).data} \cup Data(Tail(q2))
        /\ InOrder(Tail(q2)) /\ Goes({Head(q2).data}, Data(Tail(q2)))
    BY <1>2, QueueTail DEF Chain
  <2> QED
    BY <1>2, <2>1 DEF Chain, Goes
<1> QED
  BY <1>1, <1>2

(* A receive that fails puts an empty packet there.                        *)
LEMMA ChainError ==
  ASSUME NEW s, NEW h1, NEW q1, NEW h2, NEW q2, NEW counts, Chain(s, h1, q1, h2, q2, counts)
  PROVE  Chain(s, {Empty}, q1, h2, q2, counts) /\ Chain(s, h1, q1, {Empty}, q2, counts)
BY EmptyFacts DEF Chain, Goes

(* The handler below gives the packet on; other objects give empty ones.   *)
LEMMA ChainServe ==
  ASSUME NEW s \in Seq(PacketType), NEW p \in PacketType, NEW h1, NEW q1, NEW h2, NEW q2, NEW counts
  PROVE  /\ Chain(s, {p}, q1, h2, q2, counts) => Chain(Append(s, p), {}, q1, h2, q2, counts)
         /\ Chain(s, h1, q1, h2, q2, counts) => Chain(Append(s, Empty), h1, q1, h2, q2, counts)
<1>1. ASSUME Chain(s, {p}, q1, h2, q2, counts)
      PROVE  Chain(Append(s, p), {}, q1, h2, q2, counts)
  <2>1. Goes(Range(s), {p}) /\ \A i, j \in DOMAIN s : i < j => Before(s[i], s[j])
    BY <1>1 DEF Chain, Goes
  <2>2. /\ Range(Append(s, p)) = Range(s) \cup {p}
        /\ \A i, j \in DOMAIN Append(s, p) : i < j => Before(Append(s, p)[i], Append(s, p)[j])
    BY <2>1, GivenAppend
  <2> QED
    BY <1>1, <2>2 DEF Chain, Goes
<1>2. ASSUME Chain(s, h1, q1, h2, q2, counts)
      PROVE  Chain(Append(s, Empty), h1, q1, h2, q2, counts)
  <2>1. Goes(Range(s), {Empty}) /\ \A i, j \in DOMAIN s : i < j => Before(s[i], s[j])
    BY <1>2, EmptyFacts DEF Chain, Goes
  <2>2. /\ Range(Append(s, Empty)) = Range(s) \cup {Empty}
        /\ \A i, j \in DOMAIN Append(s, Empty) :
             i < j => Before(Append(s, Empty)[i], Append(s, Empty)[j])
    BY <2>1, EmptyIsPacket, GivenAppend
  <2> QED
    BY <1>2, <2>2, EmptyFacts DEF Chain, Goes
<1> QED
  BY <1>1, <1>2

(* The handler above sends the packet on, unless it is dropped.            *)
LEMMA ChainForward ==
  ASSUME NEW s, NEW h1, NEW q1 \in Seq(Datagrams), NEW d \in Datagrams, NEW q2, NEW counts,
         Chain(s, h1, q1, {d.data}, q2, counts)
  PROVE  Chain(s, h1, Append(q1, d), {}, q2, counts) /\ Chain(s, h1, q1, {}, q2, counts)
<1>1. InOrder(q1) /\ Goes(Data(q1), {d.data})
  BY DEF Chain, Goes
<1>2. Data(Append(q1, d)) = Data(q1) \cup {d.data} /\ InOrder(Append(q1, d))
  BY <1>1, QueueAppend
<1> QED
  BY <1>2 DEF Chain, Goes

(* A client sends its next packet, to the pair or to the sink.             *)
LEMMA ChainSend ==
  ASSUME NEW s, NEW h1, NEW q1 \in Seq(Datagrams), NEW h2, NEW q2 \in Seq(Datagrams),
         NEW counts \in [Clients -> Nat], NEW c \in Clients, NEW d \in Datagrams, NEW size,
         d.data = Packet(c, counts[c] + 1, size),
         Chain(s, h1, q1, h2, q2, counts)
  PROVE  LET next == [counts EXCEPT ![c] = @ + 1]
         IN  /\ Chain(s, h1, q1, h2, q2, next)
             /\ Chain(s, h1, q1, h2, Append(q2, d), next)
             /\ h2 = {} /\ q2 = <<>> => Chain(s, h1, Append(q1, d), h2, q2, next)
<1> DEFINE next == [counts EXCEPT ![c] = @ + 1]
           p == d.data
<1>1. \A x : Sound(x, counts) => Sound(x, next) /\ Before(x, p)
  <2> SUFFICES ASSUME NEW x, Sound(x, counts) PROVE Sound(x, next) /\ Before(x, p)
    OBVIOUS
  <2>1. p.from = c /\ p.n = counts[c] + 1
    BY DEF Packet
  <2>2. x # Empty => x.from \in Clients /\ ~x.reply /\ x.n \in 1 .. counts[x.from]
    BY DEF Sound
  <2>3. x.from \in Clients => x # Empty
    BY EmptyFacts
  <2>4. \A k \in Clients : counts[k] \in Nat /\ next[k] \in Nat /\ counts[k] <= next[k]
    OBVIOUS
  <2> HIDE DEF next, p
  <2>5. Before(x, p)
    BY <2>1, <2>2, <2>3, <2>4 DEF Before
  <2> QED
    BY <2>2, <2>4, <2>5 DEF Sound
<1>2. Sound(p, next)
  <2>1. p.from = c /\ p.n = counts[c] + 1 /\ p.reply = FALSE
    BY DEF Packet
  <2>2. next[c] = counts[c] + 1 /\ counts[c] \in Nat
    OBVIOUS
  <2> HIDE DEF next, p
  <2> QED
    BY <2>1, <2>2 DEF Sound
<1> HIDE DEF next, p
<1>3. Chain(s, h1, q1, h2, q2, next)
  BY <1>1 DEF Chain
<1>4. Chain(s, h1, q1, h2, Append(q2, d), next)
  <2>1. Goes(Data(q2), {p}) /\ InOrder(q2)
    BY <1>1 DEF Chain, Goes
  <2>2. Data(Append(q2, d)) = Data(q2) \cup {p} /\ InOrder(Append(q2, d))
    BY <2>1, QueueAppend DEF p
  <2> QED
    BY <1>1, <1>2, <2>2 DEF Chain, Goes
<1>5. ASSUME h2 = {}, q2 = <<>>
      PROVE  Chain(s, h1, Append(q1, d), h2, q2, next)
  <2>1. Goes(Data(q1), {p}) /\ InOrder(q1)
    BY <1>1 DEF Chain, Goes
  <2>2. Data(Append(q1, d)) = Data(q1) \cup {p} /\ InOrder(Append(q1, d))
    BY <2>1, QueueAppend DEF p
  <2>3. Data(q2) = {}
    BY <1>5 DEF Data
  <2> QED
    BY <1>1, <1>2, <1>5, <2>2, <2>3 DEF Chain, Goes
<1> QED
  BY <1>3, <1>4, <1>5 DEF next

-----------------------------------------------------------------------------
(* How the steps of the diode change it.                                   *)

(* The one below, and the types of what the chain is made of.              *)
LEMMA EndFacts ==
  ASSUME TypeInv
  PROVE  /\ End \in {Server, Sink, Elsewhere, Port0}
         /\ Elsewhere \notin Receivers /\ Port0 \notin Receivers /\ {Server, Sink, HighToLow, LowToHigh} \subseteq Receivers
         /\ End # HighToLow /\ End # LowToHigh /\ End \notin Clients
         /\ setup.target = HighToLow => End = setup.down
         /\ setup.target = Sink => End = Sink
         /\ setup.target \in {HighToLow, Sink}
         /\ \A r \in Receivers : /\ queue[r] \in Seq(Datagrams) /\ buffer[r] \in PacketType
                                 /\ completed[r] \in Seq(PacketType)
         /\ EndQueue \in Seq(Datagrams)
         /\ served \in Seq(PacketType) /\ sent \in [Clients -> Nat]
<1>1. setup \in Setups /\ QueueTypes /\ OperationTypes /\ BufferTypes /\ RestTypes
  BY TypeParts DEF TypeInv
<1>2. setup.target \in {HighToLow, Sink} /\ setup.down \in {Server, Sink, Elsewhere, Port0}
  BY <1>1, SetupParts
<1>3. Elsewhere \notin Receivers /\ Port0 \notin Receivers /\ {Server, Sink, HighToLow, LowToHigh} \subseteq Receivers
  BY PortsUnused DEF Receivers, Pairs
<1>4. /\ HighToLow # Sink /\ HighToLow # Server /\ LowToHigh # Sink /\ LowToHigh # Server
      /\ Server \notin Clients /\ Sink \notin Clients
      /\ Elsewhere \notin Clients /\ Port0 \notin Clients
      /\ Port0 \notin {HighToLow, LowToHigh} /\ Elsewhere \notin {HighToLow, LowToHigh}
  BY <1>3, PortsDiffer DEF Pairs, Receivers
<1>5. /\ \A r \in Receivers : /\ queue[r] \in Seq(Datagrams) /\ buffer[r] \in PacketType
                              /\ completed[r] \in Seq(PacketType)
      /\ served \in Seq(PacketType) /\ sent \in [Clients -> Nat]
  BY <1>1 DEF QueueTypes, OperationTypes, BufferTypes, RestTypes
<1>6. EndQueue \in Seq(Datagrams)
  BY <1>5, EmptySeq DEF EndQueue
<1>7. /\ End \in {Server, Sink, Elsewhere, Port0}
      /\ setup.target = HighToLow => End = setup.down
      /\ setup.target = Sink => End = Sink
  BY <1>2, <1>4 DEF End
<1> QED
  BY <1>2, <1>3, <1>4, <1>5, <1>6, <1>7

(* What Sent does to each queue.                                           *)
LEMMA SentCases ==
  ASSUME TypeInv, NEW packet, NEW sender, NEW port, NEW r \in Receivers
  PROVE  \/ Sent(packet, sender, port)[r] = queue[r]
         \/ r = port /\ Sent(packet, sender, port)[r] =
              Append(queue[r], [data |-> packet, sender |-> sender])
<1>1. queue \in [Receivers -> Seq(Datagrams)]
  BY TypeParts DEF TypeInv, QueueTypes
<1> QED
  BY <1>1 DEF Sent

\* A datagram leaves every queue but that of its port alone.
LEMMA SentToOther ==
  ASSUME TypeInv, NEW packet, NEW sender, NEW port, NEW r \in Receivers, r # port
  PROVE  Sent(packet, sender, port)[r] = queue[r]
<1>1. queue \in [Receivers -> Seq(Datagrams)]
  BY TypeParts DEF TypeInv, QueueTypes
<1> QED
  BY <1>1 DEF Sent

(* Steps beside the way down.                                              *)
LEMMA ForwardFrame ==
  ASSUME TypeInv, ForwardInv, setup' = setup, served' = served, sent' = sent,
         \A r \in {Server, Sink, HighToLow} : queue'[r] = queue[r] /\ Held(r)' = Held(r),
         \A c \in Clients : remote'[c] \in {remote[c], Elsewhere},
         listening' = listening \/ setup.target = HighToLow
  PROVE  ForwardInv'
<1>1. /\ End' = End /\ End \in {Server, Sink, Elsewhere, Port0}
      /\ Elsewhere \notin Receivers /\ Port0 \notin Receivers
  BY EndFacts DEF End
<1>2. EndHeld' = EndHeld /\ EndQueue' = EndQueue
  BY <1>1 DEF EndHeld, EndQueue
<1>3. HighToLow # Sink
  BY PortsDiffer DEF Pairs
<1> QED
  BY <1>1, <1>2, <1>3 DEF ForwardInv

(* What an object holds while its one operation and its handler end.       *)
LEMMA HeldFacts ==
  ASSUME TypeInv, OneReceive, NEW r \in Receivers
  PROVE  /\ \A packet \in PacketType :
              Complete(r, packet) /\ listening' = listening =>
                /\ Held(r) = {} /\ Held(r)' = {packet}
                /\ completed[r] = <<>> /\ completed'[r] = <<packet>>
                /\ \A q \in Receivers : q # r => completed'[q] = completed[q]
         /\ Called(r) =>
              /\ Held(r) = {Received(r)} /\ Held(r)' = {} /\ completed'[r] = <<>>
              /\ Received(r) \in PacketType
              /\ \A q \in Receivers : q # r => completed'[q] = completed[q]
         /\ armed[r] > 0 \/ completed[r] # <<>> => (r \in Pairs => listening = 1)
<1>1. /\ armed[r] \in Nat /\ completed[r] \in Seq(PacketType) /\ Len(completed[r]) \in Nat
      /\ armed[r] + Len(completed[r]) <= Calls(r)
      /\ OperationTypes /\ BufferTypes
  BY TypeParts DEF TypeInv, OperationTypes
<1>2. /\ Calls(r) \in Nat /\ Calls(r) <= 1 /\ (r \in Pairs => Calls(r) = listening)
      /\ listening \in Nat
  BY CallsFacts DEF OneReceive, Calls
<1>3. Len(completed[r]) = 0 <=> completed[r] = <<>>
  BY <1>1, EmptySeq
<1>4. ASSUME NEW packet \in PacketType, Complete(r, packet), listening' = listening
      PROVE  /\ Held(r) = {} /\ Held(r)' = {packet}
             /\ completed[r] = <<>> /\ completed'[r] = <<packet>>
             /\ \A q \in Receivers : q # r => completed'[q] = completed[q]
  <2>1. armed[r] > 0
    BY <1>4 DEF Complete
  <2>2. completed[r] = <<>>
    BY <1>1, <1>2, <1>3, <2>1
  <2>3. \A q \in Receivers :
          completed'[q] = IF q = r THEN Append(completed[r], packet) ELSE completed[q]
    BY <1>4, CompleteFacts
  <2>4. completed'[r] = <<packet>>
    BY <2>2, <2>3
  <2>5. <<packet>> # <<>> /\ Head(<<packet>>) = packet
    OBVIOUS
  <2> QED
    BY <2>2, <2>3, <2>4, <2>5 DEF Held
<1>5. ASSUME Called(r)
      PROVE  /\ Held(r) = {Received(r)} /\ Held(r)' = {} /\ completed'[r] = <<>>
             /\ Received(r) \in PacketType
             /\ \A q \in Receivers : q # r => completed'[q] = completed[q]
  <2>1. /\ completed' \in [Receivers -> Seq(PacketType)]
        /\ \A q \in Receivers : q # r => completed'[q] = completed[q]
        /\ Len(completed'[r]) = Len(completed[r]) - 1
        /\ Len(completed[r]) \in Nat \ {0} /\ completed[r] # <<>>
    BY <1>5, CalledFacts
  <2>2. Len(completed'[r]) = 0 /\ completed'[r] \in Seq(PacketType)
    <3>1. Len(completed[r]) \in Nat \ {0} /\ Len(completed[r]) <= 1
      BY <1>1, <1>2, <2>1
    <3> DEFINE k == Len(completed[r])
    <3>2. k \in Int /\ k # 0 /\ k >= 0 /\ k <= 1
      BY <3>1
    <3> HIDE DEF k
    <3>4. k = 1
      BY <3>2
    <3>5. Len(completed[r]) = 1
      BY <3>4 DEF k
    <3>3. Len(completed'[r]) = 0
      BY <2>1, <3>5
    <3> QED
      BY <2>1, <3>3
  <2>3. completed'[r] = <<>>
    BY <2>2, EmptySeq
  <2>4. Received(r) = Head(completed[r])
    <3>1. CASE Head(completed[r]) = Empty
      BY <3>1 DEF Received
    <3>2. CASE Head(completed[r]) # Empty
      <4>1. Head(completed[r]) = buffer[r] /\ buffer[r] \in PacketType
        BY <1>1, <2>1, <3>2 DEF OneReceive, BufferTypes
      <4>2. [buffer[r] EXCEPT !.size = buffer[r].size] = buffer[r]
        BY <4>1 DEF PacketType
      <4> QED
        BY <3>2, <4>1, <4>2 DEF Received
    <3> QED
      BY <3>1, <3>2
  <2>5. Received(r) \in PacketType
    BY <1>1, <2>1, ReceivedFacts
  <2> QED
    BY <2>1, <2>3, <2>4, <2>5 DEF Held
<1>6. armed[r] > 0 \/ completed[r] # <<>> => (r \in Pairs => listening = 1)
  BY <1>1, <1>2, <1>3
<1> QED
  BY <1>4, <1>5, <1>6

(* As long as no second call is made, it stays so.                         *)
LEMMA OneReceiveStep ==
  ASSUME TypeInv, listening <= 1 => OneReceive, [Next]_vars, listening' <= 1
  PROVE  listening <= 1 /\ OneReceive'
<1>1. listening \in Nat /\ listening' \in {listening, listening + 1}
  <2>1. listening \in Nat
    BY CallsFacts
  <2>2. ASSUME mStartListening PROVE listening' = listening + 1
    BY <2>2 DEF mStartListening
  <2>3. ASSUME Run \/ mStop \/ Destroy \/ SendUnsolicited PROVE listening' = listening
    BY <2>3 DEF Run, mStop, Destroy, SendUnsolicited, world
  <2>8. ASSUME UNCHANGED vars PROVE listening' = listening
    BY <2>8 DEF vars, world
  <2>4. ASSUME NEW r \in Receivers, ReceiveFrom(r) \/ ReceiveError(r) PROVE listening' = listening
    BY <2>4 DEF ReceiveFrom, ReceiveError, world
  <2>5. ASSUME NEW c \in Clients, HandleClient(c) \/ mSend(c) PROVE listening' = listening
    BY <2>5 DEF HandleClient, Handled, Called, mSend, world
  <2>6. ASSUME NEW p \in Pairs, HandlePair(p) PROVE listening' = listening
    BY <2>6 DEF HandlePair, Called, world
  <2>7. ASSUME HandleServer \/ HandleSink PROVE listening' = listening
    BY <2>7 DEF HandleServer, HandleSink, Handled, Called, world
  <2> QED
    BY <2>1, <2>2, <2>3, <2>4, <2>5, <2>6, <2>7, <2>8, StepCases, Zenon
<1>2. listening <= 1 /\ OneReceive
  BY <1>1
<1>3. ASSUME completed' = completed, buffer' = buffer PROVE OneReceive'
  BY <1>2, <1>3 DEF OneReceive
<1>4. ASSUME NEW r \in Receivers, ReceiveFrom(r) \/ ReceiveError(r) PROVE OneReceive'
  <2>1. /\ queue \in [Receivers -> Seq(Datagrams)] /\ buffer \in [Receivers -> PacketType]
        /\ listening' = listening
    BY <1>4, TypeParts DEF TypeInv, QueueTypes, BufferTypes, ReceiveFrom, ReceiveError, world
  <2>2. PICK packet \in PacketType : Complete(r, packet) /\ (packet = Empty \/ packet = buffer'[r])
    <3>1. CASE ReceiveFrom(r)
      <4>1. Head(queue[r]) \in Datagrams
        BY <2>1, <3>1, TailFacts DEF ReceiveFrom
      <4>2. Head(queue[r]).data \in PacketType /\ buffer'[r] = Head(queue[r]).data
        BY <2>1, <3>1, <4>1 DEF Datagrams, ReceiveFrom
      <4> QED
        BY <3>1, <4>2 DEF ReceiveFrom
    <3>2. CASE ReceiveError(r)
      BY <3>2, EmptyIsPacket DEF ReceiveError
    <3> QED
      BY <1>4, <3>1, <3>2
  <2>3. ASSUME NEW q \in Receivers, completed'[q] # <<>>
        PROVE  Head(completed'[q]) = Empty \/ Head(completed'[q]) = buffer'[q]
    <3>1. CASE q = r
      <4>1. completed'[q] = <<packet>>
        BY <1>2, <2>1, <2>2, <3>1, HeldFacts
      <4> QED
        BY <2>2, <3>1, <4>1
    <3>2. CASE q # r
      <4>1. completed'[q] = completed[q]
        BY <1>2, <2>1, <2>2, <3>2, HeldFacts
      <4>2. buffer'[q] = buffer[q]
        BY <1>4, <2>1, <3>2 DEF ReceiveFrom, ReceiveError
      <4> QED
        BY <1>2, <2>3, <4>1, <4>2 DEF OneReceive
    <3> QED
      BY <3>1, <3>2
  <2> QED
    BY <2>3 DEF OneReceive
<1>5. ASSUME NEW r \in Receivers, Called(r) PROVE OneReceive'
  <2>1. completed'[r] = <<>> /\ \A q \in Receivers : q # r => completed'[q] = completed[q]
    BY <1>2, <1>5, HeldFacts
  <2>2. buffer' = buffer
    BY <1>5 DEF Called
  <2> QED
    BY <1>2, <2>1, <2>2 DEF OneReceive
<1>7. ASSUME NEW c \in Clients, HandleClient(c) \/ mSend(c) PROVE OneReceive'
  BY <1>3, <1>5, <1>7 DEF HandleClient, Handled, mSend, Receivers
<1>8. ASSUME NEW p \in Pairs, HandlePair(p) PROVE OneReceive'
  BY <1>5, <1>8 DEF HandlePair, Receivers
<1>9. ASSUME HandleServer \/ HandleSink PROVE OneReceive'
  <2>1. Called(Server) \/ Called(Sink)
    BY <1>9 DEF HandleServer, HandleSink, Handled
  <2> QED
    BY <1>5, <2>1 DEF Receivers
<1>10. ASSUME \/ mStartListening \/ Run \/ mStop \/ Destroy \/ SendUnsolicited
              \/ UNCHANGED vars
       PROVE  OneReceive'
  <2>1. completed' = completed /\ buffer' = buffer
    BY <1>10 DEF mStartListening, Run, mStop, Destroy, SendUnsolicited, vars, sockets
  <2> QED
    BY <1>3, <2>1
<1> QED
  BY <1>2, <1>4, <1>7, <1>8, <1>9, <1>10, StepCases, Zenon

(* A receive.                                                              *)
LEMMA ForwardReceive ==
  ASSUME TypeInv, OneReceive, RouteInv, ForwardInv, NEW r \in Receivers, ReceiveFrom(r)
  PROVE  ForwardInv'
<1>1. /\ UNCHANGED <<setup, served, sent, listening>>
      /\ Complete(r, Head(queue[r]).data) /\ queue[r] # <<>>
      /\ queue' = [queue EXCEPT ![r] = Tail(@)]
      /\ remote' = [remote EXCEPT ![r] = Head(queue[r]).sender]
  BY DEF ReceiveFrom, Complete, world, clients
<1>2. /\ queue \in [Receivers -> Seq(Datagrams)] /\ remote \in [Receivers -> Ports]
      /\ Head(queue[r]).data \in PacketType
  <2>1. queue \in [Receivers -> Seq(Datagrams)] /\ remote \in [Receivers -> Ports]
    BY TypeParts DEF TypeInv, QueueTypes, BufferTypes
  <2>2. Head(queue[r]) \in Datagrams
    BY <1>1, <2>1, TailFacts
  <2> QED
    BY <2>1, <2>2 DEF Datagrams
<1>3. /\ queue'[r] = Tail(queue[r]) /\ remote'[r] = Head(queue[r]).sender
      /\ Held(r) = {} /\ Held(r)' = {Head(queue[r]).data}
  BY <1>1, <1>2, HeldFacts
<1>4. ASSUME NEW q \in Receivers, q # r
      PROVE  /\ queue'[q] = queue[q] /\ remote'[q] = remote[q]
             /\ Held(q)' = Held(q)
  <2>1. queue'[q] = queue[q] /\ remote'[q] = remote[q]
    BY <1>1, <1>2, <1>4
  <2>2. completed'[q] = completed[q]
    BY <1>1, <1>2, <1>4, HeldFacts
  <2> QED
    BY <2>1, <2>2 DEF Held
<1>5. \A c \in Clients : remote'[c] \in {remote[c], Elsewhere}
  <2>1. ASSUME NEW c \in Clients, c = r PROVE remote'[c] = Elsewhere
    <3>1. queue[c] \in Seq([data : PacketType, sender : {Elsewhere}]) /\ queue[c] # <<>>
      BY <1>1, <2>1 DEF RouteInv, SenderInv
    <3>2. Head(queue[c]) \in [data : PacketType, sender : {Elsewhere}]
      BY <3>1, TailFacts
    <3> QED
      BY <1>3, <2>1, <3>2
  <2> QED
    BY <1>4, <2>1 DEF Receivers
<1>6. End' = End
  BY <1>1 DEF End
<1>7. CASE r = End
  <2>1. Chain(served, {Head(EndQueue).data}, Tail(EndQueue), Held(HighToLow), queue[HighToLow], sent)
    <3>1. EndHeld = {} /\ EndQueue # <<>> /\ EndQueue \in Seq(Datagrams)
      BY <1>1, <1>3, <1>7, EndFacts DEF EndHeld, EndQueue
    <3>2. queue[HighToLow] \in Seq(Datagrams)
      BY EndFacts
    <3>3. Chain(served, {}, EndQueue, Held(HighToLow), queue[HighToLow], sent)
      BY <3>1 DEF ForwardInv
    <3> QED
      BY <3>1, <3>2, <3>3, ChainReceive
  <2>2. EndHeld' = {Head(EndQueue).data} /\ EndQueue' = Tail(EndQueue)
    BY <1>3, <1>6, <1>7 DEF EndHeld, EndQueue
  <2>3. HighToLow # r /\ HighToLow \in Receivers /\ {Server, Sink} \subseteq Receivers
    BY <1>7, EndFacts
  <2>4. \A q \in {Server, Sink} \ {End} : queue'[q] = <<>> /\ Held(q)' \subseteq {Empty}
    BY <1>4, <1>7, <2>3 DEF ForwardInv
  <2> QED
    BY <1>1, <1>4, <1>5, <1>6, <2>1, <2>2, <2>3, <2>4 DEF ForwardInv
<1>8. CASE r = HighToLow
  <2>1. setup.target = HighToLow
    <3>1. setup.target \in {HighToLow, Sink}
      BY EndFacts
    <3>2. listening = 1
      BY <1>1, <1>8, HeldFacts DEF Complete, Pairs
    <3> QED
      BY <3>1, <3>2 DEF ForwardInv
  <2>2. End # r /\ {Server, Sink} \subseteq Receivers /\ Server # r /\ Sink # r
    BY <1>8, EndFacts, PortsDiffer DEF Pairs
  <2>3. EndHeld' = EndHeld /\ EndQueue' = EndQueue
    BY <1>4, <1>6, <2>2 DEF EndHeld, EndQueue
  <2>4. Chain(served, EndHeld, EndQueue, {Head(queue[r]).data}, Tail(queue[r]), sent)
    <3>1. Chain(served, EndHeld, EndQueue, {}, queue[r], sent)
      BY <1>3, <1>8 DEF ForwardInv
    <3>2. EndQueue \in Seq(Datagrams) /\ queue[r] \in Seq(Datagrams)
      BY EndFacts
    <3> QED
      BY <1>1, <3>1, <3>2, ChainReceive
  <2>5. \A q \in {Server, Sink} \ {End} : queue'[q] = <<>> /\ Held(q)' \subseteq {Empty}
    BY <1>4, <2>2 DEF ForwardInv
  <2>6. setup.target # Sink
    BY <2>1, <2>2, <1>8
  <2> QED
    BY <1>1, <1>3, <1>5, <1>6, <1>8, <2>3, <2>4, <2>5, <2>6 DEF ForwardInv
<1>9. CASE r \notin {End, HighToLow}
  <2>1. r \notin {Server, Sink}
    BY <1>1, <1>9 DEF ForwardInv
  <2>2. \A q \in {Server, Sink, HighToLow} : q \in Receivers /\ q # r
    BY <1>9, <2>1, EndFacts
  <2> QED
    BY <1>1, <1>4, <1>5, <2>2, ForwardFrame
<1> QED
  BY <1>7, <1>8, <1>9

(* A receive that fails.                                                   *)
LEMMA ForwardError ==
  ASSUME TypeInv, OneReceive, ForwardInv, NEW r \in Receivers, ReceiveError(r)
  PROVE  ForwardInv'
<1>1. /\ UNCHANGED <<setup, served, sent, listening, queue, remote>>
      /\ Complete(r, Empty)
  BY DEF ReceiveError, Complete, clients
<1>2. Empty \in PacketType
  BY EmptyIsPacket
<1>3. Held(r)' = {Empty}
  BY <1>1, <1>2, HeldFacts
<1>4. ASSUME NEW q \in Receivers, q # r PROVE Held(q)' = Held(q)
  BY <1>1, <1>2, <1>4, HeldFacts DEF Held
<1>5. End' = End /\ {Server, Sink, HighToLow} \subseteq Receivers /\ End # HighToLow
  BY <1>1, EndFacts DEF End
<1>6. Chain(served, EndHeld, EndQueue, Held(HighToLow), queue[HighToLow], sent)
  BY DEF ForwardInv
<1>7. Chain(served, EndHeld', EndQueue, Held(HighToLow)', queue[HighToLow], sent)
  <2>1. CASE r = End
    <3>1. EndHeld' = {Empty} /\ Held(HighToLow)' = Held(HighToLow)
      BY <1>3, <1>4, <1>5, <2>1 DEF EndHeld
    <3> QED
      BY <1>6, <3>1, ChainError
  <2>2. CASE r = HighToLow
    <3>1. EndHeld' = EndHeld /\ Held(HighToLow)' = {Empty}
      BY <1>3, <1>4, <1>5, <2>2 DEF EndHeld
    <3> QED
      BY <1>6, <3>1, ChainError
  <2>3. CASE r \notin {End, HighToLow}
    <3>1. EndHeld' = EndHeld /\ Held(HighToLow)' = Held(HighToLow)
      BY <1>4, <1>5, <2>3 DEF EndHeld
    <3> QED
      BY <1>6, <3>1
  <2> QED
    BY <2>1, <2>2, <2>3
<1>8. EndQueue' = EndQueue
  BY <1>1, <1>5 DEF EndQueue
<1>9. \A q \in {Server, Sink} \ {End} : queue'[q] = <<>> /\ Held(q)' \subseteq {Empty}
  BY <1>1, <1>3, <1>4, <1>5 DEF ForwardInv
<1> QED
  BY <1>1, <1>5, <1>7, <1>8, <1>9 DEF ForwardInv

(* The handler of the upper pair sends the packet on.  What the lower pair *)
(* sends goes up or nowhere.                                               *)
LEMMA ForwardPair ==
  ASSUME TypeInv, TypeInv', OneReceive, RouteInv, RouteInv', ForwardInv, NEW p \in Pairs, HandlePair(p)
  PROVE  ForwardInv'
<1>1. /\ UNCHANGED <<setup, served, sent, listening, remote>>
      /\ Called(p) /\ p \in Receivers
      /\ queue' = queue \/ queue' = Sent(Received(p), Elsewhere, m_PortToSendTo'[p])
  <2>1. opened' \in [Pairs -> Nat]
    BY DEF TypeInv, TypeOK
  <2> QED
    BY <2>1, PairEnds DEF HandlePair, Called, world, clients, Receivers
<1>2. End' = End /\ {Server, Sink, HighToLow} \subseteq Receivers
  BY <1>1, EndFacts DEF End
<1>3. \A q \in Receivers : q # p => Held(q)' = Held(q)
  BY <1>1, HeldFacts DEF Held
<1>4. /\ listening = 1 /\ Held(p) = {Received(p)} /\ Held(p)' = {}
      /\ Received(p) \in PacketType
  BY <1>1, HeldFacts DEF Called
<1>5. CASE p = LowToHigh
  <2>1. p \notin {Server, Sink, HighToLow}
    BY <1>5, PortsDiffer DEF Pairs
  <2>2. m_PortToSendTo'[p] \notin {Server, Sink, HighToLow}
    <3>1. m_DownwardTrafficSeen'
      BY DEF HandlePair, mProcessPacket, SetsUpwardPort
    <3>2. m_PortToSendTo'[LowToHigh] \in Clients \cup {Port0}
      BY <3>1 DEF RouteInv, CallerInv, SinceTraffic
    <3> QED
      BY <1>5, <3>2, PortsDiffer, PortsUnused DEF Receivers, Pairs
  <2>3. ASSUME NEW q \in {Server, Sink, HighToLow} PROVE queue'[q] = queue[q]
    <3>1. q \in Receivers /\ q # m_PortToSendTo'[p]
      BY <1>2, <2>2
    <3>2. Sent(Received(p), Elsewhere, m_PortToSendTo'[p])[q] = queue[q]
      BY <3>1, SentToOther
    <3> QED
      BY <1>1, <3>2
  <2> QED
    BY <1>1, <1>2, <1>3, <2>1, <2>3, ForwardFrame
<1>6. CASE p = HighToLow
  <2>1. setup.target = HighToLow /\ setup.target # Sink /\ End = setup.down /\ End # HighToLow
    BY <1>4, EndFacts DEF ForwardInv
  <2>2. m_PortToSendTo'[HighToLow] = End
    BY <1>1, <2>1 DEF RouteInv, PortInv
  <2> DEFINE d == [data |-> Received(p), sender |-> Elsewhere]
  <2>3. d \in Datagrams /\ d.data = Received(p)
    BY <1>4 DEF Datagrams, Senders
  <2> HIDE DEF d
  <2>4. \A q \in Receivers : queue'[q] = queue[q] \/ (q = End /\ queue'[q] = Append(queue[q], d))
    BY <1>1, <1>6, <2>2, SentCases DEF d
  <2>5. queue'[HighToLow] = queue[HighToLow]
    BY <1>2, <2>1, <2>4
  <2>6. Chain(served, EndHeld, EndQueue, {d.data}, queue[HighToLow], sent)
    BY <1>4, <1>6, <2>3 DEF ForwardInv
  <2>7. /\ Chain(served, EndHeld, Append(EndQueue, d), {}, queue[HighToLow], sent)
        /\ Chain(served, EndHeld, EndQueue, {}, queue[HighToLow], sent)
    <3>1. EndQueue \in Seq(Datagrams)
      BY EndFacts
    <3> QED
      BY <2>3, <2>6, <3>1, ChainForward
  <2>8. EndHeld' = EndHeld /\ (EndQueue' = EndQueue \/ EndQueue' = Append(EndQueue, d))
    BY <1>2, <1>3, <1>6, <2>1, <2>4 DEF EndHeld, EndQueue
  <2>9. \A q \in {Server, Sink} \ {End} : queue'[q] = <<>> /\ Held(q)' \subseteq {Empty}
    <3>1. Server # p /\ Sink # p
      BY <1>6, PortsDiffer DEF Pairs
    <3> QED
      BY <1>2, <1>3, <2>4, <3>1 DEF ForwardInv
  <2> QED
    BY <1>1, <1>2, <1>4, <1>6, <2>1, <2>5, <2>7, <2>8, <2>9 DEF ForwardInv
<1> QED
  BY <1>5, <1>6 DEF Pairs

(* The server or the sink is given what it holds.                          *)
LEMMA ForwardServe ==
  ASSUME TypeInv, OneReceive, ForwardInv, NEW r \in {Server, Sink}, Called(r),
         served' = Append(served, Received(r)), UNCHANGED sent,
         queue' = queue \/ \E packet : queue' = Sent(packet, Elsewhere, LowToHigh)
  PROVE  ForwardInv'
<1>1. UNCHANGED <<setup, sent, listening, remote>> /\ r \in Receivers
  BY EndFacts DEF Called, world
<1>2. /\ End' = End /\ {Server, Sink, HighToLow} \subseteq Receivers
      /\ LowToHigh \notin {Server, Sink, HighToLow} /\ r # HighToLow
  BY <1>1, EndFacts, PortsDiffer DEF End, Pairs
<1>3. ASSUME NEW q \in {Server, Sink, HighToLow} PROVE queue'[q] = queue[q]
  <2>1. q \in Receivers /\ q # LowToHigh
    BY <1>2
  <2>2. \A packet : Sent(packet, Elsewhere, LowToHigh)[q] = queue[q]
    BY <2>1, SentToOther
  <2> QED
    BY <2>2
<1>4. \A q \in Receivers : q # r => Held(q)' = Held(q)
  BY <1>1, HeldFacts DEF Held
<1>5. Held(r) = {Received(r)} /\ Held(r)' = {} /\ Received(r) \in PacketType
  BY <1>1, HeldFacts
<1>6. EndQueue' = EndQueue /\ Held(HighToLow)' = Held(HighToLow)
  BY <1>2, <1>3, <1>4, EndFacts DEF EndQueue
<1>7. Chain(served, EndHeld, EndQueue, Held(HighToLow), queue[HighToLow], sent)
  BY DEF ForwardInv
<1>8. Chain(served', EndHeld', EndQueue, Held(HighToLow), queue[HighToLow], sent)
  <2>1. served \in Seq(PacketType)
    BY EndFacts
  <2>2. CASE r = End
    <3>1. EndHeld = {Received(r)} /\ EndHeld' = {}
      BY <1>1, <1>2, <1>5, <2>2 DEF EndHeld
    <3> QED
      BY <1>5, <1>7, <2>1, <3>1, ChainServe
  <2>3. CASE r # End
    <3>1. EndHeld' = EndHeld
      BY <1>2, <1>4, <2>3 DEF EndHeld
    <3>2. Received(r) = Empty
      BY <1>5, <2>3 DEF ForwardInv
    <3> QED
      BY <1>5, <1>7, <2>1, <3>1, <3>2, ChainServe
  <2> QED
    BY <2>2, <2>3
<1>9. \A q \in {Server, Sink} \ {End} : queue'[q] = <<>> /\ Held(q)' \subseteq {Empty}
  BY <1>2, <1>3, <1>4, <1>5 DEF ForwardInv
<1> QED
  BY <1>1, <1>2, <1>3, <1>6, <1>8, <1>9 DEF ForwardInv

(* A client sends.                                                         *)
LEMMA ForwardSend ==
  ASSUME TypeInv, OneReceive, ForwardInv, NEW c \in Clients, mSend(c)
  PROVE  ForwardInv'
<1> DEFINE size == setup.frames[sent[c] + 1]
           packet == Packet(c, sent[c] + 1, size)
           d == [data |-> packet, sender |-> c]
<1>1. /\ UNCHANGED <<setup, served, listening, remote, completed>>
      /\ sent' = [sent EXCEPT ![c] = @ + 1]
      /\ queue' = Sent(packet, c, remote[c])
  BY DEF mSend, world
<1>2. d \in Datagrams /\ d.data = Packet(c, sent[c] + 1, size)
  <2>1. sent[c] \in Nat /\ size \in Nat
    <3>1. sent \in [Clients -> Nat] /\ setup.frames \in Seq(Nat) /\ sent[c] < Len(setup.frames)
      BY TypeParts, SetupParts DEF TypeInv, RestTypes, mSend
    <3> QED
      BY <3>1
  <2>2. packet \in PacketType
    BY <2>1 DEF Packet, PacketType
  <2> QED
    BY <2>2 DEF Datagrams, Senders
<1> HIDE DEF d
<1>3. \A q \in Receivers : queue'[q] = queue[q] \/ (q = remote[c] /\ queue'[q] = Append(queue[q], d))
  BY <1>1, SentCases DEF d
<1> HIDE DEF packet, size
<1>4. /\ End' = End /\ {Server, Sink, HighToLow} \subseteq Receivers /\ Elsewhere \notin Receivers
      /\ End # HighToLow /\ setup.target \in {HighToLow, Sink}
      /\ setup.target = Sink => End = Sink
  BY <1>1, EndFacts DEF End
<1>5. EndHeld' = EndHeld /\ \A q \in Receivers : Held(q)' = Held(q)
  BY <1>1, <1>4 DEF EndHeld, Held
<1>6. remote[c] \in {setup.target, Elsewhere}
  BY DEF ForwardInv
<1>7. /\ Chain(served, EndHeld, EndQueue, Held(HighToLow), queue[HighToLow], sent')
      /\ Chain(served, EndHeld, EndQueue, Held(HighToLow), Append(queue[HighToLow], d), sent')
      /\ Held(HighToLow) = {} /\ queue[HighToLow] = <<>> =>
           Chain(served, EndHeld, Append(EndQueue, d), Held(HighToLow), queue[HighToLow], sent')
  <2>1. /\ EndQueue \in Seq(Datagrams) /\ queue[HighToLow] \in Seq(Datagrams)
        /\ sent \in [Clients -> Nat]
    BY <1>4, EndFacts
  <2>2. Chain(served, EndHeld, EndQueue, Held(HighToLow), queue[HighToLow], sent)
    BY DEF ForwardInv
  <2> QED
    BY <1>1, <1>2, <2>1, <2>2, ChainSend
<1>8. CASE \A q \in {Server, Sink, HighToLow} : queue'[q] = queue[q]
  <2>1. EndQueue' = EndQueue
    BY <1>4, <1>8, EndFacts DEF EndQueue
  <2> QED
    BY <1>1, <1>4, <1>5, <1>7, <1>8, <2>1 DEF ForwardInv
<1>9. CASE queue'[HighToLow] = Append(queue[HighToLow], d) /\ remote[c] = HighToLow
  <2>1. setup.target = HighToLow /\ setup.target # Sink
    BY <1>4, <1>6, <1>9, PortsDiffer DEF Pairs
  <2>2. \A q \in {Server, Sink} : queue'[q] = queue[q]
    BY <1>3, <1>4, <1>9, PortsDiffer DEF Pairs
  <2>3. EndQueue' = EndQueue
    BY <1>4, <2>2, EndFacts DEF EndQueue
  <2> QED
    BY <1>1, <1>4, <1>5, <1>7, <1>9, <2>1, <2>2, <2>3 DEF ForwardInv
<1>10. CASE queue'[Sink] = Append(queue[Sink], d) /\ remote[c] = Sink
  <2>1. setup.target = Sink /\ End = Sink
    BY <1>4, <1>6, <1>10
  <2>2. queue'[Server] = queue[Server] /\ queue'[HighToLow] = queue[HighToLow] /\ Server # Sink
    BY <1>3, <1>4, <1>10, PortsDiffer DEF Pairs
  <2>3. EndQueue' = Append(EndQueue, d)
    BY <1>4, <1>10, <2>1 DEF EndQueue
  <2>4. Held(HighToLow) = {} /\ queue[HighToLow] = <<>>
    <3>1. listening = 0 /\ queue[HighToLow] = <<>>
      BY <2>1 DEF ForwardInv
    <3>2. completed[HighToLow] = <<>>
      BY <1>4, <3>1, HeldFacts DEF Pairs
    <3> QED
      BY <3>1, <3>2 DEF Held
  <2> QED
    BY <1>1, <1>4, <1>5, <1>7, <1>10, <2>1, <2>2, <2>3, <2>4 DEF ForwardInv
<1>11. Server # remote[c]
  BY <1>4, <1>6, PortsDiffer DEF Pairs
<1> QED
  BY <1>3, <1>4, <1>8, <1>9, <1>10, <1>11

(* The other steps leave the way down alone.                               *)
LEMMA ForwardOther ==
  ASSUME TypeInv, OneReceive, ForwardInv,
         \/ SendUnsolicited \/ mStartListening \/ Run \/ mStop \/ Destroy
         \/ \E c \in Clients : HandleClient(c)
  PROVE  ForwardInv'
<1>1. /\ UNCHANGED <<setup, served, sent, remote>>
      /\ listening' = listening \/ setup.target = HighToLow
  BY DEF SendUnsolicited, mStartListening, Run, mStop, Destroy, HandleClient, Handled, Called, world,
     sockets, clients
<1>2. /\ {Server, Sink, HighToLow} \subseteq Receivers
      /\ {Server, Sink, HighToLow} \cap (Clients \cup {LowToHigh}) = {}
  BY EndFacts, PortsDiffer DEF Pairs
<1>3. ASSUME NEW q \in {Server, Sink, HighToLow} PROVE queue'[q] = queue[q]
  <2>1. \A packet : Sent(packet, Elsewhere, LowToHigh)[q] = queue[q]
    BY <1>2, SentToOther
  <2> QED
    BY <2>1 DEF SendUnsolicited, mStartListening, Run, mStop, Destroy, HandleClient, sockets
<1>4. ASSUME NEW q \in {Server, Sink, HighToLow} PROVE completed'[q] = completed[q]
  <2>1. ASSUME NEW c \in Clients, HandleClient(c) PROVE completed'[q] = completed[q]
    <3>1. Called(c) /\ c \in Receivers /\ c # q /\ q \in Receivers
      BY <1>2, <2>1 DEF HandleClient, Handled, Receivers
    <3> QED
      BY <3>1, HeldFacts
  <2> QED
    BY <2>1 DEF SendUnsolicited, mStartListening, Run, mStop, Destroy, sockets
<1>5. \A q \in {Server, Sink, HighToLow} : Held(q)' = Held(q)
  BY <1>1, <1>4 DEF Held
<1> QED
  BY <1>1, <1>3, <1>5, ForwardFrame

(* The constructors establish it.                                          *)
LEMMA ForwardInit == Init => ForwardInv
<1> SUFFICES ASSUME Init PROVE ForwardInv
  OBVIOUS
<1>1. TypeInv
  BY TypeInit
<1>2. {Server, Sink, HighToLow} \subseteq Receivers /\ setup.target \in {HighToLow, Sink}
  BY <1>1, EndFacts
<1>3. /\ \A r \in Receivers : queue[r] = <<>> /\ completed[r] = <<>>
      /\ served = <<>> /\ listening = 0
  BY DEF Init
<1>4. \A r \in Receivers : Held(r) = {}
  BY <1>3 DEF Held
<1>5. EndHeld = {} /\ EndQueue = <<>>
  BY <1>3, <1>4 DEF EndHeld, EndQueue
<1>6. Chain(<<>>, {}, <<>>, {}, <<>>, sent)
  BY DEF Chain, Data, Range, InOrder, Goes
<1>7. \A c \in Clients : remote[c] = setup.target
  BY DEF Init, InitialRemote, Receivers
<1> QED
  BY <1>2, <1>3, <1>4, <1>5, <1>6, <1>7 DEF ForwardInv

\* Every step keeps the chain in order.
LEMMA ForwardStep ==
  ASSUME TypeInv, TypeInv', OneReceive, RouteInv, RouteInv', ForwardInv, [Next]_vars
  PROVE  ForwardInv'
<1>1. ASSUME HandleServer PROVE ForwardInv'
  <2>1. /\ Called(Server) /\ served' = Append(served, Received(Server)) /\ sent' = sent
        /\ queue' = queue \/ \E packet : queue' = Sent(packet, Elsewhere, LowToHigh)
    BY <1>1, SendOnFacts DEF HandleServer, clients
  <2> QED
    BY <2>1, ForwardServe
<1>2. ASSUME HandleSink PROVE ForwardInv'
  <2>1. Called(Sink) /\ served' = Append(served, Received(Sink)) /\ sent' = sent /\ queue' = queue
    BY <1>2 DEF HandleSink, Handled, clients
  <2> QED
    BY <2>1, ForwardServe
<1>3. ASSUME UNCHANGED vars PROVE ForwardInv'
  <2>1. UNCHANGED <<setup, served, sent, queue, completed, listening, remote>>
    BY <1>3 DEF vars, sockets, clients, world
  <2>2. \A q \in {Server, Sink, HighToLow} : queue'[q] = queue[q] /\ Held(q)' = Held(q)
    BY <2>1 DEF Held
  <2> QED
    BY <2>1, <2>2, ForwardFrame
<1> QED
  BY <1>1, <1>2, <1>3, StepCases, ForwardReceive, ForwardError, ForwardPair, ForwardSend, ForwardOther,
     Zenon

-----------------------------------------------------------------------------
(* Empty packets come of failed receives.                                  *)

\* The places of a sequence where it holds a member of a set can be counted.
LEMMA PlacesFinite ==
  ASSUME NEW S, NEW q \in Seq(S), NEW T
  PROVE  IsFiniteSet(Places(q, T)) /\ Cardinality(Places(q, T)) \in Nat
<1>1. DOMAIN q = 1 .. Len(q) /\ Len(q) \in Nat
  OBVIOUS
<1>2. IsFiniteSet(1 .. Len(q))
  BY <1>1, FS_Interval
<1>3. Places(q, T) \in SUBSET (1 .. Len(q))
  BY <1>1 DEF Places
<1> QED
  BY <1>2, <1>3, FS_Subset, FS_CardinalityType

(* How many elements of a kind a sequence has, with one more appended.     *)
LEMMA CountAppend ==
  ASSUME NEW S, NEW q \in Seq(S), NEW e \in S, NEW T
  PROVE  Cardinality(Places(Append(q, e), T))
           = Cardinality(Places(q, T)) + (IF e \in T THEN 1 ELSE 0)
<1>1. /\ Len(q) \in Nat /\ DOMAIN q = 1 .. Len(q) /\ DOMAIN Append(q, e) = 1 .. Len(q) + 1
      /\ \A i \in 1 .. Len(q) : Append(q, e)[i] = q[i]
      /\ Append(q, e)[Len(q) + 1] = e
  OBVIOUS
<1> DEFINE t == Append(q, e)
           n == Len(q) + 1
<1>2. n \notin Places(q, T)
  BY <1>1 DEF Places
<1> HIDE DEF t
<1>3. \A i \in 1 .. n : i \in 1 .. Len(q) \/ i = n
  BY <1>1
<1>4. n \in 1 .. n /\ \A i \in 1 .. Len(q) : i \in 1 .. n
  BY <1>1
<1> HIDE DEF n
<1>5. DOMAIN t = 1 .. n /\ t[n] = e /\ \A i \in 1 .. Len(q) : t[i] = q[i]
  BY <1>1 DEF t, n
<1>6. Places(t, T) = IF e \in T THEN Places(q, T) \cup {n} ELSE Places(q, T)
  BY <1>1, <1>3, <1>4, <1>5 DEF Places
<1>7. IsFiniteSet(Places(q, T)) /\ Cardinality(Places(q, T)) \in Nat
  BY PlacesFinite
<1>8. Cardinality(Places(q, T) \cup {n}) = Cardinality(Places(q, T)) + 1
  BY <1>2, <1>7, FS_AddElement
<1> QED
  BY <1>6, <1>7, <1>8 DEF t

(* And with the first one taken.                                           *)
LEMMA CountTail ==
  ASSUME NEW S, NEW q \in Seq(S), q # <<>>, NEW T
  PROVE  Cardinality(Places(q, T))
           = Cardinality(Places(Tail(q), T)) + (IF Head(q) \in T THEN 1 ELSE 0)
<1>1. /\ Len(q) \in Nat \ {0} /\ DOMAIN q = 1 .. Len(q) /\ DOMAIN Tail(q) = 1 .. Len(q) - 1
      /\ \A i \in 1 .. Len(q) - 1 : Tail(q)[i] = q[i + 1]
      /\ Head(q) = q[1] /\ Tail(q) \in Seq(S)
  OBVIOUS
<1> DEFINE t == Tail(q)
           A == Places(t, T)
           B == Places(q, T) \ {1}
           shift == [i \in A |-> i + 1]
<1> HIDE DEF t
<1>2. IsFiniteSet(Places(q, T)) /\ Cardinality(Places(q, T)) \in Nat
      /\ IsFiniteSet(A) /\ Cardinality(A) \in Nat
  BY <1>1, PlacesFinite DEF t
<1>3. DOMAIN t = 1 .. Len(q) - 1 /\ \A i \in 1 .. Len(q) - 1 : t[i] = q[i + 1]
  BY <1>1 DEF t
<1>4. \A i \in A : i \in Int /\ i + 1 \in B
  BY <1>1, <1>3 DEF Places
<1>5. \A k \in B : k - 1 \in A /\ (k - 1) + 1 = k
  BY <1>1, <1>3 DEF Places
<1> HIDE DEF A, B
<1>6. shift \in Bijection(A, B)
  <2>1. shift \in [A -> B]
    BY <1>4
  <2>2. \A a, b \in A : shift[a] = shift[b] => a = b
    BY <1>4
  <2>3. \A k \in B : \E a \in A : shift[a] = k
    BY <1>5
  <2> QED
    BY <2>1, <2>2, <2>3 DEF Bijection, Injection, IsInjective, Surjection
<1>7. Cardinality(A) = Cardinality(B)
  BY <1>2, <1>6, FS_Bijection DEF ExistsBijection
<1>8. Cardinality(B) = IF 1 \in Places(q, T) THEN Cardinality(Places(q, T)) - 1
                                             ELSE Cardinality(Places(q, T))
  BY <1>2, FS_RemoveElement DEF B
<1>9. 1 \in Places(q, T) <=> Head(q) \in T
  BY <1>1 DEF Places
<1> QED
  BY <1>2, <1>7, <1>8, <1>9 DEF A, t

(* The counts are numbers, and an object holds at most one packet.         *)
LEMMA BlankTypes ==
  ASSUME TypeInv
  PROVE  /\ BlankServed \in Nat /\ errors \in Nat
         /\ \A r \in Receivers : BlankQueue(r) \in Nat /\ BlankHeld(r) \in 0 .. 1
<1>1. served \in Seq(PacketType) /\ \A r \in Receivers : queue[r] \in Seq(Datagrams)
  BY EndFacts
<1>2. errors \in Nat
  BY TypeParts, SetupParts DEF TypeInv, RestTypes
<1> QED
  BY <1>1, <1>2, PlacesFinite DEF BlankServed, BlankQueue, BlankHeld

\* The counts of empty packets are numbers in the next state too.
LEMMA BlankTypesNext ==
  ASSUME TypeInv'
  PROVE  \A r \in Receivers : BlankQueue(r)' \in Nat /\ BlankHeld(r)' \in 0 .. 1
<1>1. \A r \in Receivers : queue'[r] \in Seq(Datagrams)
  BY DEF TypeInv, TypeOK, Datagrams, Senders
<1> QED
  BY <1>1, PlacesFinite DEF BlankQueue, BlankHeld

(* Objects whose queue and operations a step leaves alone.                 *)
LEMMA BlankSame ==
  ASSUME NEW r, queue'[r] = queue[r]
  PROVE  /\ BlankQueue(r)' = BlankQueue(r)
         /\ completed'[r] = completed[r] => BlankHeld(r)' = BlankHeld(r)
BY DEF BlankQueue, BlankHeld

\* What an object and its socket have of them.
BlankAt(r) == BlankQueue(r) + BlankHeld(r)

\* An object holds one empty packet between receive and handler, or none.
LEMMA BlankSum ==
  /\ \A r : BlankHeld(r) = IF Empty \in Held(r) THEN 1 ELSE 0
  /\ \A r : BlankHeld(r)' = IF Empty \in Held(r)' THEN 1 ELSE 0
BY DEF BlankHeld, Held

(* It is enough to compare an object's count before and after a step.      *)
LEMMA BlankBalance ==
  ASSUME TypeInv, TypeInv', BlankInv, NEW given \in Nat, NEW failed \in Nat,
         BlankServed' = BlankServed + given, errors' = errors + failed,
         given + BlankAt(Server)' + BlankAt(Sink)' + BlankAt(HighToLow)'
           <= failed + BlankAt(Server) + BlankAt(Sink) + BlankAt(HighToLow)
  PROVE  BlankInv'
<1>1. {Server, Sink, HighToLow} \subseteq Receivers
  BY EndFacts
<1>2. /\ BlankServed \in Nat /\ errors \in Nat
      /\ \A r \in {Server, Sink, HighToLow} : BlankQueue(r) \in Nat /\ BlankHeld(r) \in Nat
  BY <1>1, BlankTypes
<1>3. \A r \in {Server, Sink, HighToLow} : BlankQueue(r)' \in Nat /\ BlankHeld(r)' \in Nat
  BY <1>1, BlankTypesNext
<1> QED
  BY <1>2, <1>3 DEF BlankInv, BlankAt

(* A receive moves an empty packet at most, a failed one makes one.        *)
LEMMA BlankReceive ==
  ASSUME TypeInv, TypeInv', OneReceive, BlankInv, NEW r \in Receivers,
         ReceiveFrom(r) \/ ReceiveError(r)
  PROVE  BlankInv'
<1> DEFINE failed == IF ReceiveError(r) THEN 1 ELSE 0
<1>1. /\ served' = served /\ listening' = listening
      /\ (ReceiveFrom(r) /\ ~ReceiveError(r)) \/ ReceiveError(r)
  BY DEF ReceiveFrom, ReceiveError, Complete, world
<1>2. /\ queue \in [Receivers -> Seq(Datagrams)]
      /\ {Server, Sink, HighToLow} \subseteq Receivers
      /\ Server # Sink /\ HighToLow \notin {Server, Sink}
  BY TypeParts, EndFacts, PortsDiffer DEF TypeInv, QueueTypes, Pairs
<1>3. PICK packet \in PacketType :
        /\ Complete(r, packet)
        /\ ReceiveError(r) => packet = Empty
        /\ ~ReceiveError(r) => packet = Head(queue[r]).data
  <2>1. CASE ReceiveError(r)
    BY <2>1, EmptyIsPacket DEF ReceiveError
  <2>2. CASE ReceiveFrom(r) /\ ~ReceiveError(r)
    <3>1. Head(queue[r]) \in Datagrams
      BY <1>2, <2>2, TailFacts DEF ReceiveFrom
    <3>2. Head(queue[r]).data \in PacketType
      BY <3>1 DEF Datagrams
    <3> QED
      BY <2>2, <3>2 DEF ReceiveFrom
  <2> QED
    BY <1>1, <2>1, <2>2
<1>4. errors' = errors + failed
  <2>1. errors \in Nat
    BY BlankTypes
  <2> QED
    BY <1>1, <2>1 DEF ReceiveFrom, ReceiveError, world
<1>5. ASSUME NEW q \in Receivers, q # r PROVE BlankAt(q)' = BlankAt(q)
  <2>1. queue'[q] = queue[q]
    BY <1>1, <1>2, <1>5 DEF ReceiveFrom, ReceiveError
  <2>2. completed'[q] = completed[q]
    BY <1>1, <1>3, <1>5, HeldFacts
  <2> QED
    BY <2>1, <2>2, BlankSame DEF BlankAt
<1>6. BlankAt(r)' = BlankAt(r) + failed
  <2>1. /\ BlankHeld(r) = 0 /\ BlankHeld(r)' = (IF packet = Empty THEN 1 ELSE 0)
        /\ BlankQueue(r) \in Nat /\ BlankQueue(r)' \in Nat
    <3>1. Held(r) = {} /\ Held(r)' = {packet}
      BY <1>1, <1>3, HeldFacts
    <3> QED
      BY <3>1, BlankSum, BlankTypes, BlankTypesNext
  <2>2. CASE ReceiveFrom(r) /\ ~ReceiveError(r)
    <3>1. queue[r] # <<>> /\ queue'[r] = Tail(queue[r]) /\ packet = Head(queue[r]).data
      BY <1>2, <1>3, <2>2 DEF ReceiveFrom
    <3>2. Head(queue[r]) \in Blanks <=> packet = Empty
      BY <1>2, <3>1, TailFacts DEF Blanks
    <3>3. BlankQueue(r) = BlankQueue(r)' + (IF Head(queue[r]) \in Blanks THEN 1 ELSE 0)
      BY <1>2, <3>1, CountTail DEF BlankQueue
    <3> QED
      BY <2>1, <2>2, <3>2, <3>3 DEF BlankAt
  <2>3. CASE ReceiveError(r)
    <3>1. queue'[r] = queue[r] /\ packet = Empty
      BY <1>3, <2>3 DEF ReceiveError
    <3>2. BlankQueue(r)' = BlankQueue(r)
      BY <3>1, BlankSame
    <3> QED
      BY <2>1, <2>3, <3>1, <3>2 DEF BlankAt
  <2> QED
    BY <1>1, <2>2, <2>3
<1>7. ASSUME NEW q \in {Server, Sink, HighToLow} PROVE BlankAt(q) \in Nat /\ BlankAt(q)' \in Nat
  <2>1. q \in Receivers
    BY <1>2
  <2>2. BlankQueue(q) \in Nat /\ BlankHeld(q) \in Nat
    BY <2>1, BlankTypes
  <2>3. BlankQueue(q)' \in Nat /\ BlankHeld(q)' \in Nat
    BY <2>1, BlankTypesNext
  <2> QED
    BY <2>2, <2>3 DEF BlankAt
<1>8. failed \in Nat /\ failed >= 0
  OBVIOUS
<1> HIDE DEF failed
<1>9. BlankAt(Server)' + BlankAt(Sink)' + BlankAt(HighToLow)'
        <= failed + BlankAt(Server) + BlankAt(Sink) + BlankAt(HighToLow)
  <2>1. CASE r = Server
    BY <1>2, <1>5, <1>6, <1>7, <1>8, <2>1
  <2>2. CASE r = Sink
    BY <1>2, <1>5, <1>6, <1>7, <1>8, <2>2
  <2>3. CASE r = HighToLow
    BY <1>2, <1>5, <1>6, <1>7, <1>8, <2>3
  <2>4. CASE r \notin {Server, Sink, HighToLow}
    BY <1>2, <1>5, <1>7, <1>8, <2>4
  <2> QED
    BY <2>1, <2>2, <2>3, <2>4
<1>10. BlankServed' = BlankServed + 0 /\ 0 \in Nat
  BY <1>1, BlankTypes DEF BlankServed
<1>11. 0 + BlankAt(Server)' + BlankAt(Sink)' + BlankAt(HighToLow)'
        <= failed + BlankAt(Server) + BlankAt(Sink) + BlankAt(HighToLow)
  BY <1>7, <1>9
<1> QED
  BY <1>4, <1>8, <1>10, <1>11, BlankBalance

(* The upper pair sends an empty packet on, or drops it.                   *)
LEMMA BlankPair ==
  ASSUME TypeInv, TypeInv', OneReceive, RouteInv, RouteInv', BlankInv, NEW p \in Pairs, HandlePair(p)
  PROVE  BlankInv'
<1>1. /\ UNCHANGED <<setup, served, errors>>
      /\ Called(p) /\ p \in Receivers
      /\ queue' = queue \/ queue' = Sent(Received(p), Elsewhere, m_PortToSendTo'[p])
  <2>1. opened' \in [Pairs -> Nat]
    BY DEF TypeInv, TypeOK
  <2> QED
    BY <2>1, PairEnds DEF HandlePair, Called, world, Receivers
<1>2. /\ {Server, Sink, HighToLow} \subseteq Receivers
      /\ Server # Sink /\ HighToLow \notin {Server, Sink} /\ p \notin {Server, Sink}
      /\ \A q \in Receivers : queue[q] \in Seq(Datagrams)
  BY EndFacts, PortsDiffer DEF Pairs
<1>3. /\ BlankHeld(p) = (IF Received(p) = Empty THEN 1 ELSE 0) /\ BlankHeld(p)' = 0
      /\ \A q \in Receivers : q # p => BlankHeld(q)' = BlankHeld(q)
  <2>1. Held(p) = {Received(p)} /\ Held(p)' = {} /\ \A q \in Receivers : q # p => Held(q)' = Held(q)
    BY <1>1, HeldFacts DEF Held
  <2> QED
    BY <2>1, BlankSum
<1> DEFINE d == [data |-> Received(p), sender |-> Elsewhere]
<1>4. d \in Datagrams /\ (d \in Blanks <=> Received(p) = Empty)
  <2>1. Received(p) \in PacketType
    BY <1>1, HeldFacts
  <2> QED
    BY <2>1 DEF Datagrams, Senders, Blanks
<1> HIDE DEF d
<1>5. \A q \in Receivers :
        queue'[q] = queue[q] \/ (q = m_PortToSendTo'[p] /\ queue'[q] = Append(queue[q], d))
  BY <1>1, SentCases DEF d
<1>6. \A q \in Receivers :
        \/ BlankQueue(q)' = BlankQueue(q)
        \/ q = m_PortToSendTo'[p] /\ BlankQueue(q)' = BlankQueue(q) + BlankHeld(p)
  <2> SUFFICES ASSUME NEW q \in Receivers, q = m_PortToSendTo'[p], queue'[q] = Append(queue[q], d)
               PROVE  BlankQueue(q)' = BlankQueue(q) + BlankHeld(p)
    BY <1>5, BlankSame
  <2> QED
    BY <1>2, <1>3, <1>4, CountAppend DEF BlankQueue
<1>7. m_PortToSendTo'[p] # HighToLow /\ (p = LowToHigh => m_PortToSendTo'[p] \notin {Server, Sink})
  <2>1. CASE p = HighToLow
    <3>1. m_PortToSendTo'[p] = setup.down /\ setup.down \in {Server, Sink, Elsewhere, Port0}
      BY <1>1, <2>1, TypeParts, SetupParts DEF RouteInv, PortInv, TypeInv
    <3> QED
      BY <2>1, <3>1, PortsDiffer, EndFacts DEF Pairs
  <2>2. CASE p = LowToHigh
    <3>1. m_DownwardTrafficSeen'
      BY DEF HandlePair, mProcessPacket, SetsUpwardPort
    <3>2. m_PortToSendTo'[LowToHigh] \in Clients \cup {Port0}
      BY <3>1 DEF RouteInv, CallerInv, SinceTraffic
    <3> QED
      BY <2>2, <3>2, PortsDiffer, PortsUnused DEF Receivers, Pairs
  <2> QED
    BY <2>1, <2>2 DEF Pairs
<1>8. /\ \A q \in {Server, Sink, HighToLow} :
           /\ BlankQueue(q) \in Nat /\ BlankQueue(q)' \in Nat
           /\ BlankHeld(q) \in Nat /\ BlankHeld(q)' \in Nat
      /\ BlankHeld(p) \in Nat
  BY <1>1, <1>2, BlankTypes, BlankTypesNext
<1>9. 0 + BlankAt(Server)' + BlankAt(Sink)' + BlankAt(HighToLow)'
        <= 0 + BlankAt(Server) + BlankAt(Sink) + BlankAt(HighToLow)
  <2>1. /\ BlankHeld(Server)' = BlankHeld(Server) /\ BlankHeld(Sink)' = BlankHeld(Sink)
        /\ BlankQueue(HighToLow)' = BlankQueue(HighToLow)
    BY <1>2, <1>3, <1>6, <1>7
  <2>2. CASE p = HighToLow
    <3>1. BlankHeld(HighToLow)' = 0
      BY <1>3, <2>2
    <3>2. \/ BlankQueue(Server)' = BlankQueue(Server) /\ BlankQueue(Sink)' = BlankQueue(Sink)
          \/ /\ BlankQueue(Server)' = BlankQueue(Server) + BlankHeld(HighToLow)
             /\ BlankQueue(Sink)' = BlankQueue(Sink)
          \/ /\ BlankQueue(Server)' = BlankQueue(Server)
             /\ BlankQueue(Sink)' = BlankQueue(Sink) + BlankHeld(HighToLow)
      BY <1>2, <1>6, <2>2
    <3> QED
      BY <1>8, <2>1, <3>1, <3>2 DEF BlankAt
  <2>3. CASE p = LowToHigh
    <3>1. HighToLow # p
      BY <2>3, PortsDiffer
    <3>2. /\ BlankHeld(HighToLow)' = BlankHeld(HighToLow)
          /\ BlankQueue(Server)' = BlankQueue(Server) /\ BlankQueue(Sink)' = BlankQueue(Sink)
      BY <1>2, <1>3, <1>6, <1>7, <2>3, <3>1
    <3> QED
      BY <1>8, <2>1, <3>2 DEF BlankAt
  <2> QED
    BY <2>2, <2>3 DEF Pairs
<1>10. BlankServed' = BlankServed + 0 /\ errors' = errors + 0 /\ 0 \in Nat
  BY <1>1, BlankTypes DEF BlankServed
<1> QED
  BY <1>9, <1>10, BlankBalance

(* The server or the sink is given the packet it holds.                    *)
LEMMA BlankServe ==
  ASSUME TypeInv, TypeInv', OneReceive, BlankInv, NEW r \in {Server, Sink},
         HandleServer \/ HandleSink, Called(r), served' = Append(served, Received(r))
  PROVE  BlankInv'
<1>1. errors' = errors
  BY DEF Called, world
<1>2. /\ {Server, Sink, HighToLow} \subseteq Receivers /\ r \in Receivers
      /\ Server # Sink /\ HighToLow \notin {Server, Sink}
      /\ LowToHigh \notin {Server, Sink, HighToLow}
      /\ served \in Seq(PacketType) /\ Received(r) \in PacketType
  BY EndFacts, PortsDiffer, HeldFacts DEF Pairs
<1>3. /\ BlankHeld(r) = (IF Received(r) = Empty THEN 1 ELSE 0) /\ BlankHeld(r)' = 0
      /\ \A q \in Receivers : q # r => BlankHeld(q)' = BlankHeld(q)
  <2>1. Held(r) = {Received(r)} /\ Held(r)' = {} /\ \A q \in Receivers : q # r => Held(q)' = Held(q)
    BY <1>1, <1>2, HeldFacts DEF Held
  <2> QED
    BY <2>1, BlankSum
<1>4. ASSUME NEW q \in {Server, Sink, HighToLow} PROVE BlankQueue(q)' = BlankQueue(q)
  <2>1. \A packet : Sent(packet, Elsewhere, LowToHigh)[q] = queue[q]
    <3>1. q \in Receivers /\ q # LowToHigh
      BY <1>2
    <3> QED
      BY <3>1, SentToOther
  <2>2. queue'[q] = queue[q]
    BY <2>1, SendOnFacts DEF HandleServer, HandleSink
  <2> QED
    BY <2>2, BlankSame
<1>5. BlankServed' = BlankServed + BlankHeld(r)
  BY <1>2, <1>3, CountAppend DEF BlankServed
<1>6. /\ \A q \in {Server, Sink, HighToLow} : BlankQueue(q) \in Nat /\ BlankHeld(q) \in Nat
      /\ BlankHeld(r) \in Nat
  BY <1>2, BlankTypes
<1>7. BlankHeld(r) + BlankAt(Server)' + BlankAt(Sink)' + BlankAt(HighToLow)'
        <= 0 + BlankAt(Server) + BlankAt(Sink) + BlankAt(HighToLow)
  <2>1. /\ BlankQueue(Server)' = BlankQueue(Server) /\ BlankQueue(Sink)' = BlankQueue(Sink)
        /\ BlankQueue(HighToLow)' = BlankQueue(HighToLow)
        /\ BlankHeld(HighToLow)' = BlankHeld(HighToLow)
    BY <1>2, <1>3, <1>4
  <2>2. CASE r = Server
    <3>1. BlankHeld(Server)' = 0 /\ BlankHeld(Sink)' = BlankHeld(Sink)
      BY <1>2, <1>3, <2>2
    <3> QED
      BY <1>6, <2>1, <2>2, <3>1 DEF BlankAt
  <2>3. CASE r = Sink
    <3>1. BlankHeld(Sink)' = 0 /\ BlankHeld(Server)' = BlankHeld(Server)
      BY <1>2, <1>3, <2>3
    <3> QED
      BY <1>6, <2>1, <2>3, <3>1 DEF BlankAt
  <2> QED
    BY <2>2, <2>3
<1>8. errors' = errors + 0 /\ 0 \in Nat
  BY <1>1, BlankTypes
<1> QED
  BY <1>5, <1>6, <1>7, <1>8, BlankBalance

(* Where neither what is given nor the failures change.                    *)
LEMMA BlankFrame ==
  ASSUME TypeInv, TypeInv', BlankInv, served' = served, errors' = errors,
         \A q \in {Server, Sink, HighToLow} :
           BlankQueue(q)' = BlankQueue(q) /\ BlankHeld(q)' = BlankHeld(q)
  PROVE  BlankInv'
<1>1. BlankServed' = BlankServed
  BY DEF BlankServed
<1>2. /\ BlankQueue(Server)' = BlankQueue(Server) /\ BlankQueue(Sink)' = BlankQueue(Sink)
      /\ BlankQueue(HighToLow)' = BlankQueue(HighToLow)
      /\ BlankHeld(Server)' = BlankHeld(Server) /\ BlankHeld(Sink)' = BlankHeld(Sink)
      /\ BlankHeld(HighToLow)' = BlankHeld(HighToLow)
  OBVIOUS
<1> QED
  BY <1>1, <1>2 DEF BlankInv

(* What a client sends is not empty.                                       *)
LEMMA BlankSend ==
  ASSUME TypeInv, TypeInv', BlankInv, NEW c \in Clients, mSend(c)
  PROVE  BlankInv'
<1> DEFINE size == setup.frames[sent[c] + 1]
           packet == Packet(c, sent[c] + 1, size)
           d == [data |-> packet, sender |-> c]
<1>1. /\ UNCHANGED <<served, errors, completed>>
      /\ queue' = Sent(packet, c, remote[c])
  BY DEF mSend, world
<1>2. d \in Datagrams /\ d \notin Blanks
  <2>1. sent[c] \in Nat /\ size \in Nat
    <3>1. sent \in [Clients -> Nat] /\ setup.frames \in Seq(Nat) /\ sent[c] < Len(setup.frames)
      BY TypeParts, SetupParts DEF TypeInv, RestTypes, mSend
    <3> QED
      BY <3>1
  <2>2. packet \in PacketType /\ packet.from = c
    BY <2>1 DEF Packet, PacketType
  <2>3. packet # Empty
    BY <2>2, EmptyFacts
  <2> QED
    BY <2>2, <2>3 DEF Datagrams, Senders, Blanks
<1> HIDE DEF d
<1>3. \A q \in Receivers : queue'[q] = queue[q] \/ queue'[q] = Append(queue[q], d)
  BY <1>1, SentCases DEF d
<1>4. {Server, Sink, HighToLow} \subseteq Receivers
  BY EndFacts
<1>5. ASSUME NEW q \in {Server, Sink, HighToLow}
      PROVE  BlankQueue(q)' = BlankQueue(q) /\ BlankHeld(q)' = BlankHeld(q)
  <2>1. CASE queue'[q] = queue[q]
    BY <1>1, <2>1, BlankSame DEF BlankHeld
  <2>2. CASE queue'[q] = Append(queue[q], d)
    <3>1. queue[q] \in Seq(Datagrams) /\ BlankQueue(q) \in Nat
      BY <1>4, EndFacts, BlankTypes
    <3>2. BlankQueue(q)' = BlankQueue(q) + 0
      BY <1>2, <2>2, <3>1, CountAppend DEF BlankQueue
    <3> QED
      BY <1>1, <3>1, <3>2 DEF BlankHeld
  <2> QED
    BY <1>3, <1>4, <2>1, <2>2
<1> QED
  BY <1>1, <1>5, BlankFrame

(* The other steps leave the way down alone.                               *)
LEMMA BlankOther ==
  ASSUME TypeInv, TypeInv', OneReceive, BlankInv,
         \/ SendUnsolicited \/ mStartListening \/ Run \/ mStop \/ Destroy
         \/ \E c \in Clients : HandleClient(c)
  PROVE  BlankInv'
<1>1. UNCHANGED <<served, errors>>
  BY DEF SendUnsolicited, mStartListening, Run, mStop, Destroy, HandleClient, Handled, Called, world
<1>2. /\ {Server, Sink, HighToLow} \subseteq Receivers
      /\ {Server, Sink, HighToLow} \cap (Clients \cup {LowToHigh}) = {}
  BY EndFacts, PortsDiffer DEF Pairs
<1>3. ASSUME NEW q \in {Server, Sink, HighToLow} PROVE queue'[q] = queue[q]
  <2>1. \A packet : Sent(packet, Elsewhere, LowToHigh)[q] = queue[q]
    BY <1>2, SentToOther
  <2> QED
    BY <2>1 DEF SendUnsolicited, mStartListening, Run, mStop, Destroy, HandleClient, sockets
<1>4. ASSUME NEW q \in {Server, Sink, HighToLow} PROVE completed'[q] = completed[q]
  <2>1. ASSUME NEW c \in Clients, HandleClient(c) PROVE completed'[q] = completed[q]
    <3>1. Called(c) /\ c \in Receivers /\ c # q /\ q \in Receivers
      BY <1>2, <2>1 DEF HandleClient, Handled, Receivers
    <3> QED
      BY <3>1, HeldFacts
  <2> QED
    BY <2>1 DEF SendUnsolicited, mStartListening, Run, mStop, Destroy, sockets
<1>5. \A q \in {Server, Sink, HighToLow} :
        BlankQueue(q)' = BlankQueue(q) /\ BlankHeld(q)' = BlankHeld(q)
  BY <1>1, <1>3, <1>4, BlankSame
<1> QED
  BY <1>1, <1>5, BlankFrame

\* Nothing is empty before the first receive.
LEMMA BlankInit == Init => BlankInv
<1> SUFFICES ASSUME Init PROVE BlankInv
  OBVIOUS
<1>1. TypeInv /\ {Server, Sink, HighToLow} \subseteq Receivers
  BY TypeInit, EndFacts
<1>2. /\ \A r \in Receivers : queue[r] = <<>> /\ completed[r] = <<>>
      /\ served = <<>> /\ errors = 0
  BY DEF Init
<1>3. \A T : Cardinality(Places(<<>>, T)) = 0
  <2>1. \A T : Places(<<>>, T) = {}
    BY DEF Places
  <2> QED
    BY <2>1, FS_EmptySet
<1>4. BlankServed = 0 /\ \A r \in Receivers : BlankQueue(r) = 0 /\ BlankHeld(r) = 0
  BY <1>2, <1>3 DEF BlankServed, BlankQueue, BlankHeld
<1>5. /\ BlankQueue(Server) = 0 /\ BlankQueue(Sink) = 0 /\ BlankQueue(HighToLow) = 0
      /\ BlankHeld(Server) = 0 /\ BlankHeld(Sink) = 0 /\ BlankHeld(HighToLow) = 0
  BY <1>1, <1>4
<1> QED
  BY <1>2, <1>4, <1>5 DEF BlankInv

\* Every step keeps the number of empty packets within that of failed receives.
LEMMA BlankStep ==
  ASSUME TypeInv, TypeInv', OneReceive, RouteInv, RouteInv', BlankInv, [Next]_vars
  PROVE  BlankInv'
<1>1. ASSUME HandleServer PROVE BlankInv'
  <2>1. Called(Server) /\ served' = Append(served, Received(Server))
    BY <1>1 DEF HandleServer
  <2> QED
    BY <1>1, <2>1, BlankServe
<1>2. ASSUME HandleSink PROVE BlankInv'
  <2>1. Called(Sink) /\ served' = Append(served, Received(Sink))
    BY <1>2 DEF HandleSink, Handled
  <2> QED
    BY <1>2, <2>1, BlankServe
<1>3. ASSUME UNCHANGED vars PROVE BlankInv'
  <2>1. UNCHANGED <<served, errors, queue, completed>>
    BY <1>3 DEF vars, sockets, world
  <2>2. \A q : BlankQueue(q)' = BlankQueue(q) /\ BlankHeld(q)' = BlankHeld(q)
    BY <2>1 DEF BlankQueue, BlankHeld
  <2> QED
    BY <2>1, <2>2, BlankFrame
<1> QED
  BY <1>1, <1>2, <1>3, StepCases, BlankReceive, BlankPair, BlankSend, BlankOther, Zenon

-----------------------------------------------------------------------------
(* All of it, as long as mStartListening has been called only once.        *)
OnceInv == listening <= 1 => OneReceive /\ ForwardInv /\ BlankInv

(* Every step keeps it, for the calls of mStartListening only grow.        *)
LEMMA OnceStep ==
  TypeInv /\ TypeInv' /\ RouteInv /\ RouteInv' /\ OnceInv /\ [Next]_vars => OnceInv'
<1> SUFFICES ASSUME TypeInv, TypeInv', RouteInv, RouteInv', OnceInv, [Next]_vars, listening' <= 1
             PROVE  OneReceive' /\ ForwardInv' /\ BlankInv'
  BY DEF OnceInv
<1>1. listening <= 1 /\ OneReceive'
  BY OneReceiveStep DEF OnceInv
<1>2. OneReceive /\ ForwardInv /\ BlankInv
  BY <1>1 DEF OnceInv
<1> QED
  BY <1>1, <1>2, ForwardStep, BlankStep

(* After one call of mStartListening, what the server or the sink is given *)
(* are packets of the clients, each client's in the order it sent them,    *)
(* none twice and none altered; and what else it is given are no more      *)
(* empty packets than receives failed.                                     *)
THEOREM ForwardedInOrder == Spec => []ForwardsInOrder
<1>1. TypeInv /\ OnceInv => ForwardsInOrder
  <2> SUFFICES ASSUME TypeInv, ForwardInv, BlankInv
               PROVE  /\ \A i, j \in DOMAIN served :
                           served[i] # Empty =>
                             /\ served[i].from \in Clients /\ ~served[i].reply
                             /\ served[i].n \in 1 .. sent[served[i].from]
                             /\ i < j /\ served[i].from = served[j].from => served[i].n < served[j].n
                      /\ Cardinality({i \in DOMAIN served : served[i] = Empty}) <= errors
    BY DEF ForwardsInOrder, OnceInv
  <2>1. /\ \A p \in Range(served) : Sound(p, sent)
        /\ \A i, j \in DOMAIN served : i < j => Before(served[i], served[j])
    BY DEF ForwardInv, Chain
  <2>2. ASSUME NEW i \in DOMAIN served, NEW j \in DOMAIN served, served[i] # Empty
        PROVE  /\ served[i].from \in Clients /\ ~served[i].reply
               /\ served[i].n \in 1 .. sent[served[i].from]
               /\ i < j /\ served[i].from = served[j].from => served[i].n < served[j].n
    <3>1. Sound(served[i], sent)
      BY <2>1 DEF Range
    <3>2. /\ served[i].from \in Clients /\ ~served[i].reply
          /\ served[i].n \in 1 .. sent[served[i].from]
      BY <2>2, <3>1 DEF Sound
    <3> QED
      BY <2>1, <3>2 DEF Before
  <2>3. BlankServed <= errors
    <3>1. {Server, Sink, HighToLow} \subseteq Receivers
      BY EndFacts
    <3>2. /\ BlankServed \in Nat /\ errors \in Nat
          /\ \A q \in {Server, Sink, HighToLow} : BlankQueue(q) \in Nat /\ BlankHeld(q) \in Nat
      BY <3>1, BlankTypes
    <3> QED
      BY <3>2 DEF BlankInv
  <2>4. Places(served, {Empty}) = {i \in DOMAIN served : served[i] = Empty}
    BY DEF Places
  <2> QED
    BY <2>2, <2>3, <2>4 DEF BlankServed
<1>2. Init => TypeInv /\ RouteInv /\ OnceInv
  <2>1. Init => OneReceive
    BY DEF Init, OneReceive
  <2> QED
    BY <2>1, TypeInit, RouteInit, ForwardInit, BlankInit DEF OnceInv
<1>3. TypeInv /\ RouteInv /\ OnceInv /\ [Next]_vars => (TypeInv /\ RouteInv /\ OnceInv)'
  BY TypeStep, RouteStep, OnceStep
<1> QED
  BY <1>1, <1>2, <1>3, PTL DEF Spec

=============================================================================

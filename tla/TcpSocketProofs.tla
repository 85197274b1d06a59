--------------------------- MODULE TcpSocketProofs ---------------------------
(***************************************************************************)
(* Proofs about TcpSocket for any number of packets and any capacity of    *)
(* the receive buffer, for connecting and for accepted sockets: its        *)
(* invariants, and that it implements Connection.                          *)
(***************************************************************************)
EXTENDS TcpSocket, SequenceTheorems, TLAPS

-----------------------------------------------------------------------------
(* Queues.                                                                 *)

\* A functor queued last is queued besides the others.
LEMMA Appended ==
  ASSUME NEW S, NEW q \in Seq(S), NEW f \in S
  PROVE  /\ Append(q, f) \in Seq(S)
         /\ Queued(Append(q, f)) = Queued(q) \cup {f}
<1>1. /\ Append(q, f) \in Seq(S) /\ Len(Append(q, f)) = Len(q) + 1
      /\ DOMAIN q = 1..Len(q) /\ DOMAIN Append(q, f) = 1..(Len(q) + 1)
      /\ Len(q) \in Nat
  OBVIOUS
<1>2. /\ \A i \in 1..Len(q) : Append(q, f)[i] = q[i]
      /\ Append(q, f)[Len(q) + 1] = f
  OBVIOUS
<1>3. 1..(Len(q) + 1) = 1..Len(q) \cup {Len(q) + 1}
  BY <1>1
<1> HIDE DEF Queued
<1>4. Queued(Append(q, f)) = {Append(q, f)[i] : i \in 1..Len(q)} \cup {f}
  BY <1>1, <1>2, <1>3 DEF Queued
<1>5. {Append(q, f)[i] : i \in 1..Len(q)} = Queued(q)
  BY <1>1, <1>2 DEF Queued
<1> QED
  BY <1>1, <1>4, <1>5

\* Taking the first functor leaves the others, one place further ahead.
LEMMA Taken ==
  ASSUME NEW S, NEW q \in Seq(S), q # <<>>
  PROVE  /\ Head(q) \in S /\ Head(q) = q[1] /\ 1 \in DOMAIN q
         /\ Tail(q) \in Seq(S) /\ Len(Tail(q)) = Len(q) - 1
         /\ Len(q) \in Nat /\ DOMAIN Tail(q) = 1..Len(Tail(q))
         /\ \A i \in DOMAIN Tail(q) : i + 1 \in DOMAIN q /\ Tail(q)[i] = q[i + 1]
         /\ Queued(q) = {Head(q)} \cup Queued(Tail(q))
<1>1. /\ Len(q) \in Nat /\ Len(q) > 0 /\ DOMAIN q = 1..Len(q)
      /\ Head(q) = q[1] /\ Head(q) \in S
      /\ Tail(q) \in Seq(S) /\ Len(Tail(q)) = Len(q) - 1
      /\ DOMAIN Tail(q) = 1..(Len(q) - 1)
      /\ \A i \in 1..(Len(q) - 1) : Tail(q)[i] = q[i + 1]
  OBVIOUS
<1>2. Queued(q) \subseteq {Head(q)} \cup Queued(Tail(q))
  <2> SUFFICES ASSUME NEW i \in 1..Len(q), i # 1
               PROVE  q[i] \in Queued(Tail(q))
    BY <1>1 DEF Queued
  <2>1. i - 1 \in 1..(Len(q) - 1) /\ Tail(q)[i - 1] = q[i]
    BY <1>1
  <2> QED
    BY <1>1, <2>1 DEF Queued
<1>3. Queued(Tail(q)) \subseteq Queued(q)
  <2> SUFFICES ASSUME NEW i \in 1..(Len(q) - 1)
               PROVE  q[i + 1] \in Queued(q)
    BY <1>1 DEF Queued
  <2>1. i + 1 \in DOMAIN q
    BY <1>1
  <2> QED
    BY <2>1 DEF Queued
<1>4. Head(q) \in Queued(q)
  BY <1>1 DEF Queued
<1>5. \A i \in DOMAIN Tail(q) : i + 1 \in DOMAIN q
  BY <1>1
<1> QED
  BY <1>1, <1>2, <1>3, <1>4, <1>5

-----------------------------------------------------------------------------
(* Types.                                                                  *)

\* A report leaves the worker's queue a queue, and queues no destruction.
LEMMA TellType ==
  ASSUME TypeOK, NEW r \in Report, Tell(r)
  PROVE  /\ work' \in Seq(WorkFunctor)
         /\ "destroy" \in Queued(work') => "destroy" \in Queued(work)
<1>1. r \in WorkFunctor /\ r # "destroy" /\ work \in Seq(WorkFunctor)
  BY DEF Report, WorkFunctor, TypeOK
<1>2. /\ Append(work, r) \in Seq(WorkFunctor)
      /\ Queued(Append(work, r)) = Queued(work) \cup {r}
  BY <1>1, Appended
<1> QED
  BY <1>1, <1>2 DEF Tell

\* So does every other step of the network loop that queues work.
LEMMA ProcessType ==
  ASSUME TypeOK, work' = Append(work, "process")
  PROVE  /\ work' \in Seq(WorkFunctor)
         /\ "destroy" \in Queued(work') => "destroy" \in Queued(work)
<1>1. "process" \in WorkFunctor /\ work \in Seq(WorkFunctor)
  BY DEF WorkFunctor, Holding, TypeOK
<1> QED
  BY <1>1, Appended

\* The worker takes its functors in order.
LEMMA TakeWorkType ==
  ASSUME TypeOK, NEW f, TakeWork(f)
  PROVE  /\ work' \in Seq(WorkFunctor)
         /\ f \in Queued(work)
         /\ Queued(work') \subseteq Queued(work)
  BY Taken DEF TypeOK, TakeWork

\* The network loop takes its functors in order.
LEMMA TakeNetworkType ==
  ASSUME TypeOK, NEW f, TakeNetwork(f)
  PROVE  network' \in Seq(NetworkFunctor)
  BY Taken DEF TypeOK, TakeNetwork

LEMMA TypeInit == Init => TypeOK
<1> SUFFICES ASSUME Init PROVE TypeOK
  OBVIOUS
<1>1. listening \in BOOLEAN /\ held \in BOOLEAN /\ garbled \in BOOLEAN
  BY Zenon DEF Init
<1>2. network \in Seq(NetworkFunctor) /\ work \in Seq(WorkFunctor)
  BY DEF Init
<1> QED
  <2>1. /\ outgoing \in 0..(MaxSends - sends) /\ backlog \in 0..BufferSize
        /\ sends \in 0..MaxSends /\ reads \in 0..MaxReads
    BY SocketAssumption DEF SocketAssumption, Init
  <2>2. told \subseteq Report
    BY DEF Init
  <2> QED
    BY <1>1, <1>2, <2>1, <2>2 DEF Init, TypeOK, Peer

\* What the loop around ::send() does to the variables it changes.
LEMMA TryWriteType ==
  ASSUME TypeOK, NEW armed \in BOOLEAN, Sent(armed) \/ Blocked \/ SendFails
  PROVE  /\ outgoing' \in 0..outgoing
         /\ state' \in {"closed", "connecting", "connected"}
         /\ writeArmed' \in BOOLEAN /\ readArmed' \in BOOLEAN
         /\ work' \in Seq(WorkFunctor)
         /\ "destroy" \in Queued(work') => "destroy" \in Queued(work)
<1>1. CASE Sent(armed)
  BY <1>1, SocketAssumption DEF Sent, TypeOK, SocketAssumption
<1>2. CASE Blocked
  BY <1>2, SocketAssumption DEF Blocked, TypeOK, SocketAssumption
<1>3. CASE SendFails
  <2>1. outgoing' \in 0..outgoing
    BY <1>3 DEF SendFails, TypeOK
  <2>2. Tell("closed") /\ "closed" \in Report
    BY <1>3 DEF SendFails, OnErrorEvent, Report
  <2> QED
    BY <1>3, <2>1, <2>2, TellType DEF SendFails, OnErrorEvent
<1> QED
  BY <1>1, <1>2, <1>3

\* Every step keeps the types; a buffer never holds more than its capacity.
LEMMA TypeNext == TypeOK /\ [Next]_vars => TypeOK'
<1> SUFFICES ASSUME TypeOK, [Next]_vars PROVE TypeOK'
  OBVIOUS
<1> USE SocketAssumption DEF SocketAssumption, TypeOK
<1>1. CASE BeginConnect \/ BeginProcess \/ SetSignals \/ SendData \/ CloseConnection
  <2>1. \A f \in NetworkFunctor : Append(network, f) \in Seq(NetworkFunctor)
    BY Appended
  <2>2. network' \in Seq(NetworkFunctor)
    BY <1>1, <2>1
    DEF BeginConnect, BeginProcess, SetSignals, SendData, CloseConnection,
        NetworkFunctor
  <2>3. CASE BeginConnect
    BY <2>2, <2>3 DEF BeginConnect, events, owner, bytes, history
  <2>4. CASE BeginProcess
    BY <2>2, <2>4 DEF BeginProcess, events, owner, bytes, history, Peer
  <2>5. CASE SetSignals
    BY <2>2, <2>5 DEF SetSignals, events, owner, bytes, history
  <2>6. CASE SendData
    BY <2>2, <2>6 DEF SendData, events, owner, bytes, history
  <2>7. CASE CloseConnection
    BY <2>2, <2>7, ZenonT(60) DEF CloseConnection, events, owner, bytes, history
  <2> QED
    BY <1>1, <2>3, <2>4, <2>5, <2>6, <2>7
<1>2. CASE NoSocket \/ ConnectStarts \/ ConnectFails \/ Accept
  <2>1. network' \in Seq(NetworkFunctor)
    BY <1>2, TakeNetworkType DEF NoSocket, ConnectStarts, ConnectFails, Accept
  <2>2. CASE NoSocket
    BY <2>1, <2>2, TellType
    DEF NoSocket, OnErrorEvent, Report, owner, bytes, history
  <2>3. CASE ConnectStarts
    BY <2>1, <2>3
    DEF ConnectStarts, AwaitConnection, Peer, owner, bytes, history
  <2>4. CASE ConnectFails
    BY <2>1, <2>4, TellType
    DEF ConnectFails, AwaitConnection, Peer, Report, owner, bytes, history
  <2>5. CASE Accept
    BY <2>1, <2>5 DEF Accept, owner, bytes, history
  <2> QED
    BY <1>2, <2>2, <2>3, <2>4, <2>5
<1>3. ASSUME NEW armed \in BOOLEAN, TryWriteBufferToSocket(armed),
             network' \in Seq(NetworkFunctor)
      PROVE  TypeOK'
  BY <1>3, TryWriteType DEF TryWriteBufferToSocket, owner, history
<1>4. CASE Write
  BY <1>3, <1>4, TakeNetworkType DEF Write
<1>5. CASE Close
  <2>1. network' \in Seq(NetworkFunctor)
    BY <1>5, TakeNetworkType DEF Close
  <2>2. work' \in Seq(WorkFunctor)
    BY <1>5, Appended DEF Close, WorkFunctor, Holding
  <2> QED
    BY <1>5, <2>1, <2>2 DEF Close, owner, bytes, history
<1>6. CASE OnConnection
  <2>1. CASE ClientConnected
    BY <1>6, <2>1, TellType
    DEF OnConnection, WriteEventFires, ClientConnected, Report, owner, bytes,
        history
  <2>2. CASE (ConnectionRefused \/ ConnectTimeout)
    BY <1>6, <2>2, TellType
    DEF OnConnection, WriteEventFires, ConnectionRefused, ConnectTimeout,
        OnErrorEvent, Report, owner, bytes, history
  <2> QED
    BY <1>6, <2>1, <2>2 DEF OnConnection
<1>7. CASE OnWriteEvent
  BY <1>3, <1>7 DEF OnWriteEvent
<1>8. CASE OnReadEvent
  <2>1. CASE Received
    BY <1>8, <2>1, ProcessType
    DEF OnReadEvent, Received, Room, owner, history
  <2>2. CASE ReadEnds
    BY <1>8, <2>2, TellType
    DEF OnReadEvent, ReadEnds, OnErrorEvent, Report, owner, history
  <2> QED
    BY <1>8, <2>1, <2>2 DEF OnReadEvent
<1>9. CASE RunWork
  <2>1. work' \in Seq(WorkFunctor)
    BY <1>9, TakeWorkType
    DEF RunWork, RunReport, ProcessPackets, BadPayload, OnDestroySocket
  <2>2. CASE \E r \in Report : RunReport(r)
    BY <2>1, <2>2 DEF RunReport, events, owner, bytes
  <2>3. CASE ProcessPackets
    BY <2>1, <2>3 DEF ProcessPackets, events, owner, history
  <2>4. CASE BadPayload
    <3>1. backlog' \in 0..BufferSize
      <4>1. CASE garbled
        BY <2>4, <4>1 DEF BadPayload
      <4>2. CASE ~garbled
        BY <2>4, <4>2 DEF BadPayload
      <4> QED
        BY <4>1, <4>2
    <3>2. told' \subseteq Report
      BY <2>4 DEF BadPayload, Report
    <3> QED
      BY <2>1, <2>4, <3>1, <3>2 DEF BadPayload, owner
  <2>5. CASE OnDestroySocket
    BY <2>1, <2>5 DEF OnDestroySocket, events, owner, bytes, history
  <2> QED
    BY <1>9, <2>2, <2>3, <2>4, <2>5 DEF RunWork
<1>10. CASE Outside
  BY <1>10
  DEF Outside, PeerAnswers, PeerRefuses, PeerEnds, PeerMoves, Peer, events,
      owner, bytes, history
<1>11. CASE UNCHANGED vars
  BY <1>11 DEF vars, events, owner, bytes, history
<1> QED
  BY <1>1, <1>2, <1>4, <1>5, <1>6, <1>7, <1>8, <1>9, <1>10, <1>11
  DEF Next, Owner, RunFunctor, Callback
-----------------------------------------------------------------------------
(* The life of the helper.                                                 *)

\* What is left in the network loop's queue once its first functor is taken.
Remainder(q) ==
  \A i \in DOMAIN q :
    /\ q[i] \in {"write", "close"}
    /\ q[i] = "write" => helper = "alive"
    /\ q[i] = "close" => i = Len(q) /\ ~held

\* A functor of the network loop finds the socket as the queue's order says.
LEMMA TakeNetworkOrder ==
  ASSUME TypeOK, SocketInv, NEW f, TakeNetwork(f)
  PROVE  /\ Remainder(network')
         /\ Queued(network) = {f} \cup Queued(network')
         /\ f = "connect" => Unbegun /\ helper = "alive"
         /\ f = "accept" => Unbegun /\ helper = "unset"
         /\ f = "write" => helper = "alive"
         /\ f = "close" => network' = <<>> /\ ~held
         /\ "destroy" \notin Queued(work) /\ helper # "deleted"
<1> DEFINE q == Tail(network)
<1>1. /\ network \in Seq(NetworkFunctor) /\ network # <<>>
      /\ Head(network) = f /\ network' = q
  BY DEF TypeOK, TakeNetwork
<1>2. /\ f = network[1] /\ 1 \in DOMAIN network
      /\ Len(network) \in Nat
      /\ q \in Seq(NetworkFunctor) /\ Len(q) = Len(network) - 1
      /\ DOMAIN q = 1..Len(q)
      /\ \A i \in DOMAIN q : i + 1 \in DOMAIN network /\ q[i] = network[i + 1]
      /\ Queued(network) = {f} \cup Queued(q)
  BY <1>1, Taken
<1> HIDE DEF q
<1>3. QueueOrder
  BY DEF SocketInv
<1>4. Remainder(q)
  <2> SUFFICES ASSUME NEW i \in DOMAIN q
               PROVE  /\ q[i] \in {"write", "close"}
                      /\ q[i] = "write" => helper = "alive"
                      /\ q[i] = "close" => i = Len(q) /\ ~held
    BY DEF Remainder
  <2>1. i + 1 \in DOMAIN network /\ q[i] = network[i + 1] /\ i \in 1..Len(q)
    BY <1>2
  <2>2. q[i] \in NetworkFunctor /\ i + 1 # 1
    BY <1>2, <2>1
  <2>3. /\ q[i] \notin {"connect", "accept"}
        /\ q[i] = "write" => helper = "alive"
        /\ q[i] = "close" => i + 1 = Len(network) /\ ~held
    BY <1>3, <2>1, <2>2 DEF QueueOrder
  <2> QED
    BY <1>2, <2>1, <2>2, <2>3 DEF NetworkFunctor
<1>5. /\ f = "connect" => Unbegun /\ helper = "alive"
      /\ f = "accept" => Unbegun /\ helper = "unset"
      /\ f = "write" => helper = "alive"
      /\ f = "close" => 1 = Len(network) /\ ~held
  BY <1>2, <1>3 DEF QueueOrder
<1>6. f = "close" => q = <<>>
  <2>1. Len(q) = Len(network) - 1 /\ q \in Seq(NetworkFunctor)
    BY <1>2
  <2>2. f = "close" => Len(network) = 1
    BY <1>5
  <2> QED
    BY <2>1, <2>2, EmptySeq
<1>7. "destroy" \notin Queued(work) /\ helper # "deleted"
  BY <1>1 DEF SocketInv, ShutInv
<1> QED
  BY <1>1, <1>2, <1>4, <1>5, <1>6, <1>7

\* Order is kept by a step that takes a functor and leaves the rest alone.
LEMMA RemainderIsOrdered ==
  ASSUME TypeOK', Remainder(network'), helper' = helper \/ helper' = "alive",
         held' = held
  PROVE  QueueOrder'
  BY DEF Remainder, QueueOrder

LEMMA SocketInit == Init => SocketInv
  BY DEF Init, SocketInv, HelperAlive, SendProgress, NoSpin, Unbegun,
         QueueOrder, CallbackFits, ShutInv, Queued

\* The owner's calls queue a functor at the end.
LEMMA OwnerNext == TypeOK /\ SocketInv /\ TypeOK' /\ Owner => SocketInv'
<1> SUFFICES ASSUME TypeOK, SocketInv, TypeOK', Owner PROVE SocketInv'
  OBVIOUS
<1> DEFINE Last(f) == /\ f \in NetworkFunctor
                      /\ network' = Append(network, f)
<1>1. ASSUME NEW f, Last(f)
      PROVE  /\ Queued(network') = Queued(network) \cup {f}
             /\ Len(network') = Len(network) + 1 /\ Len(network) \in Nat
             /\ DOMAIN network = 1..Len(network)
             /\ DOMAIN network' = 1..Len(network')
             /\ \A i \in DOMAIN network : network'[i] = network[i]
             /\ network'[Len(network')] = f
             /\ \A i \in DOMAIN network' : i \in DOMAIN network \/ i = Len(network')
  <2>1. network \in Seq(NetworkFunctor) /\ f \in NetworkFunctor
    BY <1>1 DEF TypeOK
  <2>2. Queued(network') = Queued(network) \cup {f}
    BY <1>1, <2>1, Appended
  <2>3. /\ Len(network') = Len(network) + 1 /\ Len(network) \in Nat
        /\ DOMAIN network = 1..Len(network)
        /\ DOMAIN network' = 1..Len(network')
        /\ \A i \in 1..Len(network) : network'[i] = network[i]
        /\ network'[Len(network')] = f
    BY <1>1, <2>1
  <2> QED
    BY <2>2, <2>3
<1>2. CASE BeginConnect
  <2>1. Last("connect")
    BY <1>2 DEF BeginConnect, NetworkFunctor
  <2>2. network = <<>> /\ helper = "unset" /\ helper' = "alive" /\ Unbegun
    BY <1>2 DEF BeginConnect, Begun, SocketInv
  <2>3. /\ UNCHANGED <<state, writeArmed, readArmed, writeCall, work, held,
                       outgoing, garbled>>
    BY <1>2 DEF BeginConnect, events, owner, bytes, history
  <2>4. \A i \in DOMAIN network' : i = 1 /\ network'[i] = "connect"
    BY <1>1, <2>1, <2>2
  <2>5. QueueOrder'
    BY <2>2, <2>3, <2>4 DEF QueueOrder, Unbegun
  <2>6. held /\ "destroy" \notin Queued(work)
    BY <1>2 DEF BeginConnect, SocketInv, ShutInv
  <2> QED
    BY <2>2, <2>3, <2>5, <2>6
    DEF SocketInv, HelperAlive, SendProgress, NoSpin, Unbegun, CallbackFits, ShutInv
<1>3. CASE BeginProcess
  <2>1. Last("accept")
    BY <1>3 DEF BeginProcess, NetworkFunctor
  <2>2. network = <<>> /\ helper = "unset" /\ Unbegun
    BY <1>3 DEF BeginProcess, Begun, SocketInv
  <2>3. /\ UNCHANGED <<state, writeArmed, readArmed, writeCall, work, held,
                       outgoing, garbled, helper>>
    BY <1>3 DEF BeginProcess, events, owner, bytes, history
  <2>4. \A i \in DOMAIN network' : i = 1 /\ network'[i] = "accept"
    BY <1>1, <2>1, <2>2
  <2>5. QueueOrder'
    BY <2>2, <2>3, <2>4 DEF QueueOrder, Unbegun
  <2>6. held /\ "destroy" \notin Queued(work)
    BY <1>3 DEF BeginProcess, SocketInv, ShutInv
  <2> QED
    BY <2>2, <2>3, <2>5, <2>6
    DEF SocketInv, HelperAlive, SendProgress, NoSpin, Unbegun, CallbackFits, ShutInv
<1>4. CASE SetSignals
  <2>1. UNCHANGED <<state, events, helper, network, work, held, outgoing, garbled>>
    BY <1>4 DEF SetSignals, bytes, history
  <2> QED
    BY <2>1
    DEF SocketInv, HelperAlive, SendProgress, NoSpin, Unbegun, QueueOrder,
        CallbackFits, ShutInv, events
<1>5. CASE SendData
  <2>1. Last("write")
    BY <1>5 DEF SendData, NetworkFunctor
  <2>2. held /\ state = "connected" /\ helper = "alive"
    BY <1>5 DEF SendData, SocketInv, Unbegun, ShutInv, TypeOK
  <2>3. UNCHANGED <<state, writeArmed, readArmed, writeCall, work, held, garbled, helper>>
    BY <1>5 DEF SendData, events, owner, history
  <2>4. \A i \in DOMAIN network : network[i] = "write"
    <3> SUFFICES ASSUME NEW i \in DOMAIN network PROVE network[i] = "write"
      OBVIOUS
    <3>1. network[i] \in NetworkFunctor
      BY DEF TypeOK
    <3> QED
      BY <2>2, <3>1 DEF SocketInv, QueueOrder, Unbegun, NetworkFunctor
  <2>5. \A i \in DOMAIN network' : network'[i] = "write"
    BY <1>1, <2>1, <2>4
  <2>6. QueueOrder'
    BY <2>2, <2>3, <2>5 DEF QueueOrder
  <2>7. SendProgress' /\ CallbackFits'
    BY <1>1, <2>1, <2>2, <2>3 DEF SendProgress, SocketInv, CallbackFits
  <2> QED
    BY <2>2, <2>3, <2>6, <2>7
    DEF SocketInv, HelperAlive, NoSpin, Unbegun, ShutInv
<1>6. CASE CloseConnection
  <2>1. Last("close")
    BY <1>6 DEF CloseConnection, NetworkFunctor
  <2>2. held /\ ~held'
    BY <1>6 DEF CloseConnection
  <2>3. UNCHANGED <<state, writeArmed, readArmed, writeCall, work, outgoing,
                    garbled, helper>>
    BY <1>6 DEF CloseConnection, events, bytes, history
  <2>4. QueueOrder'
    BY <1>1, <2>1, <2>2, <2>3 DEF SocketInv, QueueOrder, Unbegun
  <2>5. SendProgress'
    BY <1>1, <2>1, <2>3 DEF SendProgress, SocketInv
  <2>6. "destroy" \notin Queued(work) /\ helper # "deleted"
    BY <2>2 DEF SocketInv, ShutInv
  <2> QED
    BY <2>3, <2>4, <2>5, <2>6
    DEF SocketInv, HelperAlive, NoSpin, Unbegun, CallbackFits, ShutInv
<1> QED
  BY <1>2, <1>3, <1>4, <1>5, <1>6 DEF Owner

\* The loop around ::send() leaves a write queued or the write event added
\* unless everything was sent or the connection has ended.
LEMMA TryWriteNext ==
  ASSUME TypeOK, TypeOK', SocketInv, helper = "alive",
         NEW armed \in BOOLEAN,
         armed => writeArmed,
         TryWriteBufferToSocket(armed),
         QueueOrder',
         "destroy" \notin Queued(work)
  PROVE  SocketInv'
<1>1. UNCHANGED <<helper, held, garbled, writeCall>>
  BY DEF TryWriteBufferToSocket, owner, history
<1>2. "destroy" \notin Queued(work') /\ outgoing' \in 0..outgoing
  BY TryWriteType DEF TryWriteBufferToSocket
<1>3. helper' = "alive" /\ HelperAlive'
  BY <1>1 DEF HelperAlive
<1>4. ShutInv'
  BY <1>1, <1>2 DEF ShutInv
<1>5. NoSpin' /\ CallbackFits' /\ SendProgress'
  <2>1. CASE Sent(armed)
    BY <1>1, <2>1
    DEF Sent, NoSpin, CallbackFits, SendProgress, SocketInv, TypeOK
  <2>2. CASE Blocked
    <3>1. outgoing > 0 /\ writeArmed' /\ UNCHANGED <<state, readArmed>>
      BY <2>2 DEF Blocked
    <3> QED
      BY <1>1, <3>1 DEF NoSpin, CallbackFits, SendProgress, SocketInv
  <2>3. CASE SendFails
    <3>1. outgoing > 0 /\ ~writeArmed' /\ ~readArmed' /\ state' = "closed"
      BY <2>3 DEF SendFails, OnErrorEvent
    <3> QED
      BY <1>1, <3>1 DEF NoSpin, CallbackFits, SendProgress, SocketInv
  <2> QED
    BY <2>1, <2>2, <2>3 DEF TryWriteBufferToSocket
<1> QED
  BY <1>3, <1>4, <1>5 DEF SocketInv

\* The network loop runs a functor.
LEMMA RunFunctorNext == TypeOK /\ SocketInv /\ TypeOK' /\ RunFunctor => SocketInv'
<1> SUFFICES ASSUME TypeOK, SocketInv, TypeOK', RunFunctor PROVE SocketInv'
  OBVIOUS
<1>1. CASE NoSocket
  <2>1. TakeNetwork("connect") /\ OnErrorEvent /\ Tell("closed")
    BY <1>1 DEF NoSocket, OnErrorEvent
  <2>2. UNCHANGED <<writeCall, helper, held, outgoing, garbled>>
    BY <1>1 DEF NoSocket, owner, bytes, history
  <2>3. /\ Remainder(network') /\ Unbegun /\ helper = "alive"
        /\ "destroy" \notin Queued(work)
    BY <2>1, TakeNetworkOrder
  <2>4. QueueOrder' /\ "destroy" \notin Queued(work')
    BY <2>1, <2>2, <2>3, RemainderIsOrdered, TellType DEF Report
  <2> QED
    BY <2>1, <2>2, <2>3, <2>4
    DEF SocketInv, HelperAlive, SendProgress, NoSpin, Unbegun, CallbackFits,
        ShutInv, OnErrorEvent
<1>2. CASE ConnectStarts
  <2>1. TakeNetwork("connect") /\ AwaitConnection
    BY <1>2 DEF ConnectStarts
  <2>2. UNCHANGED <<readArmed, helper, held, outgoing, garbled, work>>
    BY <1>2 DEF ConnectStarts, owner, bytes, history
  <2>3. /\ Remainder(network') /\ Unbegun /\ helper = "alive"
        /\ "destroy" \notin Queued(work)
    BY <2>1, TakeNetworkOrder
  <2>4. QueueOrder'
    BY <2>2, <2>3, RemainderIsOrdered
  <2> QED
    BY <2>1, <2>2, <2>3, <2>4
    DEF SocketInv, HelperAlive, SendProgress, NoSpin, Unbegun, CallbackFits,
        ShutInv, AwaitConnection
<1>3. CASE ConnectFails
  <2>1. TakeNetwork("connect") /\ AwaitConnection /\ Tell("closed") /\ ~readArmed'
    BY <1>3 DEF ConnectFails
  <2>2. UNCHANGED <<helper, held, outgoing, garbled>>
    BY <1>3 DEF ConnectFails, owner, bytes, history
  <2>3. /\ Remainder(network') /\ Unbegun /\ helper = "alive"
        /\ "destroy" \notin Queued(work)
    BY <2>1, TakeNetworkOrder
  <2>4. QueueOrder' /\ "destroy" \notin Queued(work')
    BY <2>1, <2>2, <2>3, RemainderIsOrdered, TellType DEF Report
  <2> QED
    BY <2>1, <2>2, <2>3, <2>4
    DEF SocketInv, HelperAlive, SendProgress, NoSpin, Unbegun, CallbackFits,
        ShutInv, AwaitConnection
<1>4. CASE Accept
  <2>1. /\ TakeNetwork("accept")
        /\ state' = "connected" /\ helper' = "alive"
        /\ writeCall' = "OnWriteEvent"
    BY <1>4 DEF Accept
  <2>2. UNCHANGED <<writeArmed, held, outgoing, garbled, work>>
    BY <1>4 DEF Accept, owner, bytes, history
  <2>3. /\ Remainder(network') /\ Unbegun /\ "destroy" \notin Queued(work)
    BY <2>1, TakeNetworkOrder
  <2>4. QueueOrder'
    BY <2>1, <2>2, <2>3, RemainderIsOrdered
  <2> QED
    BY <2>1, <2>2, <2>3, <2>4
    DEF SocketInv, HelperAlive, SendProgress, NoSpin, Unbegun, CallbackFits, ShutInv
<1>5. CASE Write
  <2>1. TakeNetwork("write") /\ TryWriteBufferToSocket(writeArmed)
    BY <1>5 DEF Write
  <2>2. /\ Remainder(network') /\ helper = "alive"
        /\ "destroy" \notin Queued(work)
    BY <2>1, TakeNetworkOrder
  <2>3. UNCHANGED <<helper, held>>
    BY <2>1 DEF TryWriteBufferToSocket, owner
  <2>4. QueueOrder'
    BY <2>2, <2>3, RemainderIsOrdered
  <2> QED
    BY <2>1, <2>2, <2>4, TryWriteNext DEF TypeOK
<1>6. CASE Close
  <2>1. /\ TakeNetwork("close")
        /\ state' = "closed" /\ ~writeArmed' /\ ~readArmed'
    BY <1>6 DEF Close
  <2>2. UNCHANGED <<writeCall, helper, held, outgoing, garbled>>
    BY <1>6 DEF Close, owner, bytes, history
  <2>3. network' = <<>> /\ ~held
    BY <2>1, TakeNetworkOrder
  <2>4. QueueOrder'
    BY <2>3 DEF QueueOrder
  <2> QED
    BY <2>1, <2>2, <2>3, <2>4
    DEF SocketInv, HelperAlive, SendProgress, NoSpin, Unbegun, CallbackFits, ShutInv
<1> QED
  BY <1>1, <1>2, <1>3, <1>4, <1>5, <1>6 DEF RunFunctor

\* Between its functors the network loop's queue stays in order as long as
\* the socket is begun.
LEMMA OrderKept ==
  ASSUME SocketInv, helper # "unset" \/ UNCHANGED <<state, outgoing, writeArmed, readArmed>>,
         "connect" \notin Queued(network) \/ UNCHANGED <<state, outgoing, writeArmed, readArmed>>,
         UNCHANGED <<network, helper, held>>
  PROVE  QueueOrder'
  BY DEF SocketInv, QueueOrder, Unbegun, Queued

\* The events of the socket call back.
LEMMA CallbackNext == TypeOK /\ SocketInv /\ TypeOK' /\ Callback => SocketInv'
<1> SUFFICES ASSUME TypeOK, SocketInv, TypeOK', Callback PROVE SocketInv'
  OBVIOUS
<1>1. /\ writeArmed \/ readArmed
      /\ UNCHANGED <<network, helper, held, garbled>>
  BY DEF Callback, OnConnection, WriteEventFires, OnWriteEvent, OnReadEvent,
         TryWriteBufferToSocket, owner, history
<1>2. /\ helper = "alive" /\ "destroy" \notin Queued(work)
      /\ "connect" \notin Queued(network)
  BY <1>1 DEF SocketInv, HelperAlive, ShutInv, QueueOrder, Unbegun, Queued
<1>3. QueueOrder' /\ helper' = "alive"
  BY <1>1, <1>2, OrderKept
<1>4. CASE OnConnection
  <2>1. /\ writeArmed /\ writeCall = "OnConnection" /\ UNCHANGED outgoing
    BY <1>4 DEF OnConnection, WriteEventFires, bytes
  <2>2. state = "connecting" /\ outgoing = 0
    BY <2>1 DEF SocketInv, CallbackFits, TypeOK
  <2>3. CASE ClientConnected
    <3>1. "destroy" \notin Queued(work')
      BY <1>2, <2>3, TellType DEF ClientConnected, Report
    <3> QED
      BY <1>1, <1>3, <2>1, <2>2, <2>3, <3>1
      DEF ClientConnected, SocketInv, HelperAlive, SendProgress, NoSpin,
          CallbackFits, ShutInv
  <2>4. CASE ConnectionRefused \/ ConnectTimeout
    <3>1. OnErrorEvent /\ UNCHANGED writeCall
      BY <2>4 DEF ConnectionRefused, ConnectTimeout
    <3>2. "destroy" \notin Queued(work')
      BY <1>2, <3>1, TellType DEF OnErrorEvent, Report
    <3> QED
      BY <1>1, <1>3, <2>1, <2>2, <3>1, <3>2
      DEF OnErrorEvent, SocketInv, HelperAlive, SendProgress, NoSpin,
          CallbackFits, ShutInv
  <2> QED
    BY <1>4, <2>3, <2>4 DEF OnConnection
<1>5. CASE OnWriteEvent
  BY <1>2, <1>3, <1>5, TryWriteNext DEF OnWriteEvent
<1>6. CASE OnReadEvent
  <2>1. UNCHANGED <<writeCall, outgoing>>
    BY <1>6 DEF OnReadEvent
  <2>2. CASE Received
    <3>1. /\ "destroy" \notin Queued(work')
          /\ UNCHANGED <<state, writeArmed, readArmed>>
      BY <1>2, <2>2, ProcessType DEF Received
    <3> QED
      BY <1>1, <1>3, <2>1, <3>1
      DEF SocketInv, HelperAlive, SendProgress, NoSpin, CallbackFits, ShutInv
  <2>3. CASE ReadEnds
    <3>1. OnErrorEvent
      BY <2>3 DEF ReadEnds
    <3>2. "destroy" \notin Queued(work')
      BY <1>2, <3>1, TellType DEF OnErrorEvent, Report
    <3> QED
      BY <1>1, <1>3, <2>1, <3>1, <3>2
      DEF OnErrorEvent, SocketInv, HelperAlive, SendProgress, NoSpin,
          CallbackFits, ShutInv
  <2> QED
    BY <1>6, <2>2, <2>3 DEF OnReadEvent
<1> QED
  BY <1>4, <1>5, <1>6 DEF Callback

\* The worker loop takes reports and packets, and destroys the helper only
\* of a socket that is shut.
LEMMA RunWorkNext == TypeOK /\ SocketInv /\ TypeOK' /\ RunWork => SocketInv'
<1> SUFFICES ASSUME TypeOK, SocketInv, TypeOK', RunWork PROVE SocketInv'
  OBVIOUS
<1>1. UNCHANGED <<state, network, held, outgoing, writeCall>>
  BY DEF RunWork, RunReport, ProcessPackets, BadPayload, OnDestroySocket,
         events, owner, bytes
<1>2. "destroy" \in Queued(work') => "destroy" \in Queued(work)
  BY TakeWorkType
  DEF RunWork, RunReport, ProcessPackets, BadPayload, OnDestroySocket
<1>3. CASE (\E r \in Report : RunReport(r)) \/ ProcessPackets
  <2>1. UNCHANGED <<helper, writeArmed, readArmed, garbled>>
    BY <1>3 DEF RunReport, ProcessPackets, events, history
  <2> QED
    BY <1>1, <1>2, <2>1
    DEF SocketInv, HelperAlive, SendProgress, NoSpin, Unbegun, QueueOrder,
        CallbackFits, ShutInv
<1>4. CASE BadPayload
  <2>1. UNCHANGED helper /\ garbled' /\ ~writeArmed' /\ ~readArmed'
    BY <1>4 DEF BadPayload
  <2>2. QueueOrder'
    BY <1>1, <2>1 DEF SocketInv, QueueOrder, Unbegun
  <2> QED
    BY <1>1, <1>2, <2>1, <2>2
    DEF SocketInv, HelperAlive, SendProgress, NoSpin, Unbegun, CallbackFits,
        ShutInv
<1>5. CASE OnDestroySocket
  <2>1. "destroy" \in Queued(work)
    BY <1>5, TakeWorkType DEF OnDestroySocket
  <2>2. /\ ~held /\ network = <<>>
        /\ state = "closed" /\ ~writeArmed /\ ~readArmed
    BY <2>1 DEF SocketInv, ShutInv
  <2>3. UNCHANGED <<writeArmed, readArmed, garbled>> /\ helper' = "deleted"
    BY <1>5 DEF OnDestroySocket, events, history
  <2> QED
    BY <1>1, <1>2, <2>2, <2>3
    DEF SocketInv, HelperAlive, SendProgress, NoSpin, QueueOrder, CallbackFits,
        ShutInv
<1> QED
  BY <1>3, <1>4, <1>5 DEF RunWork

\* Every step keeps the invariant.
LEMMA SocketNext == TypeOK /\ SocketInv /\ TypeOK' /\ [Next]_vars => SocketInv'
<1> SUFFICES ASSUME TypeOK, SocketInv, TypeOK', [Next]_vars PROVE SocketInv'
  OBVIOUS
<1>1. CASE Outside \/ UNCHANGED vars
  <2>1. UNCHANGED <<state, events, helper, network, work, held, outgoing, garbled>>
    BY <1>1
    DEF Outside, PeerAnswers, PeerRefuses, PeerEnds, PeerMoves, vars, owner,
        bytes, history
  <2> QED
    BY <2>1
    DEF SocketInv, HelperAlive, SendProgress, NoSpin, Unbegun, QueueOrder,
        CallbackFits, ShutInv, events
<1> QED
  BY <1>1, OwnerNext, RunFunctorNext, CallbackNext, RunWorkNext DEF Next

-----------------------------------------------------------------------------
(* Theorems.                                                               *)

(***************************************************************************)
(* The types, and with them the two bounds: the receive buffer never holds *)
(* more than its capacity, and no byte is in the send buffer that SendData *)
(* did not put there.                                                      *)
(***************************************************************************)
THEOREM TypeCorrect == Spec => []TypeOK
  BY TypeInit, TypeNext, PTL DEF Spec

\* The inductive invariant of the socket's life.
THEOREM SocketInvariance == Spec => []SocketInv
  BY TypeCorrect, SocketInit, SocketNext, PTL DEF Spec

(***************************************************************************)
(* An event of the socket is only added while CShareThisHelper keeps the   *)
(* socket alive: OnDestroySocket on the worker loop, which takes no lock,  *)
(* never deletes what a callback on the network loop would use.            *)
(***************************************************************************)
THEOREM HelperNeverDangles == Spec => []HelperAlive
<1>1. SocketInv => HelperAlive
  BY DEF SocketInv
<1> QED
  BY <1>1, SocketInvariance, PTL

(***************************************************************************)
(* Between SendData on the worker loop and TryWriteBufferToSocket on the   *)
(* network loop no byte is forgotten while the connection is up.           *)
(***************************************************************************)
THEOREM BytesNeverForgotten == Spec => []SendProgress
<1>1. SocketInv => SendProgress
  BY DEF SocketInv
<1> QED
  BY <1>1, SocketInvariance, PTL

\* The persistent read event never fires for a socket that will not read.
THEOREM ReadEventNeverSpins == Spec => []NoSpin
<1>1. SocketInv => NoSpin
  BY DEF SocketInv
<1> QED
  BY <1>1, SocketInvariance, PTL

-----------------------------------------------------------------------------
(* The socket is a Connection: the invariants the refinement needs.        *)

LEMMA ModeInit == Init => ModeInv /\ DestroyLast
  BY DEF Init, ModeInv, DestroyLast, Queued

LEMMA OwnerMode ==
  ASSUME TypeOK, SocketInv, ModeInv, Owner
  PROVE  ModeInv'
<1>1. network \in Seq(NetworkFunctor)
  BY DEF TypeOK
<1>2. CASE BeginConnect
  <2>1. /\ network = <<>> /\ mode = "connect" /\ helper' = "alive"
        /\ network' = Append(network, "connect") /\ UNCHANGED <<mode, peer>>
    BY <1>2 DEF BeginConnect, Begun
  <2>2. Queued(network') = Queued(network) \cup {"connect"}
    <3>1. Queued(Append(network, "connect")) = Queued(network) \cup {"connect"}
      BY <1>1, Appended DEF NetworkFunctor
    <3> QED
      BY <2>1, <3>1, Zenon
  <2>3. Queued(network) = {}
    BY <2>1 DEF Queued
  <2> QED
    BY <2>1, <2>2, <2>3 DEF ModeInv
<1>3. CASE BeginProcess
  <2>1. /\ network = <<>> /\ mode = "accept" /\ peer' = "up"
        /\ network' = Append(network, "accept") /\ UNCHANGED <<mode, helper>>
    BY <1>3 DEF BeginProcess, Begun
  <2>2. Queued(network') = Queued(network) \cup {"accept"}
    <3>1. Queued(Append(network, "accept")) = Queued(network) \cup {"accept"}
      BY <1>1, Appended DEF NetworkFunctor
    <3> QED
      BY <2>1, <3>1, Zenon
  <2>3. Queued(network) = {}
    BY <2>1 DEF Queued
  <2>4. network'[1] = "accept"
    BY <2>1
  <2> QED
    BY <2>1, <2>2, <2>3, <2>4 DEF ModeInv
<1>4. CASE SetSignals
  BY <1>4 DEF SetSignals, ModeInv
<1>5. CASE SendData \/ CloseConnection
  <2>1. PICK f \in {"write", "close"} :
          /\ network' = Append(network, f) /\ UNCHANGED <<mode, peer, helper>>
          /\ f = "write" => state = "connected"
          /\ f = "close" => Begun
    BY <1>5 DEF SendData, CloseConnection
  <2>2. Queued(network') = Queued(network) \cup {f}
    BY <1>1, <2>1, Appended DEF NetworkFunctor
  <2>3. network # <<>> => network'[1] = network[1]
    BY <1>1, <2>1
  <2>4. helper = "unset" => network # <<>>
    BY <2>1 DEF SocketInv, Unbegun, Begun
  <2> QED
    BY <2>1, <2>2, <2>3, <2>4 DEF ModeInv
<1> QED
  BY <1>2, <1>3, <1>4, <1>5 DEF Owner

LEMMA RunFunctorMode ==
  ASSUME TypeOK, SocketInv, ModeInv, RunFunctor
  PROVE  ModeInv'
<1>1. PICK f \in NetworkFunctor : 
        /\ TakeNetwork(f) /\ mode' = mode
        /\ peer' = "dead" /\ peer # "dead" => f = "connect"
        /\ helper' = helper \/ helper' = "alive"
        /\ f = "accept" => helper' = "alive"
  BY DEF RunFunctor, NoSocket, ConnectStarts, ConnectFails, Accept, Write, Close,
         TryWriteBufferToSocket, NetworkFunctor
<1>2. /\ Remainder(network') /\ Queued(network) = {f} \cup Queued(network')
      /\ f = "connect" => helper = "alive"
      /\ f = "write" => helper = "alive"
      /\ f = "close" => network' = <<>>
  BY <1>1, TakeNetworkOrder
<1>3. helper' = "unset" => network' = <<>>
  BY <1>1, <1>2 DEF NetworkFunctor
<1>4. "connect" \in Queued(network) => mode = "connect"
  BY DEF ModeInv
<1>5. mode = "accept" => peer' # "dead"
  BY <1>1, <1>2, <1>4 DEF ModeInv
<1> QED
  BY <1>1, <1>2, <1>3, <1>5 DEF ModeInv

LEMMA ModeNext ==
  ASSUME TypeOK, SocketInv, ModeInv, [Next]_vars
  PROVE  ModeInv'
<1>1. CASE Callback \/ RunWork \/ UNCHANGED vars
  <2>1. UNCHANGED <<mode, peer, network>>
    BY <1>1 DEF Callback, OnConnection, WriteEventFires, OnWriteEvent, OnReadEvent,
       TryWriteBufferToSocket, RunWork, RunReport, ProcessPackets, BadPayload,
       OnDestroySocket, vars
  <2>2. helper' = helper \/ helper' = "deleted"
    BY <1>1 DEF Callback, OnConnection, WriteEventFires, OnWriteEvent, OnReadEvent,
       TryWriteBufferToSocket, RunWork, RunReport, ProcessPackets, BadPayload,
       OnDestroySocket, vars
  <2> QED
    BY <2>1, <2>2 DEF ModeInv
<1>2. CASE Outside
  <2>1. UNCHANGED <<mode, helper, network>> /\ peer' # "dead"
    BY <1>2 DEF Outside, PeerAnswers, PeerRefuses, PeerEnds, PeerMoves
  <2> QED
    BY <2>1 DEF ModeInv
<1> QED
  BY <1>1, <1>2, OwnerMode, RunFunctorMode DEF Next

\* A functor queued while there is no OnDestroySocket in the queue.
LEMMA DestroyQueued ==
  ASSUME TypeOK, NEW f \in WorkFunctor, "destroy" \notin Queued(work),
         work' = Append(work, f), f = "destroy" => helper' # "unset"
  PROVE  DestroyLast'
<1>1. /\ work \in Seq(WorkFunctor) /\ Len(work) \in Nat
      /\ DOMAIN work = 1..Len(work) /\ DOMAIN work' = 1..(Len(work) + 1)
      /\ \A i \in 1..Len(work) : work'[i] = work[i]
      /\ work'[Len(work) + 1] = f /\ Len(work') = Len(work) + 1
  BY DEF TypeOK
<1>2. \A i \in 1..Len(work) : work[i] # "destroy"
  BY <1>1 DEF Queued
<1>3. \A i \in DOMAIN work' : work'[i] = "destroy" => i = Len(work')
  BY <1>1, <1>2
<1>4. Queued(work') = Queued(work) \cup {f}
  BY <1>1, Appended
<1>5. "destroy" \in Queued(work') => f = "destroy"
  BY <1>4
<1> QED
  BY <1>3, <1>5 DEF DestroyLast

LEMMA DestroyKept ==
  ASSUME DestroyLast, work' = work, helper' = helper \/ helper' # "unset"
  PROVE  DestroyLast'
  BY DEF DestroyLast

LEMMA DestroyTold ==
  ASSUME TypeOK, DestroyLast, NEW r \in Report, Tell(r), helper' = helper,
         "destroy" \notin Queued(work)
  PROVE  DestroyLast'
<1>1. CASE listening
  BY <1>1, DestroyQueued DEF Tell, Report, WorkFunctor
<1>2. CASE ~listening
  BY <1>2, DestroyKept DEF Tell
<1> QED
  BY <1>1, <1>2

LEMMA DestroyTaken ==
  ASSUME TypeOK, DestroyLast, NEW f, TakeWork(f),
         helper' = helper \/ helper' # "unset"
  PROVE  DestroyLast'
<1>1. /\ work \in Seq(WorkFunctor) /\ work # <<>> /\ work' = Tail(work)
  BY DEF TypeOK, TakeWork
<1>2. /\ Len(work') = Len(work) - 1 /\ Len(work) \in Nat
      /\ DOMAIN work' = 1..Len(work')
      /\ \A i \in DOMAIN work' : i + 1 \in DOMAIN work /\ work'[i] = work[i + 1]
      /\ Queued(work') \subseteq Queued(work)
  BY <1>1, Taken
<1>3. ASSUME NEW i \in DOMAIN work', work'[i] = "destroy"
      PROVE  i = Len(work')
  <2>1. i + 1 \in DOMAIN work /\ work[i + 1] = "destroy"
    BY <1>2, <1>3
  <2>2. i + 1 = Len(work)
    BY <2>1 DEF DestroyLast
  <2> QED
    BY <1>2, <2>2
<1>4. "destroy" \in Queued(work') => helper' # "unset"
  BY <1>2 DEF DestroyLast
<1> QED
  BY <1>3, <1>4 DEF DestroyLast

\* CloseConnectionInNetworkLoop runs after the socket was begun.
LEMMA CloseAfterStart ==
  ASSUME TypeOK, ModeInv, TakeNetwork("close")
  PROVE  helper # "unset"
<1>1. network[1] = "close" /\ network # <<>>
  BY Taken DEF TypeOK, TakeNetwork
<1> QED
  BY <1>1 DEF ModeInv

LEMMA DestroyNext ==
  ASSUME TypeOK, SocketInv, ModeInv, DestroyLast, [Next]_vars
  PROVE  DestroyLast'
<1>1. CASE Owner \/ Outside \/ UNCHANGED vars
  <2>1. work' = work /\ (helper' = helper \/ helper' = "alive")
    BY <1>1 DEF Owner, BeginConnect, BeginProcess, SetSignals, SendData,
       CloseConnection, Outside, PeerAnswers, PeerRefuses, PeerEnds, PeerMoves, vars
  <2> QED
    BY <2>1, DestroyKept
<1>2. CASE RunFunctor
  <2>1. PICK f \in NetworkFunctor :
          /\ TakeNetwork(f)
          /\ \/ work' = work /\ (helper' = helper \/ helper' = "alive")
             \/ Tell("closed") /\ helper' = helper
             \/ work' = Append(work, "destroy") /\ helper' = helper /\ f = "close"
    BY <1>2 DEF RunFunctor, NoSocket, ConnectStarts, ConnectFails, Accept, Write,
       Close, TryWriteBufferToSocket, Sent, Blocked, SendFails, OnErrorEvent,
       NetworkFunctor
  <2>2. "destroy" \notin Queued(work)
    BY <2>1, TakeNetworkOrder
  <2>3. CASE work' = work /\ (helper' = helper \/ helper' = "alive")
    BY <2>3, DestroyKept
  <2>4. CASE Tell("closed") /\ helper' = helper
    BY <2>2, <2>4, DestroyTold DEF Report
  <2>5. CASE work' = Append(work, "destroy") /\ helper' = helper /\ f = "close"
    <3>1. helper # "unset"
      BY <2>1, <2>5, CloseAfterStart
    <3>2. "destroy" \in WorkFunctor
      BY DEF WorkFunctor, Holding
    <3> QED
      BY <2>2, <2>5, <3>1, <3>2, DestroyQueued
  <2> QED
    BY <2>1, <2>3, <2>4, <2>5
<1>3. CASE Callback
  <2>1. /\ helper' = helper
        /\ \/ work' = work
           \/ \E r \in Report : Tell(r)
           \/ work' = Append(work, "process")
    BY <1>3 DEF Callback, OnConnection, WriteEventFires, ClientConnected,
       ConnectionRefused, ConnectTimeout, OnWriteEvent, OnReadEvent, Received,
       ReadEnds, TryWriteBufferToSocket, Sent, Blocked, SendFails, OnErrorEvent,
       Report
  <2>2. "destroy" \notin Queued(work)
    <3>1. writeArmed \/ readArmed
      BY <1>3 DEF Callback, OnConnection, WriteEventFires, OnWriteEvent,
         OnReadEvent
    <3> QED
      BY <3>1 DEF SocketInv, ShutInv
  <2>3. CASE work' = Append(work, "process")
    BY <2>1, <2>2, <2>3, DestroyQueued DEF WorkFunctor, Holding
  <2> QED
    BY <2>1, <2>2, <2>3, DestroyKept, DestroyTold
<1>4. CASE RunWork
  <2>1. \E f : TakeWork(f) /\ (helper' = helper \/ helper' = "deleted")
    BY <1>4 DEF RunWork, RunReport, ProcessPackets, BadPayload, OnDestroySocket
  <2> QED
    BY <2>1, DestroyTaken
<1> QED
  BY <1>1, <1>2, <1>3, <1>4 DEF Next

\* What the steps of the socket rely on.
ConnectionInv == TypeOK /\ SocketInv /\ ModeInv /\ DestroyLast

LEMMA ConnectionInvariance == Spec => []ConnectionInv
<1>1. Init => ConnectionInv
  BY TypeInit, SocketInit, ModeInit DEF ConnectionInv
<1>2. ConnectionInv /\ [Next]_vars => ConnectionInv'
  BY TypeNext, SocketNext, ModeNext, DestroyNext DEF ConnectionInv
<1> QED
  BY <1>1, <1>2, PTL DEF Spec

-----------------------------------------------------------------------------
(* The socket is a Connection: what the owner will hear.                   *)

Reported(f) == IF f = "process" THEN "data" ELSE f

LEMMA ReportsWithout ==
  ASSUME TypeOK, "destroy" \notin Queued(work)
  PROVE  /\ reports = [i \in 1..Len(work) |-> Reported(work[i])]
         /\ reports \in Seq(Abstract!Report) /\ Len(reports) = Len(work)
<1>1. work \in Seq(WorkFunctor) /\ Len(work) \in Nat /\ DOMAIN work = 1..Len(work)
  BY DEF TypeOK
<1>2. reports = [i \in 1..Len(work) |-> Reported(work[i])]
  BY DEF reports, Reported
<1>3. \A i \in 1..Len(work) : Reported(work[i]) \in Abstract!Report
  <2> SUFFICES ASSUME NEW i \in 1..Len(work)
               PROVE  Reported(work[i]) \in Abstract!Report
    OBVIOUS
  <2>1. work[i] \in WorkFunctor /\ work[i] # "destroy"
    BY <1>1 DEF Queued
  <2> QED
    BY <2>1 DEF Reported, WorkFunctor, Report, Holding, Abstract!Report
<1> QED
  BY <1>1, <1>2, <1>3

\* A report that is queued comes last.
LEMMA ReportsQueued ==
  ASSUME TypeOK, TypeOK', "destroy" \notin Queued(work),
         NEW f \in WorkFunctor \ {"destroy"}, work' = Append(work, f)
  PROVE  /\ reports' = Append(reports, Reported(f))
         /\ "destroy" \notin Queued(work')
<1>1. /\ work \in Seq(WorkFunctor) /\ Len(work) \in Nat
      /\ Len(work') = Len(work) + 1
      /\ \A i \in 1..Len(work) : work'[i] = work[i]
      /\ work'[Len(work) + 1] = f
  BY DEF TypeOK
<1>2. "destroy" \notin Queued(work')
  BY <1>1, Appended
<1>3. /\ reports = [i \in 1..Len(work) |-> Reported(work[i])]
      /\ reports \in Seq(Abstract!Report) /\ Len(reports) = Len(work)
  BY ReportsWithout
<1>4. /\ reports' = [i \in 1..Len(work') |-> Reported(work'[i])]
      /\ reports' \in Seq(Abstract!Report) /\ Len(reports') = Len(work')
  <2>1. (TypeOK /\ "destroy" \notin Queued(work))'
    BY <1>2
  <2>2. (TypeOK /\ "destroy" \notin Queued(work) =>
           /\ reports = [i \in 1..Len(work) |-> Reported(work[i])]
           /\ reports \in Seq(Abstract!Report) /\ Len(reports) = Len(work))'
    BY ReportsWithout, PTL
  <2> QED
    BY <2>1, <2>2
<1> DEFINE a == reports
           b == reports'
           r == Reported(f)
<1>5. /\ Len(b) = Len(a) + 1 /\ Len(a) = Len(work) /\ b[Len(a) + 1] = r
      /\ \A i \in 1..Len(a) : b[i] = a[i]
  BY <1>1, <1>3, <1>4
<1>6. a \in Seq(Abstract!Report) /\ b \in Seq(Abstract!Report) /\ r \in Abstract!Report
  BY <1>3, <1>4 DEF Reported, WorkFunctor, Report, Holding, Abstract!Report
<1> HIDE DEF a, b, r
<1>7. b = Append(a, r)
  BY <1>5, <1>6
<1> QED
  BY <1>2, <1>7 DEF a, b, r

LEMMA ReportsTold ==
  ASSUME TypeOK, TypeOK', "destroy" \notin Queued(work), NEW r \in Report, Tell(r)
  PROVE  Abstract!Tell(r) /\ "destroy" \notin Queued(work')
<1>1. r \in WorkFunctor \ {"destroy"} /\ Reported(r) = r
  BY DEF Report, WorkFunctor, Reported
<1>2. CASE listening
  BY <1>1, <1>2, ReportsQueued DEF Tell, Abstract!Tell
<1>3. CASE ~listening
  BY <1>3 DEF Tell, Abstract!Tell, reports
<1> QED
  BY <1>2, <1>3

\* OnDestroySocket is no report.
LEMMA ReportsDestroy ==
  ASSUME TypeOK, "destroy" \notin Queued(work), work' = Append(work, "destroy")
  PROVE  UNCHANGED reports /\ "destroy" \in Queued(work')
<1>1. /\ work \in Seq(WorkFunctor) /\ Len(work) \in Nat
      /\ Len(work') = Len(work) + 1
      /\ \A i \in 1..Len(work) : work'[i] = work[i]
      /\ "destroy" \in WorkFunctor
  BY DEF TypeOK, WorkFunctor, Holding
<1>2. "destroy" \in Queued(work')
  BY <1>1, Appended
<1>3. reports' = [i \in 1..Len(work) |-> IF work'[i] = "process" THEN "data" ELSE work'[i]]
  <2>1. Len(work') - 1 = Len(work)
    BY <1>1
  <2> QED
    BY <1>2, <2>1 DEF reports
<1>4. reports = [i \in 1..Len(work) |-> IF work[i] = "process" THEN "data" ELSE work[i]]
  BY DEF reports
<1> QED
  BY <1>1, <1>2, <1>3, <1>4

\* A functor that the worker loop takes is the first report.
LEMMA ReportsTaken ==
  ASSUME TypeOK, DestroyLast, NEW f, f # "destroy", TakeWork(f)
  PROVE  /\ reports # <<>> /\ reports' = Tail(reports)
         /\ "destroy" \in Queued(work') <=> "destroy" \in Queued(work)
<1> DEFINE n == IF "destroy" \in Queued(work) THEN Len(work) - 1 ELSE Len(work)
           a == reports
           b == reports'
<1>1. /\ work \in Seq(WorkFunctor) /\ work # <<>> /\ work' = Tail(work)
      /\ Head(work) = f
  BY DEF TypeOK, TakeWork
<1>2. /\ Len(work') = Len(work) - 1 /\ Len(work) \in Nat /\ 1 \in DOMAIN work
      /\ DOMAIN work = 1..Len(work) /\ DOMAIN work' = 1..Len(work') /\ work[1] = f
      /\ \A i \in DOMAIN work' : i + 1 \in DOMAIN work /\ work'[i] = work[i + 1]
      /\ Queued(work) = {f} \cup Queued(work')
  BY <1>1, Taken
<1>3. "destroy" \in Queued(work') <=> "destroy" \in Queued(work)
  BY <1>2
<1>4. n \in Nat /\ n > 0
  <2>1. CASE "destroy" \in Queued(work)
    <3>1. PICK i \in DOMAIN work : work[i] = "destroy"
      BY <2>1 DEF Queued
    <3>2. i = Len(work) /\ i # 1
      BY <1>2, <3>1 DEF DestroyLast
    <3> QED
      BY <1>2, <2>1, <3>2
  <2>2. CASE "destroy" \notin Queued(work)
    BY <1>2, <2>2
  <2> QED
    BY <2>1, <2>2
<1>5. a = [i \in 1..n |-> Reported(work[i])]
  BY DEF reports, Reported
<1>6. b = [i \in 1..(n - 1) |-> Reported(work'[i])]
  <2>1. (IF "destroy" \in Queued(work') THEN Len(work') - 1 ELSE Len(work')) = n - 1
    BY <1>2, <1>3
  <2> QED
    BY <2>1 DEF reports, Reported
<1>7. n <= Len(work)
  BY <1>2
<1> HIDE DEF n, a, b
<1>8. \A i \in 1..(n - 1) : b[i] = a[i + 1]
  <2> SUFFICES ASSUME NEW i \in 1..(n - 1) PROVE b[i] = a[i + 1]
    OBVIOUS
  <2>1. i \in DOMAIN work' /\ i + 1 \in 1..n
    BY <1>2, <1>4, <1>7
  <2> QED
    BY <1>2, <1>5, <1>6, <2>1
<1> DEFINE R == {Reported(work[i]) : i \in 1..n}
<1>9. a \in Seq(R) /\ Len(a) = n
  <2>1. \A i \in 1..n : Reported(work[i]) \in R
    OBVIOUS
  <2> HIDE DEF R
  <2> QED
    BY <1>4, <1>5, <2>1
<1>10. b \in Seq(R) /\ Len(b) = n - 1
  <2>1. \A i \in 1..(n - 1) : b[i] \in R
    <3> SUFFICES ASSUME NEW i \in 1..(n - 1) PROVE b[i] \in R
      OBVIOUS
    <3>1. i + 1 \in 1..n
      BY <1>4
    <3> QED
      BY <1>5, <1>8, <3>1
  <2> HIDE DEF R
  <2>2. b = [i \in 1..(n - 1) |-> b[i]] /\ n - 1 \in Nat
    BY <1>4, <1>6
  <2> QED
    BY <2>1, <2>2
<1> HIDE DEF R
<1>11. a # <<>> /\ Tail(a) \in Seq(R) /\ Len(Tail(a)) = n - 1
       /\ \A i \in 1..(n - 1) : Tail(a)[i] = a[i + 1]
  BY <1>4, <1>9
<1>12. b = Tail(a)
  BY <1>8, <1>10, <1>11, SeqEqual
<1> QED
  BY <1>3, <1>11, <1>12 DEF a, b

\* OnDestroySocket is taken when all reports were.
LEMMA ReportsEnd ==
  ASSUME TypeOK, DestroyLast, TakeWork("destroy")
  PROVE  UNCHANGED reports /\ "destroy" \in Queued(work)
<1>1. /\ work \in Seq(WorkFunctor) /\ work # <<>> /\ work' = Tail(work)
      /\ Head(work) = "destroy"
  BY DEF TypeOK, TakeWork
<1>2. /\ Len(work') = Len(work) - 1 /\ 1 \in DOMAIN work /\ work[1] = "destroy"
      /\ DOMAIN work' = 1..Len(work') /\ Queued(work) = {"destroy"} \cup Queued(work')
  BY <1>1, Taken
<1>3. Len(work) = 1
  BY <1>2 DEF DestroyLast
<1>4. Len(work') = 0 /\ Queued(work') = {}
  <2>1. Len(work') = 0
    BY <1>2, <1>3
  <2> QED
    BY <1>2, <2>1 DEF Queued
<1>5. reports = [i \in 1..0 |-> Reported(work[i])]
  BY <1>2, <1>3 DEF reports, Reported
<1>6. reports' = [i \in 1..0 |-> Reported(work'[i])]
  BY <1>4 DEF reports, Reported
<1> QED
  BY <1>2, <1>5, <1>6

-----------------------------------------------------------------------------
(* The socket is a Connection: what becomes of it.                         *)

\* The socket waits for the network loop to begin it, or for its owner to.
Waits == ~Begun \/ Queued(network) \cap {"connect", "accept"} # {}

IsShut == helper = "deleted" \/ "destroy" \in Queued(work)

Phase(waits, shut, st, pr) ==
  IF waits THEN "idle"
  ELSE IF shut THEN "shut"
  ELSE CASE st = "connecting" -> IF pr = "dead" THEN "failed" ELSE "trying"
         [] st = "connected" -> IF pr = "dead" THEN "phantom" ELSE "open"
         [] st = "closed" -> "over"

LEMMA PhaseIs ==
  /\ phase = Phase(Waits, IsShut, state, peer)
  /\ phase' = Phase(Waits', IsShut', state', peer')
  BY DEF phase, Phase, Waits, IsShut

\* An event is added, or the socket connects or is connected, only between its
\* beginning and its end.
LEMMA Midlife ==
  ASSUME ConnectionInv, writeArmed \/ readArmed \/ state # "closed"
  PROVE  ~Waits /\ ~IsShut /\ helper # "unset"
<1>1. helper # "unset"
  BY DEF ConnectionInv, SocketInv, Unbegun
<1>2. Queued(network) \cap {"connect", "accept"} = {}
  BY DEF ConnectionInv, SocketInv, QueueOrder, Unbegun, Queued
<1>3. ~IsShut
  BY DEF ConnectionInv, SocketInv, ShutInv, IsShut
<1> QED
  BY <1>1, <1>2, <1>3 DEF Waits, Begun

\* After a functor of the network loop nothing waits to begin.
LEMMA AfterFunctor ==
  ASSUME ConnectionInv, NEW f, TakeNetwork(f)
  PROVE  /\ Queued(network') \cap {"connect", "accept"} = {}
         /\ ~IsShut
         /\ helper' # "unset" => ~Waits'
         /\ f \in {"connect", "accept"} => Waits
         /\ f \notin {"connect", "accept"} /\ helper # "unset" => ~Waits
<1>1. /\ Remainder(network') /\ Queued(network) = {f} \cup Queued(network')
      /\ "destroy" \notin Queued(work) /\ helper # "deleted"
  BY TakeNetworkOrder DEF ConnectionInv
<1>2. Queued(network') \cap {"connect", "accept"} = {}
  BY <1>1 DEF Remainder, Queued
<1> QED
  BY <1>1, <1>2 DEF IsShut, Waits, Begun

LEMMA SameConnection ==
  ASSUME UNCHANGED <<phase, reports, listening, held>>
  PROVE  UNCHANGED Abstract!vars
  BY DEF Abstract!vars

\* The steps of TryWriteBufferToSocket and of the read callback that end a
\* connection.
LEMMA ErrorEnds ==
  ASSUME ConnectionInv, TypeOK', ~IsShut, OnErrorEvent, ~Waits',
         UNCHANGED <<helper, owner>>
  PROVE  Abstract!End
<1>1. Abstract!Tell("closed") /\ "destroy" \notin Queued(work')
  BY ReportsTold DEF ConnectionInv, OnErrorEvent, IsShut, Report
<1>2. ~IsShut' /\ state' = "closed"
  BY <1>1 DEF IsShut, OnErrorEvent
<1>3. phase' = "over"
  BY <1>2, PhaseIs DEF Phase
<1>4. phase \in Abstract!Live
  BY PhaseIs DEF Phase, Abstract!Live, Abstract!Phase, ConnectionInv, TypeOK
<1> QED
  BY <1>1, <1>3, <1>4 DEF Abstract!End, Abstract!Become, owner

LEMMA SamePhase ==
  ASSUME ConnectionInv, Waits' <=> Waits, IsShut' <=> IsShut,
         UNCHANGED state, peer' = "dead" <=> peer = "dead"
  PROVE  UNCHANGED phase
<1>1. CASE Waits
  BY <1>1, PhaseIs DEF Phase
<1>2. CASE ~Waits /\ IsShut
  BY <1>2, PhaseIs DEF Phase
<1>3. CASE ~Waits /\ ~IsShut
  <2>1. ~Waits' /\ ~IsShut' /\ state \in {"closed", "connecting", "connected"}
    BY <1>3 DEF ConnectionInv, TypeOK
  <2>2. CASE peer = "dead"
    BY <1>3, <2>1, <2>2, PhaseIs DEF Phase
  <2>3. CASE peer # "dead"
    BY <1>3, <2>1, <2>3, PhaseIs DEF Phase
  <2> QED
    BY <2>2, <2>3
<1> QED
  BY <1>1, <1>2, <1>3

LEMMA SameReports ==
  ASSUME UNCHANGED work
  PROVE  UNCHANGED reports
  BY DEF reports

LEMMA OwnerRefines ==
  ASSUME ConnectionInv, Owner
  PROVE  [Abstract!Next]_(Abstract!vars)
<1>1. work' = work /\ UNCHANGED reports /\ network \in Seq(NetworkFunctor)
  BY SameReports DEF Owner, BeginConnect, BeginProcess, SetSignals, SendData,
     CloseConnection, ConnectionInv, TypeOK
<1>2. ASSUME NEW f \in NetworkFunctor, network' = Append(network, f)
      PROVE  /\ Queued(network') = Queued(network) \cup {f} /\ network' # <<>>
  <2>1. Append(network, f) # <<>>
    BY <1>1, AppendProperties
  <2> QED
    BY <1>1, <1>2, <2>1, Appended
<1>3. CASE BeginConnect \/ BeginProcess
  <2>1. PICK f \in {"connect", "accept"} :
          network' = Append(network, f) /\ ~Begun /\ UNCHANGED owner
    BY <1>3 DEF BeginConnect, BeginProcess
  <2>2. Waits /\ Waits'
    BY <1>2, <2>1 DEF Waits, NetworkFunctor
  <2>3. UNCHANGED phase
    BY <2>2, PhaseIs DEF Phase
  <2> QED
    BY <1>1, <2>1, <2>3, SameConnection DEF owner
<1>4. CASE SetSignals
  <2>1. UNCHANGED phase
    BY <1>4 DEF SetSignals, phase, Begun
  <2> QED
    BY <1>1, <1>4, <2>1 DEF SetSignals, Abstract!Next, Abstract!Listen
<1>5. CASE SendData
  <2>1. network' = Append(network, "write") /\ UNCHANGED <<helper, state, peer, owner>>
        /\ state = "connected"
    BY <1>5 DEF SendData
  <2>2. ~Waits /\ helper # "unset"
    BY <2>1, Midlife
  <2>3. ~Waits'
    BY <1>2, <2>1, <2>2 DEF Waits, Begun, NetworkFunctor
  <2>4. IsShut' = IsShut
    BY <1>1, <2>1 DEF IsShut
  <2>5. UNCHANGED phase
    BY <2>1, <2>2, <2>3, <2>4, SamePhase
  <2> QED
    BY <1>1, <2>1, <2>5, SameConnection DEF owner
<1>6. CASE CloseConnection
  <2>1. network' = Append(network, "close") /\ UNCHANGED <<helper, state, peer>>
        /\ Begun /\ Abstract!LetGo
    BY <1>6 DEF CloseConnection, Abstract!LetGo
  <2>2. Queued(network') = Queued(network) \cup {"close"} /\ network' # <<>>
    BY <1>2, <2>1 DEF NetworkFunctor
  <2>3. Waits' = Waits
    BY <2>1, <2>2 DEF Waits, Begun
  <2>4. IsShut' = IsShut
    BY <1>1, <2>1 DEF IsShut
  <2>5. UNCHANGED phase
    BY <2>1, <2>3, <2>4, SamePhase
  <2> QED
    BY <1>1, <2>1, <2>5 DEF Abstract!Next, Abstract!Release
<1> QED
  BY <1>3, <1>4, <1>5, <1>6 DEF Owner

\* TryWriteBufferToSocket leaves the connection alone or ends it.
LEMMA TryWriteRefines ==
  ASSUME ConnectionInv, TypeOK', NEW armed, TryWriteBufferToSocket(armed),
         ~Waits, ~Waits', ~IsShut
  PROVE  [Abstract!Next]_(Abstract!vars)
<1>1. UNCHANGED <<peer, helper, owner>>
  BY DEF TryWriteBufferToSocket
<1>2. CASE Sent(armed) \/ Blocked
  <2>1. UNCHANGED <<state, work>>
    BY <1>2 DEF Sent, Blocked
  <2>2. UNCHANGED IsShut
    BY <1>1, <2>1 DEF IsShut
  <2>3. UNCHANGED phase
    BY <1>1, <2>1, <2>2, SamePhase
  <2> QED
    BY <1>1, <2>1, <2>3, SameReports, SameConnection DEF owner
<1>3. CASE SendFails
  <2>1. Abstract!End
    BY <1>1, <1>3, ErrorEnds DEF SendFails
  <2> QED
    BY <2>1 DEF Abstract!Next
<1> QED
  BY <1>2, <1>3 DEF TryWriteBufferToSocket

LEMMA RunFunctorRefines ==
  ASSUME ConnectionInv, TypeOK', RunFunctor
  PROVE  [Abstract!Next]_(Abstract!vars)
<1>0. TypeOK /\ SocketInv /\ ModeInv
  BY DEF ConnectionInv
<1>1. CASE NoSocket
  <2>1. TakeNetwork("connect") /\ UNCHANGED <<helper, owner>> /\ OnErrorEvent
    BY <1>1 DEF NoSocket
  <2>2. helper = "alive" /\ ~IsShut /\ ~Waits'
    BY <1>0, <2>1, TakeNetworkOrder, AfterFunctor
  <2>3. Abstract!End
    BY <2>1, <2>2, ErrorEnds
  <2> QED
    BY <2>3 DEF Abstract!Next
<1>2. CASE ConnectStarts
  <2>1. TakeNetwork("connect") /\ UNCHANGED <<helper, owner, work>>
        /\ state' = "connecting" /\ peer' # "dead"
    BY <1>2 DEF ConnectStarts, AwaitConnection
  <2>2. helper = "alive" /\ ~IsShut /\ ~Waits' /\ Waits
    BY <1>0, <2>1, TakeNetworkOrder, AfterFunctor
  <2>3. ~IsShut'
    BY <2>1, <2>2 DEF IsShut
  <2>4. phase = "idle" /\ phase' = "trying"
    BY <2>1, <2>2, <2>3, PhaseIs DEF Phase
  <2> QED
    BY <2>1, <2>4, SameReports
       DEF Abstract!Next, Abstract!Attempt, Abstract!Become, owner
<1>3. CASE ConnectFails
  <2>1. TakeNetwork("connect") /\ UNCHANGED <<helper, owner>> /\ Tell("closed")
        /\ state' = "connecting" /\ peer' = "dead"
    BY <1>3 DEF ConnectFails, AwaitConnection
  <2>2. helper = "alive" /\ ~IsShut /\ ~Waits' /\ Waits
    BY <1>0, <2>1, TakeNetworkOrder, AfterFunctor
  <2>3. Abstract!Tell("closed") /\ "destroy" \notin Queued(work')
    BY <1>0, <2>1, <2>2, ReportsTold DEF IsShut, Report
  <2>4. ~IsShut'
    BY <2>1, <2>2, <2>3 DEF IsShut
  <2>5. phase = "idle" /\ phase' = "failed"
    BY <2>1, <2>2, <2>4, PhaseIs DEF Phase
  <2> QED
    BY <2>1, <2>3, <2>5 DEF Abstract!Next, Abstract!FailAtOnce, Abstract!Become,
       owner
<1>4. CASE Accept
  <2>1. TakeNetwork("accept") /\ helper' = "alive" /\ UNCHANGED <<owner, work, peer>>
        /\ state' = "connected"
    BY <1>4 DEF Accept
  <2>2. ~IsShut /\ ~Waits' /\ Waits
    BY <2>1, AfterFunctor
  <2>3. peer # "dead"
    <3>1. "accept" \in Queued(network)
      BY <1>0, <2>1, TakeNetworkOrder
    <3> QED
      BY <1>0, <3>1 DEF ModeInv
  <2>4. ~IsShut'
    BY <2>1, <2>2 DEF IsShut
  <2>5. phase = "idle" /\ phase' = "open"
    BY <2>1, <2>2, <2>3, <2>4, PhaseIs DEF Phase
  <2> QED
    BY <2>1, <2>5, SameReports
       DEF Abstract!Next, Abstract!Accepted, Abstract!Become, owner
<1>5. CASE Write
  <2>1. TakeNetwork("write") /\ TryWriteBufferToSocket(writeArmed)
    BY <1>5 DEF Write
  <2>2. helper = "alive" /\ helper' = helper
    BY <1>0, <2>1, TakeNetworkOrder DEF TryWriteBufferToSocket
  <2>3. ~IsShut /\ ~Waits' /\ ~Waits
    BY <2>1, <2>2, AfterFunctor
  <2> QED
    BY <2>1, <2>3, TryWriteRefines
<1>6. CASE Close
  <2>1. TakeNetwork("close") /\ work' = Append(work, "destroy")
        /\ UNCHANGED <<helper, owner>>
    BY <1>6 DEF Close
  <2>2. helper # "unset" /\ ~held
    BY <1>0, <2>1, CloseAfterStart, TakeNetworkOrder
  <2>3. ~IsShut /\ ~Waits' /\ ~Waits
    BY <2>1, <2>2, AfterFunctor
  <2>4. UNCHANGED reports /\ IsShut'
    BY <1>0, <2>1, <2>3, ReportsDestroy DEF IsShut
  <2>5. phase' = "shut"
    BY <2>3, <2>4, PhaseIs DEF Phase
  <2>6. phase \in Abstract!Live
    BY <1>0, <2>3, PhaseIs DEF Phase, Abstract!Live, Abstract!Phase, TypeOK
  <2> QED
    BY <2>1, <2>2, <2>4, <2>5, <2>6
       DEF Abstract!Next, Abstract!Shut, Abstract!Become, owner
<1> QED
  BY <1>1, <1>2, <1>3, <1>4, <1>5, <1>6 DEF RunFunctor

LEMMA CallbackRefines ==
  ASSUME ConnectionInv, TypeOK', Callback
  PROVE  [Abstract!Next]_(Abstract!vars)
<1>0. TypeOK /\ SocketInv /\ (writeArmed \/ readArmed)
  BY DEF ConnectionInv, Callback, OnConnection, WriteEventFires, OnWriteEvent,
     OnReadEvent
<1>1. UNCHANGED <<helper, network, peer, owner>>
  BY DEF Callback, OnConnection, WriteEventFires, OnWriteEvent, OnReadEvent,
     TryWriteBufferToSocket
<1>2. ~Waits /\ ~IsShut /\ ~Waits'
  BY <1>0, <1>1, Midlife DEF Waits, Begun
<1>3. CASE OnConnection
  <2>1. writeArmed /\ writeCall = "OnConnection"
        /\ (ClientConnected \/ ConnectionRefused \/ ConnectTimeout)
    BY <1>3 DEF OnConnection, WriteEventFires
  <2>2. state = "connecting"
    BY <1>0, <2>1 DEF SocketInv, CallbackFits
  <2>3. CASE ClientConnected
    <3>1. Tell("connected") /\ state' = "connected"
      BY <2>3 DEF ClientConnected
    <3>2. Abstract!Tell("connected") /\ "destroy" \notin Queued(work')
      BY <1>0, <1>2, <3>1, ReportsTold DEF IsShut, Report
    <3>3. ~IsShut'
      BY <1>1, <1>2, <3>2 DEF IsShut
    <3>4. \/ phase = "trying" /\ phase' = "open"
          \/ phase = "failed" /\ phase' = "phantom"
      BY <1>1, <1>2, <2>2, <3>1, <3>3, PhaseIs DEF Phase
    <3> QED
      BY <1>1, <3>2, <3>4 DEF Abstract!Next, Abstract!Establish, Abstract!Pretend,
         Abstract!Become, owner
  <2>4. CASE ConnectionRefused \/ ConnectTimeout
    <3>1. OnErrorEvent
      BY <2>4 DEF ConnectionRefused, ConnectTimeout
    <3>2. Abstract!End
      BY <1>1, <1>2, <3>1, ErrorEnds
    <3> QED
      BY <3>2 DEF Abstract!Next
  <2> QED
    BY <2>1, <2>3, <2>4
<1>4. CASE OnWriteEvent
  BY <1>2, <1>4, TryWriteRefines DEF OnWriteEvent
<1>5. CASE OnReadEvent
  <2>1. state = "connected" /\ (Received \/ ReadEnds)
    BY <1>5 DEF OnReadEvent
  <2>2. CASE Received
    <3>1. work' = Append(work, "process") /\ UNCHANGED state /\ peer # "dead"
      BY <2>2 DEF Received
    <3>2. "process" \in WorkFunctor \ {"destroy"} /\ Reported("process") = "data"
      BY DEF WorkFunctor, Holding, Reported
    <3>3. reports' = Append(reports, "data") /\ "destroy" \notin Queued(work')
      BY <1>0, <1>2, <3>1, <3>2, ReportsQueued DEF IsShut
    <3>4. ~IsShut'
      BY <1>1, <1>2, <3>3 DEF IsShut
    <3>5. phase = "open" /\ phase' = "open"
      BY <1>1, <1>2, <2>1, <3>1, <3>4, PhaseIs DEF Phase
    <3> QED
      BY <1>1, <3>3, <3>5 DEF Abstract!Next, Abstract!Data, Abstract!Become, owner
  <2>3. CASE ReadEnds
    <3>1. OnErrorEvent
      BY <2>3 DEF ReadEnds
    <3>2. Abstract!End
      BY <1>1, <1>2, <3>1, ErrorEnds
    <3> QED
      BY <3>2 DEF Abstract!Next
  <2> QED
    BY <2>1, <2>2, <2>3
<1> QED
  BY <1>3, <1>4, <1>5 DEF Callback

LEMMA RunWorkRefines ==
  ASSUME ConnectionInv, RunWork
  PROVE  [Abstract!Next]_(Abstract!vars)
<1>0. TypeOK /\ DestroyLast /\ SocketInv
  BY DEF ConnectionInv
<1>1. CASE (\E r \in Report : RunReport(r)) \/ ProcessPackets \/ BadPayload
  <2>1. PICK f \in {"connected", "closed", "process"} :
          TakeWork(f) /\ UNCHANGED <<helper, network, state, peer, owner>>
    BY <1>1 DEF RunReport, ProcessPackets, BadPayload, Report
  <2>2. /\ reports # <<>> /\ reports' = Tail(reports)
        /\ "destroy" \in Queued(work') <=> "destroy" \in Queued(work)
    BY <1>0, <2>1, ReportsTaken
  <2>3. UNCHANGED phase
    <3>1. (Waits' <=> Waits) /\ (IsShut' <=> IsShut)
      BY <2>1, <2>2 DEF Waits, IsShut, Begun
    <3> QED
      BY <2>1, <3>1, SamePhase
  <2> QED
    BY <2>1, <2>2, <2>3 DEF Abstract!Next, Abstract!Deliver, owner
<1>2. CASE OnDestroySocket
  <2>1. TakeWork("destroy") /\ helper' = "deleted"
        /\ UNCHANGED <<network, state, peer, owner>>
    BY <1>2 DEF OnDestroySocket
  <2>2. UNCHANGED reports /\ "destroy" \in Queued(work)
    BY <1>0, <2>1, ReportsEnd
  <2>3. helper # "unset" /\ network = <<>>
    BY <1>0, <2>2 DEF DestroyLast, SocketInv, ShutInv
  <2>4. phase = "shut" /\ phase' = "shut"
    BY <2>1, <2>2, <2>3 DEF phase, Begun, Queued
  <2> QED
    BY <2>1, <2>2, <2>4, SameConnection DEF owner
<1> QED
  BY <1>1, <1>2 DEF RunWork

LEMMA OutsideRefines ==
  ASSUME ConnectionInv, Outside
  PROVE  [Abstract!Next]_(Abstract!vars)
<1>1. UNCHANGED <<helper, network, state, work, owner>>
      /\ peer # "dead" /\ peer' # "dead"
  BY DEF Outside, PeerAnswers, PeerRefuses, PeerEnds, PeerMoves
<1>2. UNCHANGED phase
  <2>1. (Waits' <=> Waits) /\ (IsShut' <=> IsShut)
    BY <1>1 DEF Waits, IsShut, Begun
  <2> QED
    BY <1>1, <2>1, SamePhase
<1> QED
  BY <1>1, <1>2, SameReports, SameConnection DEF owner

\* What TcpSocketWrapper tells its owner, and when, is what Connection allows:
\* for every socket, however many packets, and whatever the peer does.
THEOREM ConnectionRefinement == Spec => ImplementsConnection
<1>1. Init => Abstract!Init
  <2> SUFFICES ASSUME Init PROVE Abstract!Init
    OBVIOUS
  <2>1. work = <<>> /\ Queued(work) = {} /\ ~Begun
    BY DEF Init, Queued, Begun
  <2>2. reports = <<>>
    BY <2>1 DEF reports
  <2>3. phase = "idle"
    BY <2>1 DEF phase
  <2> QED
    BY <2>2, <2>3 DEF Init, Abstract!Init
<1>2. ConnectionInv /\ ConnectionInv' /\ [Next]_vars =>
        [Abstract!Next]_(Abstract!vars)
  <2> SUFFICES ASSUME ConnectionInv, ConnectionInv', [Next]_vars
               PROVE  [Abstract!Next]_(Abstract!vars)
    OBVIOUS
  <2>1. TypeOK'
    BY DEF ConnectionInv
  <2>2. CASE UNCHANGED vars
    BY <2>2 DEF vars, owner, phase, reports, Begun, Abstract!vars
  <2> QED
    BY <2>1, <2>2, OwnerRefines, RunFunctorRefines, CallbackRefines,
       RunWorkRefines, OutsideRefines DEF Next
<1> QED
  BY <1>1, <1>2, ConnectionInvariance, PTL DEF Spec, ImplementsConnection,
     Abstract!Spec
=============================================================================

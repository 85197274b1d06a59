------------------------------ MODULE TcpSocket ------------------------------
(***************************************************************************)
(* TcpSocketWrapper (tcp_socket_wrapper.cpp): one connection, begun by     *)
(* BeginConnect or accepted, between two different loops.  The network     *)
(* loop runs the functors in `network` and the callbacks of the socket's   *)
(* two libevent events, the worker loop the functors in `work`; one        *)
(* functor or callback is one step of its loop.  The owner (a              *)
(* TcpClientTask or TcpServerTask) lives on the worker loop.               *)
(*                                                                         *)
(* Bytes are counted and not told apart (RingBuffer has their order).  Of  *)
(* the operating system the model has what the peer has done and which     *)
(* results of connect, send and read that allows.                          *)
(***************************************************************************)
EXTENDS Naturals, Sequences

CONSTANTS
  MaxSends,   \* (bound) packets the owner sends
  MaxReads,   \* (bound) reads that find data
  BufferSize  \* capacity of receiver_buffer_

ASSUME SocketAssumption ==
  /\ MaxSends \in Nat /\ MaxReads \in Nat
  /\ BufferSize \in Nat \ {0}

VARIABLES
  mode,       \* how the socket is begun: "connect" or "accept"
  state,      \* state_
  peer,       \* what the other end, or the kernel, has done
  writeCall,  \* the callback socket_write_event_ is set to
  writeArmed, \* socket_write_event_ is added
  readArmed,  \* socket_read_event_ is added
  helper,     \* share_this_helper_
  network,    \* functors of this socket queued on the network loop
  work,       \* functors of this socket queued on the worker loop
  held,       \* the owner has its shared_ptr
  listening,  \* the owner's Signal* callbacks are set
  outgoing,   \* bytes in sender_buffer_
  backlog,    \* bytes in receiver_buffer_
  garbled,    \* (history) an illegal payload length was seen
  told,       \* (history) the reports the owner has had
  sends,      \* (bound) calls of SendData that are left
  reads       \* (bound) reads that will still find data

events == <<writeCall, writeArmed, readArmed>>
owner == <<held, listening>>
bytes == <<outgoing, backlog>>
history == <<garbled, told>>
vars == <<mode, state, peer, events, helper, network, work, owner, bytes,
          history, sends, reads>>

\* The functors that are bound to shared_from_this().
NetworkFunctor == {"connect", "accept", "write", "close"}
Report == {"connected", "closed"}
WorkFunctor == Report \cup {"process", "destroy"}
Holding == {"process", "destroy"}

\* "refused" leaves an error for SO_ERROR, "dead" is a socket whose connect()
\* failed in the call, which polls as writable and readable without one.
Peer == {"none", "trying", "refused", "dead", "up", "ended"}

Queued(queue) == {queue[i] : i \in DOMAIN queue}
Begun == helper # "unset" \/ network # <<>>

\* Somebody has a shared_ptr to the socket, so it is not destructed.
Alive ==
  \/ held
  \/ helper = "alive"
  \/ network # <<>>
  \/ Queued(work) \cap Holding # {}

Init ==
  /\ mode \in {"connect", "accept"}
  /\ state = "closed" /\ peer = "none"
  /\ writeCall = "none" /\ writeArmed = FALSE /\ readArmed = FALSE
  /\ helper = "unset" /\ network = <<>> /\ work = <<>>
  /\ held = TRUE /\ listening = (mode = "connect")
  /\ outgoing = 0 /\ backlog = 0 /\ garbled = FALSE /\ told = {}
  /\ sends = MaxSends /\ reads = MaxReads

-----------------------------------------------------------------------------
(* Calls of the owner.                                                     *)

BeginConnect ==
  /\ mode = "connect" /\ held /\ ~Begun
  /\ helper' = "alive"
  /\ network' = Append(network, "connect")
  /\ UNCHANGED <<mode, state, peer, events, work, owner, bytes, history,
                 sends, reads>>

\* BeginProcess(client_fd), called by AcceptConnection.
BeginProcess ==
  /\ mode = "accept" /\ held /\ ~Begun
  /\ network' = Append(network, "accept")
  /\ peer' = "up"
  /\ UNCHANGED <<mode, state, events, helper, work, owner, bytes, history,
                 sends, reads>>

\* The owner of an accepted socket sets its signals when it has got it.
SetSignals ==
  /\ mode = "accept" /\ held /\ Begun
  /\ listening' = TRUE
  /\ UNCHANGED <<mode, state, peer, events, helper, network, work, held,
                 bytes, history, sends, reads>>

\* SendData or SendDataWithHead, after the test of GetState() in the tasks.
SendData ==
  /\ held /\ state = "connected" /\ sends > 0
  /\ sends' = sends - 1
  /\ outgoing' = outgoing + 1
  /\ network' = Append(network, "write")
  /\ UNCHANGED <<mode, state, peer, events, helper, work, owner, backlog,
                 history, reads>>

\* CloseConnection that destroys the helper without asking the network loop.
CloseFromWorker ==
  /\ held /\ Begun
  /\ held' = FALSE
  /\ listening' \in {listening, FALSE}
  /\ work' = Append(work, "destroy")
  /\ UNCHANGED <<mode, state, peer, events, helper, network, bytes, history,
                 sends, reads>>

\* CloseConnection, and the owner drops its pointer; StopProcess takes its
\* callbacks back first, TryReconnectServerInner does not.
CloseConnection ==
  /\ held /\ Begun
  /\ held' = FALSE
  /\ listening' \in {listening, FALSE}
  /\ network' = Append(network, "close")
  /\ UNCHANGED <<mode, state, peer, events, helper, work, bytes, history,
                 sends, reads>>

-----------------------------------------------------------------------------
(* The network loop: functors.                                             *)

TakeNetwork(f) ==
  /\ network # <<>> /\ Head(network) = f
  /\ network' = Tail(network)

\* RunInLoop(std::bind(Signal...)) on the worker loop, if the signal is set.
Tell(r) == work' = IF listening THEN Append(work, r) ELSE work

\* OnErrorEvent that leaves the read event added.
OnErrorEventReading ==
  /\ writeArmed' = FALSE /\ UNCHANGED readArmed
  /\ state' = "closed"
  /\ Tell("closed")

\* OnErrorEvent that reports only a connection that was established.
OnErrorEventConnected ==
  /\ writeArmed' = FALSE /\ readArmed' = FALSE
  /\ state' = "closed"
  /\ IF state = "connected" THEN Tell("closed") ELSE UNCHANGED work

OnErrorEvent ==
  /\ writeArmed' = FALSE /\ readArmed' = FALSE
  /\ state' = "closed"
  /\ Tell("closed")

\* ConnectServerInNetworkLoop when socket() fails.
NoSocket ==
  /\ TakeNetwork("connect")
  /\ OnErrorEvent
  /\ UNCHANGED <<mode, peer, writeCall, helper, owner, bytes, history, sends,
                 reads>>

\* The event is added, and the timeout of 5 seconds with it.
AwaitConnection ==
  /\ writeCall' = "OnConnection"
  /\ state' = "connecting"
  /\ writeArmed' = TRUE

\* connect() returns 0 or EINPROGRESS.  Apple's builds, which report an error
\* and go on if setsockopt() fails before it, are not modelled.
ConnectStarts ==
  /\ TakeNetwork("connect")
  /\ peer' \in {"trying", "up"}
  /\ AwaitConnection
  /\ UNCHANGED <<mode, readArmed, helper, work, owner, bytes, history, sends,
                 reads>>

\* connect() fails: after OnErrorEvent the code goes on as if it had not.
ConnectFails ==
  /\ TakeNetwork("connect")
  /\ peer' = "dead"
  /\ readArmed' = FALSE /\ Tell("closed")
  /\ AwaitConnection
  /\ UNCHANGED <<mode, helper, owner, bytes, history, sends, reads>>

\* BeginProcessInNetworkLoop.
Accept ==
  /\ TakeNetwork("accept")
  /\ state' = "connected"
  /\ helper' = "alive"
  /\ readArmed' = TRUE /\ writeCall' = "OnWriteEvent"
  /\ UNCHANGED <<mode, peer, writeArmed, work, owner, bytes, history, sends,
                 reads>>

Sent(armed) ==
  /\ outgoing = 0 \/ peer \in {"up", "ended"}
  /\ outgoing' = 0
  /\ writeArmed' = armed
  /\ UNCHANGED <<state, readArmed, work>>

\* TryWriteBufferToSocket that gives up when the kernel's buffer is full.
BlockedForgotten ==
  /\ outgoing > 0 /\ peer \in {"up", "ended"}
  /\ outgoing' \in 1..outgoing
  /\ UNCHANGED <<state, writeArmed, readArmed, work>>

Blocked ==
  /\ outgoing > 0 /\ peer \in {"up", "ended"}
  /\ outgoing' \in 1..outgoing
  /\ writeArmed' = TRUE
  /\ UNCHANGED <<state, readArmed, work>>

SendFails ==
  /\ outgoing > 0 /\ peer \in {"ended", "dead"}
  /\ outgoing' \in 1..outgoing
  /\ OnErrorEvent

\* The loop around ::send(); `armed` says whether the write event is added.
TryWriteBufferToSocket(armed) ==
  /\ Sent(armed) \/ Blocked \/ SendFails
  /\ UNCHANGED <<mode, peer, writeCall, helper, owner, backlog, history,
                 sends, reads>>

Write == TakeNetwork("write") /\ TryWriteBufferToSocket(writeArmed)

\* CloseConnectionInNetworkLoop that never queues OnDestroySocket.
CloseWithoutDestroy ==
  /\ TakeNetwork("close")
  /\ state' = "closed"
  /\ writeArmed' = FALSE /\ readArmed' = FALSE
  /\ UNCHANGED <<mode, peer, writeCall, helper, work, owner, bytes, history,
                 sends, reads>>

\* CloseConnectionInNetworkLoop.
Close ==
  /\ TakeNetwork("close")
  /\ state' = "closed"
  /\ writeArmed' = FALSE /\ readArmed' = FALSE
  /\ work' = Append(work, "destroy")
  /\ UNCHANGED <<mode, peer, writeCall, helper, owner, bytes, history, sends,
                 reads>>

RunFunctor ==
  NoSocket \/ ConnectStarts \/ ConnectFails \/ Accept \/ Write \/ Close

-----------------------------------------------------------------------------
(* The network loop: callbacks of the two events.                          *)

\* The write event is not persistent: libevent removes it when it fires.
WriteEventFires(call) ==
  /\ Alive /\ writeArmed /\ writeCall = call
  /\ UNCHANGED <<mode, peer, helper, network, owner, bytes, history, sends,
                 reads>>

\* EV_WRITE without an error: ClientConnected.
ClientConnected ==
  /\ peer \in {"up", "ended", "dead"}
  /\ readArmed' = TRUE
  /\ writeCall' = "OnWriteEvent" /\ writeArmed' = FALSE
  /\ state' = "connected"
  /\ Tell("connected")

\* EV_WRITE with an error in SO_ERROR.
ConnectionRefused ==
  /\ peer \in {"refused", "ended"}
  /\ OnErrorEvent
  /\ UNCHANGED writeCall

\* EV_TIMEOUT, which libevent never delivers together with EV_WRITE.
ConnectTimeout == OnErrorEvent /\ UNCHANGED writeCall

\* OnConnection without the timeout.
OnConnectionUntimed ==
  /\ WriteEventFires("OnConnection")
  /\ ClientConnected \/ ConnectionRefused

OnConnection ==
  /\ WriteEventFires("OnConnection")
  /\ ClientConnected \/ ConnectionRefused \/ ConnectTimeout

OnWriteEvent ==
  /\ Alive /\ writeArmed /\ writeCall = "OnWriteEvent"
  /\ TryWriteBufferToSocket(FALSE)
  /\ UNCHANGED network

Room == BufferSize - backlog

\* A read of one byte more than there is room for.
ReceivedTooMuch ==
  /\ reads > 0 /\ peer \in {"up", "ended"}
  /\ \E n \in 1..(Room + 1) : backlog' = backlog + n
  /\ reads' = reads - 1
  /\ work' = Append(work, "process")
  /\ UNCHANGED <<state, writeArmed, readArmed>>

\* A read event without EV_PERSIST.
ReceivedOnce ==
  /\ reads > 0 /\ peer \in {"up", "ended"}
  /\ \E n \in 1..Room : backlog' = backlog + n
  /\ reads' = reads - 1
  /\ work' = Append(work, "process")
  /\ readArmed' = FALSE
  /\ UNCHANGED <<state, writeArmed>>

\* ::read() returns bytes.
Received ==
  /\ reads > 0 /\ peer \in {"up", "ended"}
  /\ \E n \in 1..Room : backlog' = backlog + n
  /\ reads' = reads - 1
  /\ work' = Append(work, "process")
  /\ UNCHANGED <<state, writeArmed, readArmed>>

\* ::read() returns 0, also when it was asked for 0 bytes, or an error.
ReadEnds ==
  /\ \/ peer \in {"ended", "dead"}
     \/ reads > 0 /\ Room = 0
  /\ OnErrorEvent
  /\ UNCHANGED <<backlog, reads>>

\* OnReadEvent does nothing unless the state is connected.
OnReadEvent ==
  /\ Alive /\ readArmed /\ state = "connected"
  /\ Received \/ ReadEnds
  /\ UNCHANGED <<mode, peer, writeCall, helper, network, owner, outgoing,
                 history, sends>>

-----------------------------------------------------------------------------
(* The worker loop.                                                        *)

TakeWork(f) ==
  /\ work # <<>> /\ Head(work) = f
  /\ work' = Tail(work)

\* The functor bound to SignalOnConnected or SignalOnCloseEvent.
RunReport(r) ==
  /\ TakeWork(r)
  /\ told' = told \cup {r}
  /\ UNCHANGED <<mode, state, peer, events, helper, network, owner, bytes,
                 garbled, sends, reads>>

\* TryProcessBufferedDataInWorkLoop consumes the packets that are complete.
ProcessPackets ==
  /\ TakeWork("process")
  /\ ~garbled
  /\ backlog' \in 0..backlog
  /\ UNCHANGED <<mode, state, peer, events, helper, network, owner, outgoing,
                 history, sends, reads>>

\* It meets an illegal payload length and stays in front of it.
BadPayload ==
  /\ TakeWork("process")
  /\ garbled' = TRUE
  /\ backlog' \in IF garbled THEN {backlog} ELSE 1..backlog
  /\ writeArmed' = FALSE /\ readArmed' = FALSE
  /\ told' = IF listening THEN told \cup {"closed"} ELSE told
  /\ UNCHANGED <<mode, state, peer, writeCall, helper, network, owner,
                 outgoing, sends, reads>>

OnDestroySocket ==
  /\ TakeWork("destroy")
  /\ helper' = "deleted"
  /\ UNCHANGED <<mode, state, peer, events, network, owner, bytes, history,
                 sends, reads>>

RunWork ==
  \/ \E r \in Report : RunReport(r)
  \/ ProcessPackets \/ BadPayload \/ OnDestroySocket

-----------------------------------------------------------------------------
(* The other end.                                                          *)

PeerMoves(from, to) ==
  /\ peer = from /\ peer' = to
  /\ UNCHANGED <<mode, state, events, helper, network, work, owner, bytes,
                 history, sends, reads>>

PeerAnswers == PeerMoves("trying", "up")
PeerRefuses == PeerMoves("trying", "refused")
PeerEnds == PeerMoves("up", "ended")

Owner == BeginConnect \/ BeginProcess \/ SetSignals \/ SendData \/ CloseConnection
Callback == OnConnection \/ OnWriteEvent \/ OnReadEvent
Outside == PeerAnswers \/ PeerRefuses \/ PeerEnds

Next == Owner \/ RunFunctor \/ Callback \/ RunWork \/ Outside

Spec == Init /\ [][Next]_vars

\* Both loops run what is queued and what is ready.  Nothing is assumed of
\* the owner, of the peer, or of when a full send buffer drains.
FairSpec ==
  /\ Spec
  /\ WF_vars(RunFunctor)
  /\ WF_vars(OnConnection)
  /\ WF_vars(OnReadEvent)
  /\ WF_vars(RunWork)

-----------------------------------------------------------------------------
(* Properties.                                                             *)

TypeOK ==
  /\ mode \in {"connect", "accept"}
  /\ state \in {"closed", "connecting", "connected"}
  /\ peer \in Peer
  /\ writeCall \in {"none", "OnConnection", "OnWriteEvent"}
  /\ writeArmed \in BOOLEAN /\ readArmed \in BOOLEAN
  /\ helper \in {"unset", "alive", "deleted"}
  /\ network \in Seq(NetworkFunctor) /\ work \in Seq(WorkFunctor)
  /\ held \in BOOLEAN /\ listening \in BOOLEAN
  /\ outgoing \in 0..(MaxSends - sends) /\ backlog \in 0..BufferSize
  /\ garbled \in BOOLEAN /\ told \subseteq Report
  /\ sends \in 0..MaxSends /\ reads \in 0..MaxReads

\* No callback of libevent gets a deleted CShareThisHelper, and the destructor,
\* which may run on the worker loop, never has to remove an event: an event
\* is only added while the helper keeps the socket alive.
HelperAlive == writeArmed \/ readArmed => helper = "alive"

\* Bytes accepted by SendData are never forgotten: as long as the connection
\* is up a write is queued, or the write event waits for OnWriteEvent.
SendProgress ==
  outgoing > 0 /\ state = "connected" /\ ~garbled =>
    \/ "write" \in Queued(network)
    \/ writeArmed /\ writeCall = "OnWriteEvent"

\* The persistent read event is only added while OnReadEvent would read;
\* otherwise the loop would call it again and again for nothing.
NoSpin == readArmed => state = "connected"

\* A socket whose owner has closed it is destructed in the end.
Freed == ~held ~> ~Alive

\* When the peer ends a connection that is being read, an owner that listens
\* hears of it.  (An accepted socket can stop reading, at an illegal payload
\* length, before its owner listens; that owner hears nothing.)
CloseReported ==
  readArmed /\ peer = "ended" /\ listening ~> "closed" \in told \/ ~held

\* An attempt to connect is answered: the owner hears of its success or end.
ConnectAnswered == "connect" \in Queued(network) ~> told # {} \/ ~held

(* What makes HelperAlive, SendProgress and NoSpin inductive: the order of *)
(* the functors in the network loop's queue.                               *)

\* The connection has not been begun in the network loop.
Unbegun == state = "closed" /\ outgoing = 0 /\ ~writeArmed /\ ~readArmed

\* The socket is begun once, before all else, and closed last; no write is
\* queued before the helper exists.
QueueOrder ==
  \A i \in DOMAIN network :
    /\ network[i] = "connect" => i = 1 /\ Unbegun /\ helper = "alive"
    /\ network[i] = "accept" => i = 1 /\ Unbegun /\ helper = "unset"
    /\ network[i] = "write" => helper = "alive"
    /\ network[i] = "close" => i = Len(network) /\ ~held

\* The write event has the callback that fits the state.
CallbackFits ==
  /\ state = "connected" \/ outgoing > 0 => writeCall = "OnWriteEvent"
  /\ writeArmed /\ writeCall = "OnConnection" => state = "connecting"

\* From CloseConnectionInNetworkLoop on nothing touches the socket again.
ShutInv ==
  "destroy" \in Queued(work) \/ helper = "deleted" =>
    /\ ~held /\ network = <<>>
    /\ state = "closed" /\ ~writeArmed /\ ~readArmed

\* The life of the helper: set when the socket is begun, deleted after it is
\* shut, and in between the only thing the callbacks rely on.
SocketInv ==
  /\ HelperAlive /\ SendProgress /\ NoSpin
  /\ helper = "unset" => Unbegun
  /\ QueueOrder /\ CallbackFits /\ ShutInv

(* What the phases of Connection, below, need besides.                     *)

\* An accepted socket starts in the network loop with BeginProcess, and its
\* connect() cannot have failed.
ModeInv ==
  /\ "connect" \in Queued(network) => mode = "connect"
  /\ "accept" \in Queued(network) => mode = "accept"
  /\ helper = "unset" /\ network # <<>> => network[1] = "accept"
  /\ mode = "accept" => peer # "dead"

\* Nothing is queued on the worker loop after OnDestroySocket.
DestroyLast ==
  /\ \A i \in DOMAIN work : work[i] = "destroy" => i = Len(work)
  /\ "destroy" \in Queued(work) => helper # "unset"

phase ==
  IF ~Begun \/ Queued(network) \cap {"connect", "accept"} # {} THEN "idle"
  ELSE IF helper = "deleted" \/ "destroy" \in Queued(work) THEN "shut"
  ELSE CASE state = "connecting" -> IF peer = "dead" THEN "failed" ELSE "trying"
         [] state = "connected" -> IF peer = "dead" THEN "phantom" ELSE "open"
         [] state = "closed" -> "over"

\* What the owner will hear, in the abstract specification's words: all but
\* OnDestroySocket, which is queued last.
reports ==
  LET last == IF "destroy" \in Queued(work) THEN Len(work) - 1 ELSE Len(work)
  IN  [i \in 1..last |-> IF work[i] = "process" THEN "data" ELSE work[i]]

Abstract == INSTANCE Connection

\* The socket keeps what Connection promises to its owner.
ImplementsConnection == Abstract!Spec
=============================================================================

---------------------------- MODULE PacketStream ----------------------------
(***************************************************************************)
(* Packets on a byte stream (tcp_socket_wrapper.cpp): SendData puts the    *)
(* payload's length in front, the peer's network loop reads the bytes into *)
(* receiver_buffer_, and its worker loop cuts packets out of that buffer   *)
(* while more bytes come in.  The buffer is a ring: its content is `ring`, *)
(* beginning at slot `start` (RingBuffer has the two counters), and a      *)
(* packet or its head may go around the end of the array.                  *)
(*                                                                         *)
(* A byte has Base values, 256 in the code, and the two bytes of a head    *)
(* count to Base^2 - 1; the bytes of one payload are equal.  `stream` is   *)
(* what is in the sender's buffer and in the network, in order.            *)
(***************************************************************************)
EXTENDS Integers, Sequences

CONSTANTS
  Base,         \* the values of a byte
  Capacity,     \* slots of receiver_buffer_
  SendCapacity, \* (bound) bytes that are sent and not received
  MaxFunctors   \* (bound) functors in the worker loop's queue

\* Both buffers hold more than one packet of any length.
ASSUME StreamAssumption ==
  /\ Base \in Nat /\ Base > 1
  /\ Capacity \in Nat /\ Capacity > Base * Base + 1
  /\ SendCapacity \in Nat /\ SendCapacity > Base * Base + 2
  /\ MaxFunctors \in Nat \ {0}

VARIABLES
  stream,     \* bytes on their way to the receiver
  ring,       \* bytes in receiver_buffer_
  start,      \* the slot of the first of them
  open,       \* the receiver's read event is added
  network,    \* what the receiver's network loop does next
  functors,   \* TryProcessBufferedDataInWorkLoop in the worker loop's queue
  worker,     \* what the worker loop does next
  available,  \* available_read
  series,     \* available_series_read
  owed,       \* bytes to consume when SignalReadPacket returns
  out,        \* the packet SignalReadPacket is called with
  garbled,    \* the worker loop has met an illegal length
  pending,    \* (history) packets accepted and not delivered
  intact      \* (history) only packets were accepted

receiver == <<ring, start, open, network, functors>>
process == <<worker, available, series, owed, out, garbled>>
vars == <<stream, receiver, process, pending, intact>>

Byte == 0..(Base - 1)
HeadLen == 2
MaxPayload == Base * Base - 1

\* A slot whose content is not known.
Junk == Base

HeadOf(payload) == <<payload % Base, payload \div Base>>

\* Lengths that two bytes, read as a uint16_t, may stand for.
Readings(byte) == IF byte = Junk THEN Byte ELSE {byte}
Lengths(head) ==
  {low + Base * high : low \in Readings(head[1]), high \in Readings(head[2])}

\* The len bytes that a caller of SendData has with b in every place, once
\* SendData has written len - 2, as a uint16_t, over the first two.
Framed(len, b) ==
  [k \in 1..len |->
    IF k <= HeadLen THEN HeadOf((len - HeadLen) % (Base * Base))[k] ELSE b]

Message == {Framed(len, b) : len \in (HeadLen + 1)..(HeadLen + MaxPayload),
                             b \in Byte}

\* n bytes at one address, beginning with the content's byte after `skip`.
Run(skip, n) ==
  [k \in 1..n |->
    IF ((start + skip) % Capacity) + k <= Capacity /\ skip + k <= Len(ring)
    THEN ring[skip + k] ELSE Junk]

\* The byte at DataHead().
DataHead ==
  LET k == ((Capacity - start) % Capacity) + 1
  IN  IF k <= Len(ring) THEN ring[k] ELSE Junk

Smaller(a, b) == IF a <= b THEN a ELSE b
AvailableSeriesRead == Smaller(Len(ring), Capacity - start)
AvailableSeriesWrite ==
  Smaller(Capacity - Len(ring), Capacity - ((start + Len(ring)) % Capacity))

Consume(n) ==
  /\ ring' = SubSeq(ring, n + 1, Len(ring))
  /\ start' = (start + n) % Capacity

Init ==
  /\ stream = <<>> /\ ring = <<>> /\ start = 0 /\ open = TRUE
  /\ network = "read" /\ functors = 0
  /\ worker = "idle" /\ available = 0 /\ series = 0 /\ owed = 0 /\ out = <<>>
  /\ garbled = FALSE /\ pending = <<>> /\ intact = TRUE

-----------------------------------------------------------------------------
(* The sender.                                                             *)

\* (bound) Nothing is sent to a socket that does not read, nor after the first
\* bytes that are no packet: nothing is promised of it.
Accept(bytes) ==
  /\ open /\ intact
  /\ stream' = stream \o bytes
  /\ pending' = IF bytes \in Message THEN Append(pending, bytes) ELSE pending
  /\ intact' = (bytes \in Message \/ bytes = <<>>)
  /\ UNCHANGED <<receiver, process>>

\* SendData that accepts; a caller that forgets the head passes less than 2.
SendData ==
  \E len \in 0..(MaxPayload + HeadLen), b \in Byte :
    /\ Len(stream) + len + HeadLen <= SendCapacity
    /\ Accept(Framed(len, b))

\* SendDataWithHead, whose caller has put the length in front; a packet that
\* does not fit is dropped, and nothing changes.
SendDataWithHead ==
  \E m \in Message :
    /\ Len(stream) + Len(m) <= SendCapacity
    /\ Accept(m)

-----------------------------------------------------------------------------
(* The receiver's network loop.                                            *)

Unread == UNCHANGED <<start, process, pending, intact>>

\* TryReadDataFromSocket that wakes the worker only when its buffer was empty.
ReadQuietly ==
  /\ network = "read" /\ open
  /\ \E n \in 1..Smaller(AvailableSeriesWrite, Len(stream)) :
       /\ ring' = ring \o SubSeq(stream, 1, n)
       /\ stream' = SubSeq(stream, n + 1, Len(stream))
  /\ network' = IF ring = <<>> THEN "queue" ELSE "read"
  /\ UNCHANGED <<open, functors>>
  /\ Unread

\* TryReadDataFromSocket: ::read() into the free slots of one run.
Read ==
  /\ network = "read" /\ open
  /\ \E n \in 1..Smaller(AvailableSeriesWrite, Len(stream)) :
       /\ ring' = ring \o SubSeq(stream, 1, n)
       /\ stream' = SubSeq(stream, n + 1, Len(stream))
  /\ network' = "queue"
  /\ UNCHANGED <<open, functors>>
  /\ Unread

\* The functor is queued, once the bytes are published.
QueueProcess ==
  /\ network = "queue" /\ functors < MaxFunctors
  /\ functors' = functors + 1
  /\ network' = "read"
  /\ UNCHANGED <<stream, ring, open>>
  /\ Unread

\* ::read() fails, or returns 0 because the peer is gone or the buffer full.
ReadEnds ==
  /\ network = "read" /\ open
  /\ open' = FALSE /\ stream' = <<>>
  /\ UNCHANGED <<ring, network, functors>>
  /\ Unread

-----------------------------------------------------------------------------
(* The worker loop: TryProcessBufferedDataInWorkLoop.                      *)

Unsent == UNCHANGED <<stream, open, network, intact>>

RunFunctor ==
  /\ worker = "idle" /\ functors > 0
  /\ functors' = functors - 1
  /\ worker' = "load"
  /\ UNCHANGED <<ring, start, available, series, owed, out, garbled, pending>>
  /\ Unsent

\* The two loads in the opposite order.
LoadSeriesFirst ==
  /\ \/ /\ worker = "load" /\ worker' = "series"
        /\ series' = AvailableSeriesRead /\ UNCHANGED available
     \/ /\ worker = "series" /\ worker' = "decide"
        /\ available' = Len(ring) /\ UNCHANGED series
  /\ UNCHANGED <<ring, start, functors, owed, out, garbled, pending>>
  /\ Unsent

\* First AvailableRead, then AvailableSeriesRead, which may see more.
Load ==
  /\ \/ /\ worker = "load" /\ worker' = "series"
        /\ available' = Len(ring) /\ UNCHANGED series
     \/ /\ worker = "series" /\ worker' = "decide"
        /\ series' = AvailableSeriesRead /\ UNCHANGED available
  /\ UNCHANGED <<ring, start, functors, owed, out, garbled, pending>>
  /\ Unsent

\* The head, if it is there.
Head2 == IF series >= HeadLen THEN Run(0, HeadLen) ELSE <<Run(0, 1)[1], DataHead>>

Leave ==
  /\ worker' = "idle" /\ available' = 0 /\ series' = 0
  /\ UNCHANGED <<ring, start, functors, owed, out, pending>>
  /\ Unsent

NoHead == worker = "decide" /\ available < HeadLen /\ Leave /\ UNCHANGED garbled

IllegalLength ==
  /\ worker = "decide" /\ available >= HeadLen
  /\ 0 \in Lengths(Head2)
  /\ garbled' = TRUE
  /\ Leave

Incomplete ==
  /\ worker = "decide" /\ available >= HeadLen
  /\ \E payload \in Lengths(Head2) \ {0} : available < payload + HeadLen
  /\ Leave
  /\ UNCHANGED garbled

\* SignalReadPacket is called with the bytes where they are, which are consumed
\* when it returns, or with a copy of two pieces that are consumed before.
Handle(msg_len) ==
  IF series >= msg_len
  THEN /\ out' = Run(0, msg_len) /\ owed' = msg_len
       /\ UNCHANGED <<ring, start>>
  ELSE /\ out' = Run(0, series) \o Run(series, msg_len - series) /\ owed' = 0
       /\ Consume(msg_len)

Deliver ==
  /\ worker = "decide" /\ available >= HeadLen
  /\ \E payload \in Lengths(Head2) \ {0} :
       /\ available >= payload + HeadLen
       /\ Handle(payload + HeadLen)
  /\ pending' = IF pending = <<>> THEN <<>> ELSE Tail(pending)
  /\ worker' = "handler" /\ available' = 0 /\ series' = 0
  /\ UNCHANGED <<functors, garbled>>
  /\ Unsent

Return ==
  /\ worker = "handler"
  /\ Consume(owed)
  /\ owed' = 0 /\ out' = <<>>
  /\ worker' = "load"
  /\ UNCHANGED <<functors, available, series, garbled, pending>>
  /\ Unsent

Sender == SendData \/ SendDataWithHead
Network == Read \/ QueueProcess \/ ReadEnds
Process ==
  \/ RunFunctor \/ Load \/ NoHead \/ IllegalLength \/ Incomplete
  \/ Deliver \/ Return

Next == Sender \/ Network \/ Process

\* The network reports what can be read, and both loops run.
Spec ==
  /\ Init /\ [][Next]_vars
  /\ WF_vars(Read) /\ WF_vars(QueueProcess) /\ WF_vars(Process)

-----------------------------------------------------------------------------
(* Properties.                                                             *)

\* A whole packet, or an illegal length, is at the front of the buffer.
Ready ==
  Len(ring) >= HeadLen /\
    LET payload == ring[1] + Base * ring[2]
    IN  payload = 0 \/ Len(ring) >= payload + HeadLen

\* TryReadDataFromSocket queues a functor for every read, and a functor stops
\* only when it saw no whole packet: a packet that is complete never waits
\* for the next one to arrive.
NoStrandedPacket ==
  Ready /\ ~garbled =>
    \/ functors > 0 \/ network = "queue"
    \/ worker \in {"load", "handler"}
    \/ worker \in {"series", "decide"} /\ available >= HeadLen /\
         LET payload == ring[1] + Base * ring[2]
         IN  payload = 0 \/ available >= payload + HeadLen

Abstract == INSTANCE PacketQueue WITH packets <- pending, refused <- garbled

\* SendData and TryProcessBufferedDataInWorkLoop: what was sent as a packet
\* arrives as that packet, whatever the reads and wherever the ring wraps.
ImplementsPacketQueue == Abstract!Spec
=============================================================================

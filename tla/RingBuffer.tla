----------------------------- MODULE RingBuffer -----------------------------
(***************************************************************************)
(* RingBuffer (socket_buffer.hpp:279-306, socket_buffer.cpp:311-436): the  *)
(* lock-free byte buffer between two threads of a TcpSocketWrapper.  Each  *)
(* wrapper owns two, a sender_buffer_ that a user thread fills through     *)
(* SendData and SendDataWithHead and the network thread empties with       *)
(* ::send, and a receiver_buffer_ that the network thread fills with       *)
(* ::read and the worker thread empties.  A buffer has one writing and one *)
(* reading thread; this module is both of them over one buffer.            *)
(*                                                                         *)
(* A step of a thread ends where it has read or written what it shares     *)
(* with the other: it loads the other thread's counter, touches slots of   *)
(* data_arr_, or advances its own counter.  The two counters are uint32_t  *)
(* and never reset, so they wrap: all their arithmetic is modulo WordSize. *)
(***************************************************************************)
EXTENDS Integers, Sequences

CONSTANTS Byte,      \* the values of a byte
          Capacity,  \* capacity_, 16 MiB in TcpSocketWrapper
          WordSize,  \* 2^32 in the code: one more than the largest counter
          MaxRun     \* the longest run of bytes of one SendData call

(***************************************************************************)
(* "& max_index_" is the remainder by Capacity because Capacity is a power *)
(* of two; both are powers of two, so Capacity divides WordSize, and a     *)
(* counter can tell a full buffer from an empty one.                       *)
(***************************************************************************)
ASSUME RingAssumption ==
  /\ Capacity \in Nat \ {0}
  /\ WordSize \in Nat /\ WordSize > Capacity
  /\ WordSize % Capacity = 0
  /\ MaxRun \in Nat \ {0}

VARIABLES
  data_arr,     \* data_arr_, the slots
  read_count,   \* read_count_, bytes read so far, modulo WordSize
  write_count,  \* write_count_, bytes written so far, modulo WordSize
  wpc,          \* what the writing thread does next
  wbuf,         \* the bytes the writing thread is putting into the buffer
  wspan,        \* how many slots the writing thread may touch now
  checked,      \* SendData has compared the run with AvailableWrite
  rpc,          \* what the reading thread does next
  rbuf,         \* the bytes the reading thread has taken from the slots
  rspan         \* how many slots the reading thread may touch now

writerVars == <<wpc, wbuf, wspan, checked>>
readerVars == <<rpc, rbuf, rspan>>
vars == <<data_arr, read_count, write_count, writerVars, readerVars>>

-----------------------------------------------------------------------------
(* Counters and the const member functions.                                *)

Slot == 0 .. Capacity - 1
Word == 0 .. WordSize - 1

\* A counter that is wider than the other one.
AdvanceUnwrapped(count, len) == count + len

\* uint32_t addition to a counter.
Advance(count, len) == (count + len) % WordSize

\* count & max_index_
Index(count) == count % Capacity

\* write_count_ - read_count_ in uint32_t
AvailableRead == (write_count - read_count) % WordSize

AvailableWrite == Capacity - AvailableRead

\* The readable bytes that lie in one piece from the read index on.
AvailableSeriesRead ==
  IF Index(read_count) + AvailableRead <= Capacity
    THEN AvailableRead
    ELSE Capacity - Index(read_count)

\* All slots up to the end of data_arr_, also those not read yet.
AvailableSeriesWriteToEnd == Capacity - Index(write_count)

\* The writable slots that lie in one piece from the write index on.
AvailableSeriesWrite ==
  IF Index(write_count) + AvailableWrite > Capacity
    THEN Capacity - Index(write_count)
    ELSE AvailableWrite

\* The slot of the i-th byte of a run that starts at the write index, and the
\* place a slot has in such a run: runs continue around the end of data_arr_.
WriteSlot(i) == Index(Index(write_count) + i - 1)
PlaceInRun(s) == Index(s - Index(write_count)) + 1

\* WriteContent with a second memcpy that starts at content again.
StoredTwice(run) ==
  LET tail_left == Capacity - Index(write_count)
  IN  [s \in Slot |-> CASE s >= Index(write_count) /\ PlaceInRun(s) <= Len(run)
                              -> run[PlaceInRun(s)]
                        [] s < Index(write_count) /\ PlaceInRun(s) <= Len(run)
                              -> run[PlaceInRun(s) - tail_left]
                        [] OTHER -> data_arr[s]]

\* The slots with run stored from the write index on: WriteContent's one or
\* two memcpy calls, and ::read at CurrentSeriesWriteHead.
Stored(run) ==
  [s \in Slot |-> IF PlaceInRun(s) <= Len(run)
                    THEN run[PlaceInRun(s)]
                    ELSE data_arr[s]]

Runs(n) == UNION {[1..k -> Byte] : k \in 1..n}

-----------------------------------------------------------------------------
Init ==
  /\ data_arr \in [Slot -> Byte]      \* new char[capacity]: indeterminate
  /\ read_count = 0
  /\ write_count = 0
  /\ wpc = "idle" /\ wbuf = <<>> /\ wspan = 0 /\ checked = FALSE
  /\ rpc = "idle" /\ rbuf = <<>> /\ rspan = 0

-----------------------------------------------------------------------------
(* The writing thread.                                                     *)

\* SendData with a guard that forgets the packet's length.
SendDataHeadOnly(run) ==
  /\ wpc = "idle"
  /\ AvailableWrite >= 2
  /\ wpc' = "write" /\ wbuf' = run /\ checked' = TRUE
  /\ UNCHANGED <<data_arr, read_count, write_count, wspan, readerVars>>

\* TcpSocketWrapper::SendData past its guard; a run that fails the guard is
\* refused there and nothing changes.
SendData(run) ==
  /\ wpc = "idle"
  /\ AvailableWrite >= Len(run) + 2
  /\ wpc' = "write" /\ wbuf' = run /\ checked' = TRUE
  /\ UNCHANGED <<data_arr, read_count, write_count, wspan, readerVars>>

\* TcpSocketWrapper::SendDataWithHead: WriteContent with no guard before it.
SendDataWithHead(run) ==
  /\ wpc = "idle"
  /\ wpc' = "write" /\ wbuf' = run /\ checked' = FALSE
  /\ UNCHANGED <<data_arr, read_count, write_count, wspan, readerVars>>

\* WriteContent that compares the run with the size of the buffer.
WriteContentFitsEmpty ==
  /\ wpc = "write"
  /\ Capacity >= Len(wbuf)
  /\ wpc' = "copy" /\ wspan' = Len(wbuf)
  /\ UNCHANGED <<data_arr, read_count, write_count, wbuf, checked, readerVars>>

\* WriteContent up to its early return: it loads read_count_ itself.
WriteContentFits ==
  /\ wpc = "write"
  /\ AvailableWrite >= Len(wbuf)
  /\ wpc' = "copy" /\ wspan' = Len(wbuf)
  /\ UNCHANGED <<data_arr, read_count, write_count, wbuf, checked, readerVars>>

\* WriteContent returns false; both callers ignore the result.
WriteContentFull ==
  /\ wpc = "write"
  /\ AvailableWrite < Len(wbuf)
  /\ wpc' = "idle" /\ wbuf' = <<>> /\ checked' = FALSE
  /\ UNCHANGED <<data_arr, read_count, write_count, wspan, readerVars>>

\* WriteContent's memcpy into the slots.
CopyContent ==
  /\ wpc = "copy"
  /\ data_arr' = Stored(wbuf)
  /\ wpc' = "publish" /\ wspan' = 0
  /\ UNCHANGED <<read_count, write_count, wbuf, checked, readerVars>>

\* TryReadDataFromSocket asks for the writable piece it reads into.
BeginReceive ==
  /\ wpc = "idle"
  /\ AvailableSeriesWrite > 0
  /\ wpc' = "fill" /\ wspan' = AvailableSeriesWrite
  /\ UNCHANGED <<data_arr, read_count, write_count, wbuf, checked, readerVars>>

\* ::read puts between one and wspan bytes into the piece.
Receive(run) ==
  /\ wpc = "fill"
  /\ Len(run) <= wspan
  /\ data_arr' = Stored(run)
  /\ wpc' = "publish" /\ wbuf' = run /\ wspan' = 0
  /\ UNCHANGED <<read_count, write_count, checked, readerVars>>

\* ::read returns 0 or -1: nothing is consumed.
ReceiveNothing ==
  /\ wpc = "fill"
  /\ wpc' = "idle" /\ wspan' = 0
  /\ UNCHANGED <<data_arr, read_count, write_count, wbuf, checked, readerVars>>

\* write_count_ += len, in WriteContent and in ConsumeSeriesWriteLen.
Publish ==
  /\ wpc = "publish"
  /\ write_count' = Advance(write_count, Len(wbuf))
  /\ wpc' = "idle" /\ wbuf' = <<>> /\ checked' = FALSE
  /\ UNCHANGED <<data_arr, read_count, wspan, readerVars>>

-----------------------------------------------------------------------------
(* The reading thread.                                                     *)

\* AvailableSeriesRead and CurrentSeriesReadHead: the piece to read from.
BeginRead ==
  /\ rpc = "idle"
  /\ AvailableSeriesRead > 0
  /\ rpc' = "use" /\ rspan' = AvailableSeriesRead
  /\ UNCHANGED <<data_arr, read_count, write_count, rbuf, writerVars>>

\* ::send takes the first k bytes of the piece, or the worker a packet of k.
Use(k) ==
  /\ rpc = "use"
  /\ k <= rspan
  /\ rbuf' = [i \in 1..k |-> data_arr[Index(read_count) + i - 1]]
  /\ rpc' = "consume" /\ rspan' = 0
  /\ UNCHANGED <<data_arr, read_count, write_count, writerVars>>

\* ::send would block, or the packet is not complete yet.
UseNothing ==
  /\ rpc = "use"
  /\ rpc' = "idle" /\ rspan' = 0
  /\ UNCHANGED <<data_arr, read_count, write_count, rbuf, writerVars>>

\* ConsumeSeriesReadLen: read_count_ += len.
Consume ==
  /\ rpc = "consume"
  /\ read_count' = Advance(read_count, Len(rbuf))
  /\ rpc' = "idle" /\ rbuf' = <<>>
  /\ UNCHANGED <<data_arr, write_count, rspan, writerVars>>

-----------------------------------------------------------------------------
Writer ==
  \/ \E run \in Runs(MaxRun) : SendData(run) \/ SendDataWithHead(run)
  \/ WriteContentFits \/ WriteContentFull \/ CopyContent
  \/ BeginReceive \/ ReceiveNothing
  \/ \E run \in Runs(Capacity) : Receive(run)
  \/ Publish

Reader ==
  \/ BeginRead \/ UseNothing \/ Consume
  \/ \E k \in 1..Capacity : Use(k)

Next == Writer \/ Reader

Spec == Init /\ [][Next]_vars

-----------------------------------------------------------------------------
TypeOK ==
  /\ data_arr \in [Slot -> Byte]
  /\ read_count \in Word
  /\ write_count \in Word
  /\ wpc \in {"idle", "write", "copy", "fill", "publish"}
  /\ wbuf \in Seq(Byte)
  /\ wspan \in 0..Capacity
  /\ checked \in BOOLEAN
  /\ rpc \in {"idle", "use", "consume"}
  /\ rbuf \in Seq(Byte)
  /\ rspan \in 0..Capacity

\* The slots each thread is about to touch.
WriterSlots == {WriteSlot(i) : i \in 1..wspan}
ReaderSlots == {Index(read_count) + i - 1 : i \in 1..rspan}

(***************************************************************************)
(* The two threads never touch one slot at the same time, whatever the age *)
(* of the counter each one loaded: the piece of AvailableSeriesRead and    *)
(* the piece WriteContent or ::read writes to stay apart until the counter *)
(* is advanced, also when a counter has wrapped around 2^32.               *)
(***************************************************************************)
SlotsDisjoint == WriterSlots \cap ReaderSlots = {}

(***************************************************************************)
(* assert(capacity_ >= content_size) in every accessor: the buffer never   *)
(* holds more than its capacity, counting what is copied and not yet       *)
(* published as soon as it is published.                                   *)
(***************************************************************************)
ContentFits ==
  /\ AvailableRead <= Capacity
  /\ wpc = "publish" => AvailableRead + Len(wbuf) <= Capacity

(***************************************************************************)
(* SendData ignores the result of WriteContent: the room it saw in its own *)
(* AvailableWrite call is still there when WriteContent looks again, so a  *)
(* packet SendData accepted is never dropped.                              *)
(***************************************************************************)
CheckedRunFits ==
  wpc = "write" /\ checked => AvailableWrite >= Len(wbuf)

(***************************************************************************)
(* assert(available_read < capacity_) in AvailableRead, which the worker   *)
(* thread calls between two packets.                                       *)
(***************************************************************************)
AvailableReadAssertion == rpc = "idle" => AvailableRead < Capacity

-----------------------------------------------------------------------------
\* The bytes written and not yet read, oldest first.
Content == [i \in 1..AvailableRead |-> data_arr[Index(read_count + i - 1)]]

\* What the writing thread may rely on between its steps.
WriterClaim ==
  /\ wpc \in {"idle", "fill"} => wbuf = <<>>
  /\ wpc \notin {"copy", "fill"} => wspan = 0
  /\ wpc = "copy" => wspan = Len(wbuf)
  /\ wspan <= AvailableWrite
  /\ wpc = "publish" =>
       /\ Len(wbuf) <= AvailableWrite
       /\ \A i \in 1..Len(wbuf) : data_arr[WriteSlot(i)] = wbuf[i]

\* What the reading thread may rely on between its steps.
ReaderClaim ==
  /\ rpc # "consume" => rbuf = <<>>
  /\ rpc # "use" => rspan = 0
  /\ rspan <= AvailableRead
  /\ Index(read_count) + rspan <= Capacity
  /\ Len(rbuf) <= AvailableRead
  /\ \A i \in 1..Len(rbuf) : rbuf[i] = Content[i]

(***************************************************************************)
(* The inductive invariant: between the load of the other thread's counter *)
(* and the advance of its own, what a thread computed stays true however   *)
(* often the other one moves, because each counter has one writer and only *)
(* ever gives the other thread more room.                                  *)
(***************************************************************************)
Inv == TypeOK /\ ContentFits /\ CheckedRunFits /\ WriterClaim /\ ReaderClaim

Q == INSTANCE ByteQueue WITH queue <- Content, input <- wbuf, output <- rbuf

(***************************************************************************)
(* The ring buffer implements the bounded byte queue: what the reading     *)
(* thread takes out are the bytes the writing thread put in, in order,     *)
(* whole runs at a time, nothing lost, doubled or overwritten.             *)
(***************************************************************************)
ImplementsByteQueue == Q!Spec
=============================================================================

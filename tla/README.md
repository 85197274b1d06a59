# reechat_base in TLA+

reechat_base is a C++ network library: an event loop over libevent, lock-free
buffers between its threads, TCP sockets that report to their owner through
callbacks, and client and server tasks that verify, keep alive and reconnect
their connections.  This directory holds TLA+ modules of its own code
(`src/src/*.cpp`, `*.hpp`), the TLC configurations that check them and TLAPS
proofs about them.  Vendored code (`src/src/third_party`: libevent 2 and parts
of WebRTC) is modelled only by what reechat_base sees of it.

## The system

Two kinds of threads matter.  A *network loop* owns the sockets' events, a
*worker loop* runs the owners' callbacks; both are `EventLoop`s, and they may
be one and the same, as in `src/src/test`.  Any thread may hand functors to a
loop.

| part | state | operations | talks to |
| --- | --- | --- | --- |
| `RingBuffer` (`socket_buffer.*`) | slots, two free-running `uint32_t` counters | `WriteContent`, `Available*`, `Consume*` | one writing and one reading thread of a socket |
| `SocketBuffer` (`socket_buffer.*`) | byte vector, read and write index | append, prepend, read, `grow` | nobody: a public utility |
| `EventLoop` (`event_loop.*`, `base_status.*`) | status, thread id, functor queue, `notified_`, watcher | `Run`, `Stop`, `Cancel`, `RunInLoop`, `QueueInLoop` | every other part |
| `PipeEventWatcher` (`event_watcher.*`) | socket pair, its event | `AsyncWait`, `Notify`, `HandlerFn` | wakes the loop that owns it |
| `TimerEventWatcher`, `SignalEventWatcher` | an event, whether it was added | `AsyncWait`, `Cancel` | the tasks' timers |
| `TcpSocketWrapper` (`tcp_socket_wrapper.*`) | connection state, two events, two ring buffers, a helper object that keeps it alive | `BeginConnect`, `BeginListen`, `AcceptConnection`, `SendData`, `CloseConnection` and libevent callbacks | both loops, its owner's `Signal*` callbacks |
| `TcpClientTask` | its socket, verified, hello times, reconnect timer and round | `BeginProcess`, `StopProcess`, `ScheduleEvent`, callbacks | one socket after the other |
| `TcpServerTask` | its socket, verified, hello time, two timers | as above | one accepted socket |
| `Singleton`, logging, string helpers, macros | none that a property is about | | |

What is hard here: two threads share each ring buffer without a lock; wakeups
are suppressed by a flag; the loop is stopped from within one of its own
functors while other threads queue more; signals, timers and closes cross two
queues, so a task may hear from a socket it has dropped.  `PROJECT.json` lists
each hazard at its line with the properties that cover it, or why none does yet.

What makes each part correct:

* a ring buffer is a bounded first-in first-out byte queue, and its two threads
  never touch a slot at once;
* a loop runs every functor once, in order, on its own thread, sleeps only
  when there is nothing to run, and ends only when what was queued before the
  stop has run;
* a socket frames the byte stream into packets, keeps sending while there are
  bytes, reports the end of a connection and is freed after a close;
* a client task always has a connection, a pending attempt or a running timer
  until it is stopped; a server task always ends after its connection does.

## RingBuffer

`RingBuffer.tla` models the buffer with both of its threads.  The state is the
code's: `data_arr`, `read_count`, `write_count` (both `% WordSize`, `2^32` in
the code), and per thread what it does next, the bytes in its hands and how
many slots it may touch.  A thread's step ends where it loads the other's
counter, touches slots or advances its own counter, so every interleaving of
`WriteContent`, `SendData`, `TryReadDataFromSocket` on the writing side and
`TryWriteBufferToSocket` or the worker's packet loop on the reading side is
explored.  `& max_index_` is the remainder by `Capacity`.

`ByteQueue.tla` is the abstract specification: runs of bytes enter a bounded
queue as a whole or not at all, the reader looks at a prefix and later removes
it.  The mapping takes `queue` to the bytes between the two counters, `input`
and `output` to the bytes in the two threads' hands.

* `RingBuffer.cfg`: 4 slots, counters modulo 8, runs of up to 3 of 2 byte
  values.  The buffer gets full and empty, pieces end at the end of the array
  and both counters wrap, separately and together.  Two byte values are enough
  to notice a byte that is lost, doubled or overwritten, since every sequence
  of them is tried.  The system never stops, so deadlock is checked.
* `RingBufferAssert.cfg` shows a disagreement inside the code:
  `assert(available_read < capacity_)` (`socket_buffer.cpp:338`) fails for a
  full buffer, which every other assertion of the class allows.

`RingBufferProofs.tla` proves for every capacity, counter width that is a
multiple of it, set of bytes and length of runs: the inductive invariant `Inv`,
and from it `TypeOK`, `ContentFits`, `SlotsDisjoint`, `CheckedRunFits` and the
refinement `ImplementsByteQueue`.  `Inv` adds to the checked invariants what a
thread may rely on between its steps (`WriterClaim`, `ReaderClaim`): the room,
or the bytes, it computed from an old counter are still there, because the
other thread can only add to them.  Assumptions: `RingAssumption`, that is, the
width is a multiple of the capacity (both are powers of two in the code).
The facts about remainders are in `ProofLemmas.tla`, with what the other proofs
share: induction in the form of sets (`InductionUpTo`), that a function defined by
recursion on a number exists (`RecursiveFcn`), and what is left of a sequence when
elements leave it in front, at the end or in the middle.

## EventLoop

`EventLoop.tla` models `EventLoop` and its `PipeEventWatcher`.  Every thread has
a program counter through `RunInLoop`, `QueueInLoop` and `Stop`; the loop thread
has one through `Run`, `HandlerFn`, `DoPendingFunctors` and `StopInLoop`, with
its stack of functor batches (`batches`), because `StopInLoop` calls
`DoPendingFunctors` from inside a batch.  Functors may themselves call the loop:
the loop thread takes user steps while `running` holds a functor.  `late` is a
history variable; `fresh` and `stops` bound the calls of the users.

What is abstracted: a functor's effects, `pending_functor_count_` (only
logged), the destructor, failures of libevent calls that only log, and what a
use of a destroyed watcher does (it is undefined in C++; here `Notify` then
sends nothing).  Where the assertion at `event_loop.cpp:126` fails the model goes
on, as a build with `NDEBUG` does.  `mutex_` and the unlocked accesses are modelled as they are:
`IsPendingQueueEmpty` may see or miss a push in progress.

`TaskExecutor.tla` is the abstract specification: functors start in the order
they were submitted; a stop is a functor of that queue; once it is taken the
order is free, and the executor halts only when everything queued before is
gone.  The mapping (`Waiting`) puts the batches on the stack and the queue one
after the other.

* `EventLoop.cfg`: own base, built by one thread and run by another, two user
  threads besides the loop's functors, 3 functors and 2 concurrent calls of
  `Stop`.  Three functors and two threads are enough for a functor to be pushed
  in each window of the wakeup protocol while another is being notified and a
  third is running; two stops give a `StopInLoop` inside another one's drain loop.
  Liveness (`QueuedRuns`, `StopEnds`) is checked in the same run, with fairness of
  the loop thread and of every thread inside a call: the operating system
  schedules runnable threads and functors return; no user has to call anything.
  `StopEnds` says that the loop thread leaves `Run`, not that the status is
  kStopped then: with two concurrent stops the second store of `kStopping` may
  come after it (hazard at `event_loop.cpp:93`).  `QueueAssertion` is
  `assert(!IsRunning())` in `QueueInLoop`: a caller that has to wake the loop and
  finds `watcher_` gone, which `Run` resets without `mutex_`, finds a loop that
  was told to stop.
* `EventLoopExternal.cfg`: an existing base, for the order and the fate of the
  functors.  The comment at `event_loop.cpp:39` says that `Run` is never called
  then; both test programs call it, so the model does.  With `Cancel`, which also
  lets the dispatch return for want of events.  `Cancel` leaves the status at
  kRunning, so `QueueAssertion` does not hold here, and is not checked (hazard at
  `event_loop.cpp:100`).
* `EventLoopGuarded.cfg`, `EventLoopStopEarly.cfg`: two statements of the source
  that its behaviour violates (see `findings`).

Deadlock is not checked for the loop: it rests when nothing is queued and ends
after a stop.

`EventLoopProofs.tla` proves, for any number of threads, functors and stops,
with or without `Cancel`: `TypeOK` (with `CallStack`, which says that the
innermost batch exists whenever it is used and belongs to the right drain
loop); `WakeupInv` and from it `NoLostWakeup` and `OneWakeup`; `TidInv` and from
it `RunsOnLoopThread`, for a loop on an own base or one built on its own thread.
`NoLostWakeup` alone is not inductive: it needs that `notified_` is set exactly
while one wakeup is being sent, is in the pipe, or has been received and not yet
turned into a swap (`OneOnItsWay`), that `mutex_` is held by the thread that is
about to send (`MutexHeld`), and that a drain loop is never mistaken for the
handler (`StopRemembered`).

`StopFindsKStopping` proves the assertion of `StopInLoop` for a loop on its own
base, however many threads call `Stop` (an existing base is kRunning before `Run`
stores it a second time, which is finding and hazard).  `StopInv` is inductive:
wherever a `StopInLoop` is on its way (in a caller's hands, the queue, a batch or
a drain loop) the status was stored as kStopping, and nobody may call `Stop`
before `Run` is ready.

`ExecutorRefinement` proves that the loop implements `TaskExecutor`.  What it
needs besides the invariants above is `DrainInv`: once `StopInLoop` has taken
its first swap, whatever is still queued was queued after the stop (`late`).
`Left`, what remains of the batches on the stack, is a recursive function of the
stack; that it is one, and that pushing, popping and taking from a batch change
it as expected, is proved by induction.  These inductive invariants are proved
and not checked by a run of their own; the properties they imply are.

## TcpSocket

`TcpSocket.tla` models one `TcpSocketWrapper`, begun by `BeginConnect` or by
`AcceptConnection`, whose network loop and worker loop are different.  A functor
or callback is one step of its loop; `network` and `work` are the socket's
functors in the two queues, in order, as `TaskExecutor` promises.  The state is
the code's (`state`, the two events with the callback of the write event,
`helper` for `share_this_helper_`, the fill of both ring buffers) and what it
depends on: who still has a `shared_ptr` (`held`, the bound functors, the
helper), whether the `Signal*` callbacks are set (`listening`), and what the
peer has done.  The peer answers, refuses, stays silent, sends and ends when it
likes; results of `connect`, `send` and `read` are whatever its state allows.  A
socket whose `connect()` failed in the call polls as writable without an error,
so the code, which goes on after `OnErrorEvent`, may report closed, then
connected, then closed: the model keeps that.

What is abstracted: bytes are counted (their order is `RingBuffer`'s), packets
are consumed or an illegal length is met; the signals are read in one step,
although the two threads share them without a lock; `event_del` on the worker
thread, in `TryProcessBufferedDataInWorkLoop`, takes effect at once, although
libevent runs without its locks here; `SIGPIPE` does not end the process; an
accepted socket can always be made nonblocking; `setsockopt()`, which only a build
for Apple's systems calls before `connect()` (`tcp_socket_wrapper.cpp:205-214`, an
error is reported and the code goes on), does not fail.  `SendData` is called as the
tasks call it, when `GetState()` is connected.

`Connection.tla` is the abstract specification: all that the owner can see, that
is, the reports in its queue. A failed attempt may be reported closed and then
connected all the same (the phase "phantom"); an end may be reported more than
once; nothing new is reported after a closed socket is shut, but what is queued
still arrives. This is what the tasks have to cope with.

* `TcpSocket.cfg`: 2 packets to send, 2 reads with data, a receive buffer of 2
  units, so that a buffer fills, a write is blocked with another one queued, and
  two functors fail after the connection has broken.  The queues are bounded by
  these numbers.  Fairness: both loops run what is queued (`RunFunctor`,
  `RunWork`), which `EventLoop`'s `QueuedRuns` grants, and libevent delivers a
  connect event (`OnConnection`, with its timeout) and a readable one
  (`OnReadEvent`).  Nothing is assumed of the owner, the peer or a full kernel
  buffer.  Deadlock is not checked: a socket that is shut is done.

`CloseReported` supposes that the read event is added: an accepted socket that
meets an illegal length before its owner has set the signals stops reading
without telling anybody.  `TcpServerTask` shows what ends its task then: the
verify timer (hazard at `tcp_server_task.cpp:41`).

`TcpSocketProofs.tla` proves, for any number of packets and any capacity:
`TypeOK`, and `SocketInv` with its parts `HelperAlive`, `SendProgress` and
`NoSpin`.  These are not inductive alone: `HelperAlive` needs that the close
functor is the last of the network loop's queue and that nothing is queued or
added once it has run (`QueueOrder`, `ShutInv`); `SendProgress` needs that
nothing is sent before the write event carries `OnWriteEvent` (`CallbackFits`).

`ConnectionRefinement` proves that the socket implements `Connection`: the phase
the owner may suppose is a function of `state`, of the queued functors and of
what the peer did, and the reports are the worker loop's queue without the
functor that destroys the socket.  It needs two more invariants: that an accepted
socket is begun by `BeginProcess` alone and its `connect()` cannot have failed
(`ModeInv`), and that the destruction is the last functor queued on the worker
loop (`DestroyLast`).
Assumptions: `SocketAssumption`, the bounds are numbers and the buffer has room.

## TcpClientTask

`TcpClientTask.tla` models one task and the sockets it makes one after the
other.  All of it runs on the worker loop: `work` is that loop's queue with the
reports of all sockets, old and new, and between the reports the loop runs the
reconnect timer, `ScheduleEvent` and `StopProcess`.  The state is the code's
(`tcp_socket_` is `current`, `last_hello_time_` is `hello` with the values none,
recent and stale, `reconnect_timer_` is null, idle or armed), and per socket its
`Connection` phase, whether it was told to close, whether its signals were set
to `nullptr` (`deaf`) and whether it met an illegal payload length.  The network
side is what `Connection` allows, which `TcpSocket` was checked to implement;
`SocketsBehave` checks in turn that the task is an owner as `Connection` expects
one and that every socket here behaves as one (`Conn(s)`, a parameterised
`INSTANCE`).  So the two modules fit together.

The code closes an old socket without taking back its signals, and keeps its
reports in the queue.  The model keeps all of that: a late or repeated "closed"
drops the next, healthy socket; a late "connected" sets `connect_round_` back
and starts the hello time; a late packet may verify the task in place of its
own connection, or put a stopped task back with its manager.  No property says
that these do not happen, since they do; the hazards name them.  What is checked
is that the task survives them: `NeverStuck`, `NoAbandonedSocket`,
`SilenceNoticed` and `Recovers`.

The worker loop and the network loop are different.  On one loop a send that
fails inside `OnConnectEvent` would run `OnCloseEvent` before the rest of it, which
sets `last_hello_time_` and `connect_round_` of a task that has dropped its socket;
that is not modelled.

What is abstracted: what the task sends, with `last_schedule_time_`, which
paces it; the user's `MsgParse` may see a hello and does not stop the task;
`BeginProcess` is called once, and `SetMaxReconnectTimes` before it.  A task
whose `SetCheckHello(false)` switched the test of hellos off behaves like one on
which nobody calls `ScheduleEvent`, which the safety properties allow and
`Recovers` does not suppose.

* `TcpClientTask.cfg`: two socket objects, which stand for new ones once they
  are shut and nothing of theirs is queued, so that the task makes any number
  of them while an old one still reports; no limit of attempts (0 stands for
  -1) and a limit of 2; up to 2 reports of a socket in the queue, enough for a
  connection that ends before it was heard of and for repeated ends.

Fairness, for `Recovers`: the worker loop runs its queue and its timer, and
somebody calls `ScheduleEvent` again and again, as its 10 and 30 seconds suppose;
the network loop begins an attempt, answers it and shuts a closed socket
(`TcpSocket`'s `ConnectAnswered` and `Freed`).  `calm` is an assumption about the
server: from some time on it accepts, verifies, says hello in time and ends
nothing.  Nothing is assumed of the time before, so the task may already be
verified by a late packet of a socket it had then; `Recovers` promises an open
connection and a verified task, not that the one verified the other.  A task with a limit may also
give up, which is a stop.  Deadlock is not checked: a stopped task is done.

`TcpClientTaskProofs.tla` proves, for any number of sockets, limits and queued
reports: `TypeOK`, `NeverStuck`, `NoAbandonedSocket` and `SilenceNoticed`.  The
inductive invariant `ClientInv` says what the queue owes the task: the socket
in use has its signals set and was not told to close (so every report it makes
is queued), an end that it met is still in the queue, and the timer runs exactly
while there is no socket.  The last part is why the timer's `ConnectToServer`,
which overwrites `tcp_socket_` without a look, loses no socket.
`SocketsAreConnections` proves `SocketsBehave`: with `ConnectionRefinement` of
`TcpSocketProofs.tla` this closes the composition for any number of sockets.  The
reports of one socket are a recursive function of the queue (`ReportsIn`); what an
entry more at its end or one less in front does to it is proved by induction.
Assumption: `TaskAssumption`.

## TcpServerTask

`TcpServerTask.tla` models one task from the accept of its connection to the
release of the last reference to it.  `setup` says on which loop the listening
socket's `OnNewConnection` handler accepts and calls `BeginProcess`: the only one
there is ("one"), as in the test programs, where `RunInLoop` runs a report or a
close inside its caller; the accepted socket's network loop ("network"), while
the worker loop has a thread of its own; or the worker loop ("worker"), while the
accepted socket already reads on its own thread.  There a close that is faster
than `BeginProcess` finds no signal set and is told to nobody; a packet that is
faster waits in the worker loop's queue.  The state is the code's (`conn_socket_`,
`verified_client_`, `last_hello_time_`, both timers) and what surrounds it: the
manager, the signals, the reports in the worker loop's queue.  `unseen` stands
for the timer that `BeginProcess` adds from the network loop: libevent, without its
locks, does not wake the worker loop for it, so it counts only from the loop's
next wakeup.  `mute` is an assumption about the client: it sends nothing more.

The user's `OnRecvVerifyMsg` and `MsgParse` may send.  On one loop a send that fails
there runs `OnErrorEvent`, and with it `OnCloseEvent` and `StopProcess`, before
`OnInternalPacket` goes on: it then sets `verified_client_` and calls
`AddToManager()` for a task that has stopped (`tcp_server_task.cpp:117-119`).
`OnInternalPacketStopped` is that step, and `revived` remembers that a stopped task
went back to its manager.  The model supposes that somebody else holds the task
then; otherwise the failing send destroys it while `OnInternalPacket` runs, which
is undefined in C++.

What is abstracted: what else the task sends; `MsgParse` may see a hello and does
not stop the task; a data report carries at most one packet.  `BeginProcess` is one
step: no other handler of its own loop interrupts it, and the other loop either
has nothing to do yet ("network") or looks at no more of what it sets than
whether `SignalOnCloseEvent` is there ("worker").

* `TcpServerTask.cfg`: all three setups and up to 3 reports in the queue, so that
  data, an illegal length and an end can wait together while the task is stopped
  by another of them.

Fairness, for `Freed` and `Dropped`: the worker loop runs its queue (`RunReport`)
and its due timers (`OnCheckVerified`, `CloseTimerFires`), which
`EventLoop`'s `QueuedRuns` and libevent grant; some timer of that loop drives the
manager (`ScheduleEvent`, `Tick`); time passes (`HelloAges`).  Nothing is assumed
of the client, the network or the user.  A manager that called `ScheduleEvent`
more often than every 5 ms would keep starting the close timer again, which this
fairness excludes.  Deadlock is not checked: a stopped task is done.

`NoNullTimer` and `Freed` name what the code allows: `OnCheckVerified` always finds
`close_timer_`, and `ScheduleEvent` finds it unless the task was revived, which only
one loop can do (a manager that schedules a revived task ends the program, so
`ScheduleEvent` has no step there); a stopped task is released for good unless it
was revived.  On two loops both hold without the exception.

`SocketBehaves` checks, where there are two loops, that the task is an owner as
`Connection` expects one.  On one loop the reports do not go through a queue, and
`Connection` does not apply.

`TcpServerTaskProofs.tla` proves `TypeOK`, `NoNullTimer`, `Watched` and
`SocketBehaves` for every setup and any number of reports. The inductive
invariant `ServerInv` describes the three lives of the task: before
`BeginProcess` nothing is set (`Unbegun`), then everything is there, and an
unverified task has one of its timers running (`Running`), and after
`StopProcess` nothing is left that a late report, timer or manager could find
(`Ended`), except for a manager to which a packet in hand, on one loop, has
added the task again. Assumption: `ServerAssumption`.

## PacketStream

`PacketStream.tla` models the framing: `SendData` writes the payload's length in
front, the receiver's network loop reads pieces of the stream into its ring, and
the worker loop's `TryProcessBufferedDataInWorkLoop` cuts packets out of it, step
by step (two loads of the writer's counter, the head, the handler, the
consumption) while more bytes come in.  A packet, or its head, may go around the
end of the array; a slot that was not written reads as `Junk`, which may be any
byte.  `RingBuffer` has shown what the two counters do, so the content is a
sequence here and the slot it begins at.

`PacketQueue.tla` is the abstract specification: each packet arrives whole, once
and in order, and, while the receiver reads, it does arrive.  Only a sender that
hands in something that is no packet (a length below 3, of which `SendData`
makes an illegal or a huge length) spoils what comes after, and only then may
the receiver refuse the stream.

* `PacketStream.cfg`: bytes of 2 values, so that a payload has 1 to 3 bytes and a
  packet 3 to 5; a ring of 6 slots, so that heads and payloads wrap at every
  place and a second packet begins behind the first; 7 bytes on their way; 2
  functors queued.  The ring uses the remainder instead of the mask, so its size
  need not be a power of two.

Nothing is sent after a spoilt stream or to a receiver that has stopped reading:
nothing is promised then.  `SignalReadPacket` is set, and the handler returns.
Fairness: the network loop reads what there is and queues its functor, the worker
loop runs (`Read`, `QueueProcess`, `Process`).  Deadlock is not checked: a
receiver that has closed is done.

`PacketStreamProofs.tla` proves for every set of bytes, ring and bound of the
stream: `ReceiverInv`, what the packet loop may rely on between its steps while
bytes arrive (what it loaded is still there, the shorter of the two loads ends
at the end of the array or covers all that the other one promised, and only
the handler leaves bytes in the ring that are already handed over), from it `NoStrandedPacket`, and the safety part of the refinement of
`PacketQueue` (`PacketsInOrder`).  For the latter the invariant `Framing` says
that there are places at which the coming bytes, in the ring and on their way,
can be cut into the packets that were sent and not delivered, and that nothing
lies behind the last of them unless the stream is spoilt.  Cutting places and not
a concatenation, so that no induction is needed when a packet enters or leaves.
That packets do arrive is liveness and stays with the run.

## SocketBuffer

`SocketBuffer.tla` models `SocketBuffer` with every function that changes it: the
array, its two indices and `reserved_prepend_size_`.  One thread uses it.  Its
assertions on arguments are the caller's duties and are guards here, and nothing
else is; `ReadByte` alone is also called on an empty buffer, where it returns '\0',
as `socket_buffer.hpp:153` says, in a build with `NDEBUG` (without it the assertion
at `socket_buffer.cpp:258` ends the program).  Numbers are stored as the code
stores them, in network order, and read back by the inverse conversions.  `back`
and `front` are histories: the bytes read since the last write, move or reset,
and the bytes prepended, or unread beyond those, since the room in front was whole.

`ByteDeque.tla` is the abstract specification: bytes enter at both ends and leave
in front, numbers come out as they went in, and the last reads can be taken back
(`Unread`) while the buffer remembers them.  It remembers them until the next
write, and not beyond a `Skip` or `ReadInt` that empties the buffer, which moves
both indices to the start.  `UnreadBytes` only asserts `n < read_index_`, so it may
be called for more than that: what the deque remembers comes back then behind
bytes of which nothing is promised (`UnreadBeyond`).  The assertion also refuses
the very first bytes of an array without reserved room.

* `SocketBuffer.cfg`: bytes of 2 values, numbers of 1 and 2 bytes, runs of up to 2,
  initial and reserved sizes of 0, 1 and 2, arrays of up to 6.  The content is
  moved to the front of the same array and to a new one, with every amount of
  room in front.  Some call is always possible, so deadlock is checked.
* `SocketBufferReads.cfg`: `SocketBufferReads.tla` adds a history of the bytes the
  last call returned, and `UnreadsLastRead` says what `socket_buffer.hpp:155-156`
  does: `UnreadBytes` "unreads the last n bytes returned by the most recent read
  operation".  It does not: after `AppendInt16` and a `ReadInt16` that empties the
  buffer and so resets it, `UnreadBytes(1)` brings up a byte of the room in front
  that was never written.

`SocketBufferProofs.tla` proves `InBounds`, `RoomInFront` and
`ImplementsByteDeque` for every size of bytes, numbers, runs and arrays.  The inductive invariant `BufferInv` adds that
`reserved_prepend_size_` is never more than the capacity, without which the new
array of `grow` could be too small for the content behind the reserved room, and
that the bytes which were read and are still there do not count as room (`Room`).  For the
refinement the content and what can be unread are pieces of the array, and one
lemma per function says which piece its result holds: `memcpy` puts its bytes in
one piece and leaves the others alone, `grow` keeps the content, a write adds a
piece behind it and a read moves one to the piece that can be unread.  Numbers
need induction over their bytes (`NetworkNumber`: what is left of `x` after `n`
divisions is below `Base` to the power of the bytes that are to come, so that
nothing is lost, and reading byte after byte undoes the divisions;
`HostNumberIs`: the host's order of the bytes that were turned around is network
order).  For that the conversions are recursive functions, and the induction is
that of `ProofLemmas` over sets.  Assumption: `BufferAssumption`.

## What is proved and what is only checked

Proved for every value of the constants, under the named assumptions: the
invariants of `RingBuffer`, `EventLoop`, `TcpSocket`, `TcpClientTask`,
`TcpServerTask`, `PacketStream` and `SocketBuffer`, that is, all invariants the
passing runs check; and the refinements of `ByteQueue`, `TaskExecutor`,
`Connection` (by `TcpSocket`, and by the sockets of both tasks), `ByteDeque` and
the safety part of that of `PacketQueue`.

Only model-checked is liveness (`QueuedRuns`, `StopEnds`, `CloseReported`,
`ConnectAnswered`, `Freed`, `Recovers`, `Dropped`, and that `PacketStream`
implements the fairness of `PacketQueue`), since TLAPS has no support here for
fairness and `ENABLED`.

## Plan

In this order, the most important behaviour first.  All are done.

1. `RingBuffer`, refining `ByteQueue`, with proofs.
2. `EventLoop`, refining `TaskExecutor`, with proofs.
3. `TcpSocket`, refining `Connection`, with proofs.
4. `TcpClientTask` over several `Connection`s, with proofs.
5. `TcpServerTask` over an accepted `Connection`, with proofs.
6. `PacketStream`, refining `PacketQueue`, with proofs.
7. `SocketBuffer`, refining `ByteDeque`, with proofs.

## Not modelled

* `BeginListen`: it makes the listening socket once and its failures only log.
  What its `OnNewConnection` starts is part of `TcpServerTask`.
* `TcpSocket` itself has a network and a worker loop that differ.  One loop for
  both roles, where `RunInLoop` runs a report inside the handler that makes it,
  is modelled for the server task only.
* A listening socket on a third thread, neither the accepted socket's network
  loop nor the task's worker loop.  `BeginProcess` would then run at the same
  time as reports of the socket, and a `StopProcess` between the two timers
  would be undone by the rest of it.  Nothing in the repository sets this up.
* `TimerEventWatcher` is modelled as the tasks use it: made, started, started
  again, fired, deleted.  `EventWatcher::Cancel` and its callback have no caller.
* `SocketBuffer`'s `FindCRLF` and `FindEOL` only look at the content; `PoolBuffer`
  and `UdpPoolBuffer` only copy.
* `SignalEventWatcher` and `Singleton` are not used by the repository; logging,
  string helpers and macros have no state that a property is about.
* `SIGPIPE` and a failing `fcntl` on an accepted socket: the process, or the
  socket's helper, is not as the model supposes.
* libevent and the WebRTC files under `src/src/third_party`: vendored.
* Effects of undefined behaviour beyond what the sections above name.

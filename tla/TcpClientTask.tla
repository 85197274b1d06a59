--------------------------- MODULE TcpClientTask ---------------------------
(***************************************************************************)
(* TcpClientTask (tcp_client_task.cpp) over the sockets it makes one after *)
(* the other.  The task lives on the worker loop: the reports of all its   *)
(* sockets, old and new, come through one queue, `work`, and between them  *)
(* the loop runs its timer and calls of ScheduleEvent and StopProcess.     *)
(* Each socket is what Connection says of it; a socket that is shut and    *)
(* has nothing left in the queue may stand for a new one.  The network     *)
(* loop is another one, so that no report comes inside its caller.         *)
(*                                                                         *)
(* The virtual functions are the user's: OnRecvVerifyMsg accepts or        *)
(* refuses, MsgParse may call OnRecvHelloMsg, AddToManager and             *)
(* RemoveFromManager set `managed`.  What the task sends is left out.  A    *)
(* data report carries at most one packet: several in one run of the       *)
(* packet loop act like as many reports.                                   *)
(***************************************************************************)
EXTENDS Naturals, Sequences

CONSTANTS
  Socket,        \* the TcpSocketWrapper objects
  None,          \* a null tcp_socket_
  MaxReconnects, \* values of max_reconnect_times_, 0 standing for -1
  MaxReports     \* (bound) reports of one socket that wait in the queue

ASSUME TaskAssumption ==
  /\ None \notin Socket
  /\ MaxReconnects \subseteq Nat
  /\ MaxReports \in Nat \ {0}

VARIABLES
  max_reconnect, \* max_reconnect_times_
  current,       \* tcp_socket_
  verified,      \* verified_
  hello,         \* last_hello_time_: "none" for 0, else its age
  round,         \* connect_round_
  timer,         \* reconnect_timer_
  managed,       \* the task is with its manager
  begun,         \* BeginProcess was called
  stopped,       \* (history) StopProcess was called
  work,          \* the reports in the worker loop's queue
  phase,         \* Connection's phase of each socket
  closing,       \* sockets on which CloseConnection was called
  deaf,          \* sockets whose signals were set to nullptr
  garbled,       \* sockets that met an illegal payload length
  calm           \* (assumption) from now on the server serves well

task == <<current, verified, hello, round, timer, managed, begun, stopped>>
sockets == <<phase, closing, deaf, garbled>>
vars == <<max_reconnect, task, work, sockets, calm>>

Report == {"connected", "closed", "data"}
Entry == [socket : Socket, report : Report]

Init ==
  /\ max_reconnect \in MaxReconnects
  /\ current = None /\ verified = FALSE
  /\ hello = "none" /\ round = 0 /\ timer = "null"
  /\ managed = FALSE /\ begun = FALSE /\ stopped = FALSE
  /\ work = <<>> /\ phase = [s \in Socket |-> "unused"]
  /\ closing = {} /\ deaf = {} /\ garbled = {} /\ calm = FALSE

\* The reports of s in a queue, in order.
ReportsIn(queue, s) ==
  LET told[n \in 0..Len(queue)] ==
        IF n = 0 THEN <<>>
        ELSE IF queue[n].socket = s THEN Append(told[n - 1], queue[n].report)
        ELSE told[n - 1]
  IN  told[Len(queue)]

ReportsOf(s) == ReportsIn(work, s)
Queued(s, r) == \E i \in DOMAIN work : work[i] = [socket |-> s, report |-> r]

\* The socket tcp_socket_ points to, as a set.
Held == {current} \ {None}

-----------------------------------------------------------------------------
(* What the task's functions do.                                           *)

Free(s) == phase[s] = "unused" \/ (phase[s] = "shut" /\ ReportsOf(s) = <<>>)

\* A new socket with all signals set, and BeginConnect.
ConnectToServer ==
  \E s \in Socket :
    /\ Free(s)
    /\ current' = s
    /\ phase' = [phase EXCEPT ![s] = "idle"]
    /\ closing' = closing \ {s} /\ deaf' = deaf \ {s} /\ garbled' = garbled \ {s}

\* StopProcess that leaves the reconnect timer alone.
StopKeepsTimer ==
  /\ managed' = FALSE /\ stopped' = TRUE
  /\ deaf' = deaf \cup Held /\ closing' = closing \cup Held
  /\ current' = None
  /\ UNCHANGED timer

\* StopProcess that closes its socket and keeps the pointer.
StopKeepsSocket ==
  /\ managed' = FALSE /\ stopped' = TRUE
  /\ deaf' = deaf \cup Held /\ closing' = closing \cup Held
  /\ timer' = "null"
  /\ UNCHANGED current

StopProcess ==
  /\ managed' = FALSE /\ stopped' = TRUE
  /\ deaf' = deaf \cup Held /\ closing' = closing \cup Held
  /\ current' = None
  /\ timer' = "null"

\* A count that stops one round too late.
GivesUpLate == max_reconnect > 0 /\ round + 1 > max_reconnect

\* ++connect_round_ >= max_reconnect_times_
GivesUp == max_reconnect > 0 /\ round + 1 >= max_reconnect

\* (bound) The count stays at its maximum, beyond which nothing changes.
GiveUp ==
  /\ GivesUp
  /\ round' = max_reconnect
  /\ StopProcess
  /\ UNCHANGED <<verified, hello>>

\* AsyncWait on a timer that exists.
Armed == IF timer = "null" THEN "null" ELSE "armed"

\* TryReconnectServerInner that only drops its pointer.
ReconnectWithoutClose ==
  /\ ~GivesUp
  /\ round' = IF max_reconnect > 0 THEN round + 1 ELSE round
  /\ current' = None
  /\ timer' = Armed
  /\ hello' = "none" /\ verified' = FALSE
  /\ UNCHANGED <<closing, deaf, managed, stopped>>

\* TryReconnectServerInner that waits for the timer only without a socket.
ReconnectUnarmed ==
  /\ ~GivesUp
  /\ round' = IF max_reconnect > 0 THEN round + 1 ELSE round
  /\ closing' = closing \cup Held /\ current' = None
  /\ timer' = IF current = None THEN Armed ELSE timer
  /\ hello' = "none" /\ verified' = FALSE
  /\ UNCHANGED <<deaf, managed, stopped>>

\* The old socket is closed but keeps its signals.
Reconnect ==
  /\ ~GivesUp
  /\ round' = IF max_reconnect > 0 THEN round + 1 ELSE round
  /\ closing' = closing \cup Held /\ current' = None
  /\ timer' = Armed
  /\ hello' = "none" /\ verified' = FALSE
  /\ UNCHANGED <<deaf, managed, stopped>>

TryReconnectServerInner == GiveUp \/ Reconnect

-----------------------------------------------------------------------------
(* Calls and timers on the worker loop.                                    *)

BeginProcess ==
  /\ ~begun /\ begun' = TRUE
  /\ timer' = "idle"
  /\ ConnectToServer
  /\ UNCHANGED <<max_reconnect, verified, hello, round, managed, stopped,
                 work, calm>>

\* The timer's event is not persistent: it fires once for each AsyncWait.
TimerFires ==
  /\ timer = "armed" /\ timer' = "idle"
  /\ ConnectToServer
  /\ UNCHANGED <<max_reconnect, verified, hello, round, managed, begun,
                 stopped, work, calm>>

\* ScheduleEvent, when the last hello is more than 30 seconds old.  Without
\* the check the task behaves as if no hello ever got that old.
ScheduleEvent ==
  /\ hello = "stale"
  /\ TryReconnectServerInner
  /\ UNCHANGED <<max_reconnect, begun, work, phase, garbled, calm>>

\* The user stops the task.
UserStops ==
  /\ begun
  /\ StopProcess
  /\ UNCHANGED <<max_reconnect, verified, hello, round, begun, work, phase,
                 garbled, calm>>

-----------------------------------------------------------------------------
(* Reports of the sockets.                                                 *)

TakeReport(s, r) ==
  /\ work # <<>> /\ Head(work) = [socket |-> s, report |-> r]
  /\ work' = Tail(work)
  /\ UNCHANGED <<max_reconnect, begun, phase, calm>>

\* OnConnectEvent that forgets last_hello_time_.
OnConnectEventUntimed(s) ==
  /\ TakeReport(s, "connected")
  /\ round' = 0
  /\ UNCHANGED <<current, verified, hello, timer, managed, stopped,
                 closing, deaf, garbled>>

OnConnectEvent(s) ==
  /\ TakeReport(s, "connected")
  /\ hello' = "recent" /\ round' = 0
  /\ UNCHANGED <<current, verified, timer, managed, stopped,
                 closing, deaf, garbled>>

OnCloseEvent(s) ==
  /\ TakeReport(s, "closed")
  /\ TryReconnectServerInner
  /\ UNCHANGED garbled

\* OnInternalPacket, the first packet: OnRecvVerifyMsg returns true.
Verify ==
  /\ ~verified
  /\ verified' = TRUE /\ managed' = TRUE
  /\ UNCHANGED <<current, hello, round, timer, stopped, closing, deaf>>

\* The same, and it returns false.
Refuse ==
  /\ ~verified /\ ~calm
  /\ StopProcess
  /\ UNCHANGED <<verified, hello, round>>

\* MsgParse, which may meet a hello.
Parse ==
  /\ verified
  /\ hello' \in {hello, "recent"}
  /\ UNCHANGED <<current, verified, round, timer, managed, stopped,
                 closing, deaf>>

\* One packet of a socket whose SignalReadPacket is set.
OnInternalPacket(s) ==
  /\ TakeReport(s, "data")
  /\ s \notin deaf \cup garbled
  /\ Verify \/ Refuse \/ Parse
  /\ UNCHANGED garbled

\* No packet is complete yet, or nobody listens.
NoPacket(s) ==
  /\ TakeReport(s, "data")
  /\ s \in deaf \/ (s \notin garbled /\ ~calm)
  /\ UNCHANGED <<current, verified, hello, round, timer, managed,
                 stopped, closing, deaf, garbled>>

\* An illegal payload length, which is met again by every later report.
BadPayload(s) ==
  /\ TakeReport(s, "data")
  /\ s \notin deaf
  /\ s \in garbled \/ ~calm
  /\ garbled' = garbled \cup {s}
  /\ TryReconnectServerInner

RunReport ==
  \E s \in Socket :
    \/ OnConnectEvent(s) \/ OnCloseEvent(s)
    \/ OnInternalPacket(s) \/ NoPacket(s) \/ BadPayload(s)

-----------------------------------------------------------------------------
(* The sockets, as Connection has them.                                    *)

\* The socket reports r, if its signal is set and the queue has room.
Tell(s, r) ==
  /\ Len(ReportsOf(s)) < MaxReports
  /\ work' = IF s \in deaf THEN work ELSE Append(work, [socket |-> s, report |-> r])

Live == {"idle", "trying", "failed", "phantom", "open", "over"}

Become(s, from, to) ==
  /\ phase[s] \in from
  /\ phase' = [phase EXCEPT ![s] = to]
  /\ UNCHANGED <<max_reconnect, task, closing, deaf, garbled, calm>>

Attempt(s) == Become(s, {"idle"}, "trying") /\ UNCHANGED work
FailAtOnce(s) == ~calm /\ Become(s, {"idle"}, "failed") /\ Tell(s, "closed")
Establish(s) == Become(s, {"trying"}, "open") /\ Tell(s, "connected")
Pretend(s) == Become(s, {"failed"}, "phantom") /\ Tell(s, "connected")

\* The process functor is queued whether or not anybody listens.
Data(s) ==
  /\ s \notin garbled
  /\ Become(s, {"open"}, "open")
  /\ Len(ReportsOf(s)) < MaxReports
  /\ work' = Append(work, [socket |-> s, report |-> "data"])

\* A server that serves well ends nothing that is not lost already.
End(s) ==
  /\ calm => phase[s] \in {"failed", "phantom", "over"}
  /\ Become(s, Live, "over")
  /\ Tell(s, "closed")

Shut(s) ==
  /\ s \in closing
  /\ Become(s, Live, "shut")
  /\ UNCHANGED work

Network ==
  \E s \in Socket :
    \/ Attempt(s) \/ FailAtOnce(s) \/ Establish(s) \/ Pretend(s)
    \/ Data(s) \/ End(s) \/ Shut(s)

-----------------------------------------------------------------------------
(* Time and the server.                                                    *)

\* 30 seconds pass without a hello.
HelloAges ==
  /\ ~calm /\ hello = "recent" /\ hello' = "stale"
  /\ UNCHANGED <<max_reconnect, current, verified, round, timer, managed,
                 begun, stopped, work, sockets, calm>>

\* The server is reachable for good: it accepts, verifies and says hello.
CalmDown ==
  /\ ~calm /\ calm' = TRUE
  /\ UNCHANGED <<max_reconnect, task, work, sockets>>

Worker == BeginProcess \/ TimerFires \/ ScheduleEvent \/ UserStops \/ RunReport

Next == Worker \/ Network \/ HelloAges \/ CalmDown

Spec == Init /\ [][Next]_vars

\* The network loop begins, answers and shuts.
Serve(s) == Attempt(s) \/ Establish(s) \/ Shut(s)

\* The worker loop runs what is queued and due, the network loop serves each
\* socket; only a server that serves well has to send anything.
FairSpec ==
  /\ Spec
  /\ WF_vars(RunReport) /\ WF_vars(TimerFires) /\ WF_vars(ScheduleEvent)
  /\ \A s \in Socket : WF_vars(Serve(s)) /\ WF_vars(calm /\ Data(s))

-----------------------------------------------------------------------------
(* Properties.                                                             *)

\* Types; and connect_round_ never reaches its limit while the task goes on.
TypeOK ==
  /\ max_reconnect \in MaxReconnects
  /\ current \in Socket \cup {None}
  /\ verified \in BOOLEAN /\ managed \in BOOLEAN
  /\ begun \in BOOLEAN /\ stopped \in BOOLEAN /\ calm \in BOOLEAN
  /\ hello \in {"none", "recent", "stale"}
  /\ timer \in {"null", "idle", "armed"}
  /\ round \in Nat /\ (round > 0 /\ ~stopped => round < max_reconnect)
  /\ work \in Seq(Entry)
  /\ phase \in [Socket -> {"unused", "idle", "trying", "failed", "phantom",
                       "open", "over", "shut"}]
  /\ closing \subseteq Socket /\ deaf \subseteq Socket /\ garbled \subseteq Socket

\* Something will happen to the task: its timer runs, or its socket is being
\* connected or is open, or the end of its socket is on its way.
HasFuture ==
  \/ timer = "armed"
  \/ /\ current # None
     /\ phase[current] \in {"idle", "trying", "open"} \/ Queued(current, "closed")

\* TryReconnectServerInner and StopProcess: until it is stopped the task is
\* never left without a connection, an attempt or a timer, whatever late
\* reports it gets; afterwards nothing ever starts again.
NeverStuck == begun => (HasFuture <=> ~stopped)

\* TryReconnectServerInner and the timer's ConnectToServer: every socket that
\* tcp_socket_ no longer points to has been told to close.
NoAbandonedSocket ==
  \A s \in Socket :
    s # current /\ phase[s] \notin {"unused", "shut"} => s \in closing

\* ScheduleEvent measures nothing while last_hello_time_ is 0: a connection
\* that was reported is being measured, although reports of older sockets
\* reset the time.
SilenceNoticed ==
  current # None =>
    (phase[current] = "open" /\ ~Queued(current, "connected") => hello # "none")

ConnPhase(s) == IF phase[s] = "unused" THEN "idle" ELSE phase[s]

Conn(s) ==
  INSTANCE Connection WITH
    phase <- ConnPhase(s), reports <- ReportsOf(s),
    listening <- s \notin deaf, held <- (current = s \/ phase[s] = "unused")

\* The object stands for a new socket.
Renewed(s) == phase[s] = "shut" /\ phase'[s] = "idle" /\ ReportsOf(s)' = <<>>

\* TcpSocketWrapper as the task uses it: the task keeps to what Connection
\* expects of an owner, and its sockets to what Connection promises.
SocketsBehave ==
  [][\A s \in Socket :
       [Conn(s)!Next \/ Renewed(s)]_<<phase[s], ReportsOf(s), s \in deaf, current = s>>
    ]_<<phase, work, deaf, current>>

\* OnCloseEvent and the reconnect timer: once the server serves well the task
\* gets and keeps a connection and is verified, unless it is stopped.  (It may
\* have been verified by a late packet of a socket it had before.)
Recovers ==
  begun /\ calm ~> [](stopped \/ (verified /\ current # None /\ phase[current] = "open"))
=============================================================================

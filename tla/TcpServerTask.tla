--------------------------- MODULE TcpServerTask ---------------------------
(***************************************************************************)
(* TcpServerTask (tcp_server_task.cpp) from the accept of its connection   *)
(* to the release of the last reference to it.  Three loops take part: the *)
(* one of the listening socket, which accepts and calls BeginProcess, the  *)
(* network loop of the accepted socket, and the worker loop, where reports *)
(* and timers run.  `setup` says which of them are one: all of them, as in *)
(* the test programs ("one"), or the listener shares the network loop or   *)
(* the worker loop, and the other has a thread of its own.                 *)
(*                                                                         *)
(* The accepted socket is what Connection says of it, except that on one   *)
(* loop RunInLoop runs a report, or a close, inside its caller.            *)
(*                                                                         *)
(* OnRecvVerifyMsg accepts or refuses, MsgParse may call OnRecvHelloMsg,   *)
(* either may send, and a manager that holds the task calls ScheduleEvent  *)
(* on the worker loop again and again.  A user may hold the task as well.  *)
(* A data report carries at most one packet.                               *)
(***************************************************************************)
EXTENDS Naturals, Sequences

CONSTANTS
  Setups,     \* the setups that are looked at
  MaxReports  \* (bound) reports that wait in the worker loop's queue

ASSUME ServerAssumption ==
  /\ Setups \subseteq {"one", "network", "worker"}
  /\ MaxReports \in Nat \ {0}

VARIABLES
  setup,        \* the loop that accepts: "one" for all, "network" or "worker"
  stage,        \* "listening", "accepted", and "begun" after BeginProcess
  conn,         \* conn_socket_ is not null
  verified,     \* verified_client_
  hello,        \* last_hello_time_: "none" for 0, else its age
  close_timer,  \* close_timer_
  verify_timer, \* verify_timer_
  unseen,       \* the worker loop fell asleep before the verify timer was added
  managed,      \* the task is with its manager
  stopped,      \* (history) StopProcess was called
  revived,      \* (history) AddToManager was called after StopProcess
  work,         \* the reports in the worker loop's queue
  phase,        \* Connection's phase of the accepted socket
  listening,    \* SignalReadPacket and SignalOnCloseEvent are set
  garbled,      \* the packet loop has met an illegal payload length
  mute          \* (assumption) the client sends nothing from now on

task == <<stage, conn, verified, hello, close_timer, verify_timer, managed,
          stopped, revived>>
vars == <<setup, task, unseen, work, phase, listening, garbled, mute>>

Report == {"closed", "data"}
Timer == {"null", "idle", "armed"}
Live == {"idle", "open", "over"}

Init ==
  /\ setup \in Setups
  /\ stage = "listening" /\ conn = FALSE /\ verified = FALSE
  /\ hello = "none" /\ close_timer = "null" /\ verify_timer = "null"
  /\ unseen = FALSE /\ managed = FALSE /\ stopped = FALSE
  /\ revived = FALSE /\ work = <<>>
  /\ phase = "idle" /\ listening = FALSE /\ garbled = FALSE /\ mute = FALSE

-----------------------------------------------------------------------------
(* The loop of the listening socket.                                       *)

\* OnNewConnection calls SignalNewConnection, whose handler calls
\* AcceptConnection.  BeginProcessInNetworkLoop is run at once if this is the
\* accepted socket's own loop.
AcceptConnection ==
  /\ stage = "listening" /\ stage' = "accepted"
  /\ phase' = IF setup = "worker" THEN "idle" ELSE "open"
  /\ UNCHANGED <<setup, conn, verified, hello, close_timer, verify_timer,
                 managed, stopped, revived, unseen, work, listening,
                 garbled, mute>>

\* BeginProcess that leaves last_hello_time_ at 0.
BeginProcessUntimed ==
  /\ stage = "accepted" /\ stage' = "begun"
  /\ conn' = TRUE /\ listening' = TRUE
  /\ close_timer' = "idle" /\ verify_timer' = "armed"
  /\ unseen' = (setup = "network")
  /\ UNCHANGED <<setup, verified, hello, managed, stopped, revived, work,
                 phase, garbled, mute>>

\* The handler goes on with BeginProcess, which no other step of its own loop
\* interrupts.  It adds a timer to the worker loop, which that loop does not
\* notice while it sleeps, if it is another one.
BeginProcess ==
  /\ stage = "accepted" /\ stage' = "begun"
  /\ conn' = TRUE /\ listening' = TRUE
  /\ close_timer' = "idle" /\ verify_timer' = "armed" /\ hello' = "recent"
  /\ unseen' = (setup = "network")
  /\ UNCHANGED <<setup, verified, managed, stopped, revived, work, phase,
                 garbled, mute>>

-----------------------------------------------------------------------------
(* What the task's functions do on the worker loop.                        *)

\* CloseConnection: on one loop the socket is shut before the call returns.
CloseConnection == phase' = IF setup = "one" /\ conn THEN "shut" ELSE phase

\* StopProcess that leaves the socket's signals set.
StopKeepsSignals ==
  /\ managed' = FALSE /\ revived' = FALSE /\ stopped' = TRUE
  /\ CloseConnection
  /\ conn' = FALSE
  /\ close_timer' = "null" /\ verify_timer' = "null"
  /\ UNCHANGED listening

\* StopProcess that leaves the verify timer alone.
StopKeepsVerifyTimer ==
  /\ managed' = FALSE /\ revived' = FALSE /\ stopped' = TRUE
  /\ listening' = FALSE /\ CloseConnection
  /\ conn' = FALSE
  /\ close_timer' = "null" /\ UNCHANGED verify_timer

\* StopProcess that closes its socket and keeps the pointer.
StopKeepsSocket ==
  /\ managed' = FALSE /\ revived' = FALSE /\ stopped' = TRUE
  /\ listening' = FALSE /\ CloseConnection
  /\ close_timer' = "null" /\ verify_timer' = "null"
  /\ UNCHANGED conn

\* What StopProcess lets go of.
Release ==
  /\ stopped' = TRUE
  /\ listening' = FALSE /\ CloseConnection
  /\ conn' = FALSE
  /\ close_timer' = "null" /\ verify_timer' = "null"

\* StopProcess, and StopProcessV2: without notify_manager it is the manager
\* that calls, and that drops the task itself.
StopProcess == managed' = FALSE /\ revived' = FALSE /\ Release

\* Whatever runs on the worker loop, the loop then looks at its timers.
WorkerRuns ==
  /\ unseen' = FALSE
  /\ UNCHANGED <<setup, stage, mute>>

-----------------------------------------------------------------------------
(* Timers and calls on the worker loop.                                    *)

\* OnCheckVerified that only logs.
OnCheckVerifiedIdle ==
  /\ verify_timer = "armed" /\ ~unseen
  /\ verify_timer' = "idle"
  /\ WorkerRuns
  /\ UNCHANGED <<conn, verified, hello, close_timer, managed, stopped,
                 revived, work, phase, listening, garbled>>

\* The verify timer fires, 3 seconds after BeginProcess.
OnCheckVerified ==
  /\ verify_timer = "armed" /\ ~unseen
  /\ verify_timer' = "idle"
  /\ close_timer' = IF verified THEN close_timer ELSE "armed"
  /\ WorkerRuns
  /\ UNCHANGED <<conn, verified, hello, managed, stopped, revived, work,
                 phase, listening, garbled>>

\* The close timer fires; its handler is StopProcess, which deletes it.
CloseTimerFires ==
  /\ close_timer = "armed"
  /\ StopProcess
  /\ WorkerRuns
  /\ UNCHANGED <<verified, hello, work, garbled>>

\* The manager's ScheduleEvent finds no hello for more than 30 seconds; the
\* close timer starts again if it is running.  The program ends here if there
\* is none.
ScheduleEvent ==
  /\ managed /\ verified /\ hello = "stale"
  /\ close_timer # "null"
  /\ close_timer' = "armed"
  /\ WorkerRuns
  /\ UNCHANGED <<conn, verified, hello, verify_timer, managed, stopped,
                 revived, work, phase, listening, garbled>>

\* The timer that drives the manager wakes the worker loop in any case.
Tick ==
  /\ unseen
  /\ WorkerRuns
  /\ UNCHANGED <<conn, verified, hello, close_timer, verify_timer, managed,
                 stopped, revived, work, phase, listening, garbled>>

\* The user or the manager stops the task.
UserStops ==
  /\ stage = "begun"
  /\ StopProcess
  /\ WorkerRuns
  /\ UNCHANGED <<verified, hello, work, garbled>>

-----------------------------------------------------------------------------
(* Reports of the socket.                                                  *)

\* A worker loop that is inside the accepting handler runs no report; another
\* one has none yet.
TakeReport(r) ==
  /\ stage = "begun"
  /\ work # <<>> /\ Head(work) = r
  /\ work' = Tail(work)
  /\ WorkerRuns

OnCloseEvent ==
  /\ TakeReport("closed")
  /\ StopProcess
  /\ UNCHANGED <<verified, hello, garbled>>

\* The first packet that OnRecvVerifyMsg accepts, and AddToManager.
Verify == ~verified /\ verified' = TRUE /\ UNCHANGED hello

\* A packet it refuses, after which the next one may try again.
Refuse == ~verified /\ UNCHANGED <<verified, hello>>

\* MsgParse, which may meet a hello.
Parse == verified /\ hello' \in {hello, "recent"} /\ UNCHANGED verified

\* A packet of a client whose task listens.
TakePacket ==
  /\ TakeReport("data")
  /\ listening /\ ~garbled
  /\ Verify \/ Refuse \/ Parse
  /\ UNCHANGED garbled

OnInternalPacket ==
  /\ TakePacket
  /\ managed' = (managed \/ verified' # verified)
  /\ UNCHANGED <<conn, close_timer, verify_timer, stopped, revived, phase,
                 listening>>

\* On one loop, a send that fails inside OnRecvVerifyMsg or MsgParse runs
\* OnErrorEvent and StopProcess before it returns true; OnInternalPacket then
\* goes on, and may add the stopped task to its manager.  (If nobody else has
\* a shared_ptr to the task, it is destroyed before that.)
OnInternalPacketStopped ==
  /\ TakePacket
  /\ setup = "one" /\ phase = "open"
  /\ Release
  /\ managed' = (verified' # verified) /\ revived' = managed'

\* No packet is complete, or the packets are dropped because nobody listens.
NoPacket ==
  /\ TakeReport("data")
  /\ ~garbled
  /\ UNCHANGED <<conn, verified, hello, close_timer, verify_timer, managed,
                 stopped, revived, phase, listening, garbled>>

\* An illegal payload length: SignalOnCloseEvent is called if it is set.
BadPayload ==
  /\ TakeReport("data")
  /\ garbled' = TRUE
  /\ \/ listening /\ StopProcess
     \/ /\ ~listening
        /\ UNCHANGED <<conn, close_timer, verify_timer, managed, stopped,
                       revived, phase, listening>>
  /\ UNCHANGED <<verified, hello>>

RunReport ==
  \/ OnCloseEvent \/ OnInternalPacket \/ OnInternalPacketStopped
  \/ NoPacket \/ BadPayload

-----------------------------------------------------------------------------
(* The network loop, as Connection has it.                                 *)

\* The loop that is inside the accepting handler handles nothing else.
NetworkRuns ==
  /\ stage # "listening"
  /\ setup # "worker" => stage = "begun"
  /\ UNCHANGED <<setup, stage, verified, hello, garbled, mute>>

Quiet == UNCHANGED <<conn, close_timer, verify_timer, unseen, managed,
                     stopped, revived, listening>>

\* BeginProcessInNetworkLoop, queued by AcceptConnection.
Accepted ==
  /\ phase = "idle" /\ phase' = "open"
  /\ NetworkRuns /\ Quiet
  /\ UNCHANGED work

\* The process functor is queued on any setup, with or without a listener.
Data ==
  /\ phase = "open" /\ ~garbled /\ ~mute
  /\ Len(work) < MaxReports
  /\ work' = Append(work, "data")
  /\ NetworkRuns /\ Quiet
  /\ UNCHANGED phase

\* OnErrorEvent that does not look whether the signal is set.
EndUnchecked ==
  /\ phase \in Live \ {"idle"} /\ setup # "one"
  /\ phase' = "over"
  /\ Len(work) < MaxReports
  /\ work' = Append(work, IF listening THEN "closed" ELSE "empty")
  /\ NetworkRuns /\ Quiet

\* OnErrorEvent; the report is queued, or run at once on one loop.
End ==
  /\ phase \in Live \ {"idle"} /\ setup # "one"
  /\ phase' = "over"
  /\ Len(work) < MaxReports
  /\ work' = IF listening THEN Append(work, "closed") ELSE work
  /\ NetworkRuns /\ Quiet

EndAtOnce ==
  /\ phase \in Live /\ setup = "one" /\ listening
  /\ StopProcess
  /\ unseen' = FALSE
  /\ NetworkRuns
  /\ UNCHANGED work

\* CloseConnectionInNetworkLoop, queued by StopProcess.
Shut ==
  /\ stage = "begun" /\ ~conn
  /\ phase \in Live /\ phase' = "shut"
  /\ NetworkRuns /\ Quiet
  /\ UNCHANGED work

Network == Accepted \/ Data \/ End \/ EndAtOnce \/ Shut

-----------------------------------------------------------------------------
(* Time and the client.                                                    *)

\* 30 seconds pass without a hello.
HelloAges ==
  /\ hello = "recent" /\ hello' = "stale"
  /\ UNCHANGED <<setup, stage, conn, verified, close_timer, verify_timer,
                 managed, stopped, revived, unseen, work, phase, listening,
                 garbled, mute>>

FallsMute ==
  /\ ~mute /\ mute' = TRUE
  /\ UNCHANGED <<setup, task, unseen, work, phase, listening, garbled>>

Acceptor == AcceptConnection \/ BeginProcess
Worker ==
  \/ OnCheckVerified \/ CloseTimerFires \/ ScheduleEvent \/ Tick
  \/ UserStops \/ RunReport

Next == Acceptor \/ Worker \/ Network \/ HelloAges \/ FallsMute

Spec == Init /\ [][Next]_vars

\* The worker loop runs what is queued and due, the manager is driven by a
\* timer of that loop, and time passes.
FairSpec ==
  /\ Spec
  /\ WF_vars(RunReport) /\ WF_vars(OnCheckVerified) /\ WF_vars(CloseTimerFires)
  /\ WF_vars(ScheduleEvent) /\ WF_vars(Tick) /\ WF_vars(HelloAges)

-----------------------------------------------------------------------------
(* Properties.                                                             *)

TypeOK ==
  /\ setup \in Setups /\ stage \in {"listening", "accepted", "begun"}
  /\ conn \in BOOLEAN /\ verified \in BOOLEAN /\ unseen \in BOOLEAN
  /\ hello \in {"none", "recent", "stale"}
  /\ close_timer \in Timer /\ verify_timer \in Timer
  /\ managed \in BOOLEAN /\ stopped \in BOOLEAN /\ revived \in BOOLEAN
  /\ work \in Seq(Report) /\ Len(work) <= MaxReports
  /\ phase \in Live \cup {"shut"}
  /\ listening \in BOOLEAN /\ garbled \in BOOLEAN /\ mute \in BOOLEAN

\* OnCheckVerified and ScheduleEvent call close_timer_->AsyncWait() without
\* looking: no late packet, timer or call of a manager finds it deleted, but
\* for one way to lose it, on one loop: a packet that verifies the client and
\* whose answer fails.
NoNullTimer ==
  /\ verify_timer = "armed" => close_timer # "null"
  /\ managed /\ close_timer = "null" => setup = "one" /\ revived

\* Until it is stopped, every task has something that can end it: a running
\* timer, or a manager that measures the time since its client's last hello.
Watched ==
  stage = "begun" /\ ~stopped =>
    \/ verify_timer = "armed" \/ close_timer = "armed"
    \/ verified /\ managed /\ hello # "none"

\* Somebody has a shared_ptr to the task: the manager, the callbacks bound by
\* BeginProcess, or a queued copy of SignalOnCloseEvent.
Referenced ==
  \/ managed \/ listening
  \/ close_timer # "null" \/ verify_timer # "null"
  \/ \E i \in DOMAIN work : work[i] = "closed"

\* StopProcess breaks every circle of references, for good: a stopped task is
\* released, whatever is still queued for it, unless it was added to its
\* manager after that.
Freed == stopped ~> [](Referenced => revived)

\* OnCloseEvent, OnCheckVerified and ScheduleEvent: a client that is gone,
\* falls silent or sends an illegal length is dropped, also when its close
\* came before BeginProcess had set the signals.
Dropped ==
  stage = "begun" /\ (mute \/ garbled \/ phase = "over") ~> stopped

Conn ==
  INSTANCE Connection WITH
    reports <- work, held <- (stage # "begun" \/ conn)

\* On more than one loop the task is an owner as Connection expects one, and
\* its socket behaves as Connection says.
SocketBehaves ==
  [][setup # "one" => Conn!Next]_<<phase, work, listening,
                                   stage # "begun" \/ conn>>
=============================================================================

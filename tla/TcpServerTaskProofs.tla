------------------------ MODULE TcpServerTaskProofs ------------------------
(***************************************************************************)
(* Proofs about TcpServerTask for every setup of its loops and any number  *)
(* of reports in the worker loop's queue.                                  *)
(***************************************************************************)
EXTENDS TcpServerTask, SequenceTheorems, TLAPS

\* AcceptConnection was called and BeginProcess was not: the task is as its
\* constructor left it.
Unbegun ==
  stage # "begun" =>
    /\ ~conn /\ ~listening /\ ~verified /\ ~managed /\ ~stopped
    /\ close_timer = "null" /\ verify_timer = "null"

\* After BeginProcess and before StopProcess.
Running ==
  stage = "begun" /\ ~stopped =>
    /\ conn /\ listening
    /\ close_timer # "null" /\ verify_timer # "null"
    /\ hello # "none"
    /\ verified => managed
    /\ ~verified => verify_timer = "armed" \/ close_timer = "armed"

\* After StopProcess; a second call finds nothing to do.  Only a packet that
\* was interrupted, on one loop, brings the task back to its manager.
Ended ==
  stopped =>
    /\ ~conn /\ ~listening
    /\ managed => setup = "one" /\ revived
    /\ close_timer = "null" /\ verify_timer = "null"

\* Nothing happens on a connection before it is accepted.
Fresh == stage = "listening" => phase = "idle"

ServerInv == Unbegun /\ Running /\ Ended /\ Fresh

-----------------------------------------------------------------------------
(* The types.                                                              *)

LEMMA TypeInit == Init => TypeOK
<1> SUFFICES ASSUME Init PROVE TypeOK
  OBVIOUS
<1>1. /\ conn \in BOOLEAN /\ verified \in BOOLEAN /\ unseen \in BOOLEAN
      /\ managed \in BOOLEAN /\ stopped \in BOOLEAN /\ revived \in BOOLEAN
      /\ listening \in BOOLEAN /\ garbled \in BOOLEAN /\ mute \in BOOLEAN
  BY Zenon DEF Init
<1>2. work \in Seq(Report) /\ Len(work) <= MaxReports
  BY ServerAssumption DEF Init, ServerAssumption
<1> QED
  BY <1>1, <1>2 DEF Init, TypeOK, Timer, Live

\* The worker loop takes the first report of its queue.
LEMMA Taken ==
  ASSUME TypeOK, NEW r, TakeReport(r)
  PROVE  /\ work' \in Seq(Report) /\ Len(work') <= MaxReports
         /\ 1 \in DOMAIN work /\ work[1] = r
         /\ \A i \in DOMAIN work' :
              i + 1 \in DOMAIN work /\ work'[i] = work[i + 1]
  BY ServerAssumption DEF TypeOK, TakeReport

\* A report is queued last.
LEMMA Queued ==
  ASSUME TypeOK, NEW r \in Report, work' = Append(work, r),
         Len(work) < MaxReports
  PROVE  work' \in Seq(Report) /\ Len(work') <= MaxReports
  BY ServerAssumption DEF TypeOK

\* StopProcess, wherever it is called from.
LEMMA TypeRelease ==
  ASSUME TypeOK, Release
  PROVE  /\ conn' \in BOOLEAN /\ stopped' \in BOOLEAN
         /\ listening' \in BOOLEAN
         /\ close_timer' \in Timer /\ verify_timer' \in Timer
         /\ phase' \in Live \cup {"shut"}
  BY DEF TypeOK, Release, CloseConnection, Timer, Live

LEMMA TypeStop ==
  ASSUME TypeOK, StopProcess
  PROVE  /\ conn' \in BOOLEAN /\ managed' \in BOOLEAN /\ stopped' \in BOOLEAN
         /\ revived' \in BOOLEAN /\ listening' \in BOOLEAN
         /\ close_timer' \in Timer /\ verify_timer' \in Timer
         /\ phase' \in Live \cup {"shut"}
  BY TypeRelease DEF StopProcess

\* A packet, whether it is interrupted or not.
LEMMA TypePacket ==
  ASSUME TypeOK, TakePacket
  PROVE  /\ TakeReport("data")
         /\ verified' \in BOOLEAN /\ hello' \in {"none", "recent", "stale"}
         /\ (verified' # verified) \in BOOLEAN
         /\ UNCHANGED garbled
  BY DEF TakePacket, Verify, Refuse, Parse, TypeOK

LEMMA TypeReport == TypeOK /\ RunReport => TypeOK'
<1> SUFFICES ASSUME TypeOK, RunReport PROVE TypeOK'
  OBVIOUS
<1>1. CASE OnCloseEvent
  BY <1>1, Taken, TypeStop DEF OnCloseEvent, TakeReport, WorkerRuns, TypeOK
<1>2. CASE OnInternalPacket
  <2>1. managed' \in BOOLEAN
    BY <1>2 DEF OnInternalPacket
  <2>2. TakePacket
    BY <1>2 DEF OnInternalPacket
  <2> QED
    BY <1>2, <2>1, <2>2, TypePacket, Taken
    DEF OnInternalPacket, TakeReport, WorkerRuns, TypeOK
<1>3. CASE OnInternalPacketStopped
  <2>1. managed' \in BOOLEAN /\ revived' \in BOOLEAN
    BY <1>3 DEF OnInternalPacketStopped
  <2>2. TakePacket /\ Release
    BY <1>3 DEF OnInternalPacketStopped
  <2> QED
    BY <2>1, <2>2, TypePacket, TypeRelease, Taken
    DEF TakeReport, WorkerRuns, TypeOK
<1>4. CASE NoPacket
  BY <1>4, Taken DEF NoPacket, TakeReport, WorkerRuns, TypeOK
<1>5. CASE BadPayload
  <2>1. TakeReport("data")
    BY <1>5 DEF BadPayload
  <2>2. CASE StopProcess
    BY <1>5, <2>1, <2>2, Taken, TypeStop
    DEF BadPayload, TakeReport, WorkerRuns, TypeOK
  <2>3. CASE ~StopProcess
    BY <1>5, <2>1, <2>3, Taken DEF BadPayload, TakeReport, WorkerRuns, TypeOK
  <2> QED
    BY <2>2, <2>3
<1> QED
  BY <1>1, <1>2, <1>3, <1>4, <1>5 DEF RunReport

LEMMA TypeWorker == TypeOK /\ Worker => TypeOK'
<1> SUFFICES ASSUME TypeOK, Worker PROVE TypeOK'
  OBVIOUS
<1>1. CASE OnCheckVerified
  BY <1>1, ZenonT(60) DEF OnCheckVerified, WorkerRuns, TypeOK, Timer
<1>2. CASE CloseTimerFires
  BY <1>2, TypeStop DEF CloseTimerFires, WorkerRuns, TypeOK
<1>3. CASE ScheduleEvent
  BY <1>3 DEF ScheduleEvent, WorkerRuns, TypeOK, Timer
<1>4. CASE Tick
  BY <1>4, ZenonT(60) DEF Tick, WorkerRuns, TypeOK
<1>5. CASE UserStops
  BY <1>5, TypeStop DEF UserStops, WorkerRuns, TypeOK
<1> QED
  BY <1>1, <1>2, <1>3, <1>4, <1>5, TypeReport DEF Worker

LEMMA TypeNetwork == TypeOK /\ Network => TypeOK'
<1> SUFFICES ASSUME TypeOK, Network PROVE TypeOK'
  OBVIOUS
<1>1. CASE Accepted \/ Shut
  BY <1>1 DEF Accepted, Shut, NetworkRuns, Quiet, TypeOK, Live
<1>2. CASE Data
  <2>1. work' \in Seq(Report) /\ Len(work') <= MaxReports
    BY <1>2, Queued DEF Data, Report
  <2> QED
    BY <1>2, <2>1 DEF Data, NetworkRuns, Quiet, TypeOK
<1>3. CASE End
  <2>1. work' \in Seq(Report) /\ Len(work') <= MaxReports
    BY <1>3, Queued DEF End, Report, TypeOK
  <2> QED
    BY <1>3, <2>1 DEF End, NetworkRuns, Quiet, TypeOK, Live
<1>4. CASE EndAtOnce
  BY <1>4, TypeStop DEF EndAtOnce, NetworkRuns, TypeOK
<1> QED
  BY <1>1, <1>2, <1>3, <1>4 DEF Network

LEMMA TypeNext == TypeOK /\ [Next]_vars => TypeOK'
<1> SUFFICES ASSUME TypeOK, [Next]_vars PROVE TypeOK'
  OBVIOUS
<1>1. CASE Acceptor
  <2>1. CASE AcceptConnection
    BY <2>1 DEF AcceptConnection, TypeOK, Live
  <2>2. CASE BeginProcess
    <3>1. conn' \in BOOLEAN /\ listening' \in BOOLEAN /\ unseen' \in BOOLEAN
      BY <2>2, Zenon DEF BeginProcess
    <3> QED
      BY <2>2, <3>1 DEF BeginProcess, TypeOK, Timer
  <2> QED
    BY <1>1, <2>1, <2>2 DEF Acceptor
<1>2. CASE HelloAges \/ FallsMute
  BY <1>2, ZenonT(60) DEF HelloAges, FallsMute, TypeOK, task
<1>3. CASE UNCHANGED vars
  BY <1>3 DEF vars, task, TypeOK
<1> QED
  BY <1>1, <1>2, <1>3, TypeWorker, TypeNetwork DEF Next

-----------------------------------------------------------------------------
(* The life of the task.                                                   *)

LEMMA ServerInit == Init => ServerInv
  BY DEF Init, ServerInv, Unbegun, Running, Ended, Fresh

\* StopProcess of a task that was begun.
LEMMA ServerStop ==
  ASSUME TypeOK, stage = "begun", StopProcess, UNCHANGED stage
  PROVE  ServerInv'
  BY DEF StopProcess, Release, ServerInv, Unbegun, Running, Ended, Fresh

\* Steps that only take a report from the queue.
LEMMA ServerTake ==
  ASSUME TypeOK, ServerInv, NEW r, TakeReport(r),
         UNCHANGED <<conn, listening, managed, stopped, revived,
                     close_timer, verify_timer, verified, hello, phase>>
  PROVE  ServerInv'
<1>1. UNCHANGED <<stage, setup>>
  BY DEF TakeReport, WorkerRuns
<1> QED
  BY <1>1 DEF ServerInv, Unbegun, Running, Ended, Fresh

LEMMA ServerReport == TypeOK /\ ServerInv /\ RunReport => ServerInv'
<1> SUFFICES ASSUME TypeOK, ServerInv, RunReport PROVE ServerInv'
  OBVIOUS
<1>1. CASE OnCloseEvent
  BY <1>1, ServerStop DEF OnCloseEvent, TakeReport, WorkerRuns
<1>2. CASE OnInternalPacket
  <2>1. /\ listening /\ UNCHANGED <<stage, conn, listening, stopped,
                                    close_timer, verify_timer>>
        /\ managed' = (managed \/ verified' # verified)
    BY <1>2 DEF OnInternalPacket, TakePacket, TakeReport, WorkerRuns
  <2>2. stage = "begun" /\ ~stopped
    BY <2>1 DEF ServerInv, Unbegun, Ended
  <2>3. CASE Verify \/ Refuse
    BY <2>1, <2>2, <2>3
    DEF Verify, Refuse, TypeOK, ServerInv, Unbegun, Running, Ended, Fresh
  <2>4. CASE Parse
    BY <2>1, <2>2, <2>4
    DEF Parse, TypeOK, ServerInv, Unbegun, Running, Ended, Fresh
  <2> QED
    BY <1>2, <2>3, <2>4 DEF OnInternalPacket, TakePacket
<1>3. CASE OnInternalPacketStopped
  <2>1. /\ stage = "begun" /\ UNCHANGED <<stage, setup>>
        /\ setup = "one" /\ Release /\ revived' = managed'
        /\ managed' = (verified' # verified)
    BY <1>3 DEF OnInternalPacketStopped, TakePacket, TakeReport, WorkerRuns
  <2> QED
    BY <2>1 DEF Release, ServerInv, Unbegun, Running, Ended, Fresh
<1>4. CASE NoPacket
  BY <1>4, ServerTake DEF NoPacket
<1>5. CASE BadPayload
  <2>1. TakeReport("data") /\ UNCHANGED <<stage, verified, hello>>
    BY <1>5 DEF BadPayload, TakeReport, WorkerRuns
  <2>2. CASE listening /\ StopProcess
    <3>1. stage = "begun"
      BY <2>2 DEF ServerInv, Unbegun
    <3> QED
      BY <2>1, <2>2, <3>1, ServerStop
  <2>3. CASE ~listening
    BY <1>5, <2>1, <2>3, ServerTake DEF BadPayload
  <2> QED
    BY <1>5, <2>2, <2>3 DEF BadPayload
<1> QED
  BY <1>1, <1>2, <1>3, <1>4, <1>5 DEF RunReport

LEMMA ServerWorker == TypeOK /\ ServerInv /\ Worker => ServerInv'
<1> SUFFICES ASSUME TypeOK, ServerInv, Worker PROVE ServerInv'
  OBVIOUS
<1>1. CASE OnCheckVerified
  <2>1. stage = "begun" /\ ~stopped
    BY <1>1 DEF OnCheckVerified, ServerInv, Unbegun, Ended, TypeOK
  <2> QED
    BY <1>1, <2>1
    DEF OnCheckVerified, WorkerRuns, TypeOK, ServerInv, Unbegun, Running,
        Ended, Fresh
<1>2. CASE CloseTimerFires
  <2>1. stage = "begun" /\ StopProcess /\ UNCHANGED stage
    BY <1>2 DEF CloseTimerFires, WorkerRuns, ServerInv, Unbegun, TypeOK
  <2> QED
    BY <2>1, ServerStop
<1>3. CASE ScheduleEvent
  <2>1. stage = "begun" /\ ~stopped
    BY <1>3 DEF ScheduleEvent, ServerInv, Unbegun, Ended, TypeOK
  <2> QED
    BY <1>3, <2>1
    DEF ScheduleEvent, WorkerRuns, TypeOK, ServerInv, Unbegun, Running,
        Ended, Fresh
<1>4. CASE Tick
  BY <1>4 DEF Tick, WorkerRuns, ServerInv, Unbegun, Running, Ended, Fresh
<1>5. CASE UserStops
  BY <1>5, ServerStop DEF UserStops, WorkerRuns
<1> QED
  BY <1>1, <1>2, <1>3, <1>4, <1>5, ServerReport DEF Worker

LEMMA ServerNetwork == TypeOK /\ ServerInv /\ Network => ServerInv'
<1> SUFFICES ASSUME TypeOK, ServerInv, Network PROVE ServerInv'
  OBVIOUS
<1>1. CASE Accepted \/ Shut
  BY <1>1 DEF Accepted, Shut, NetworkRuns, Quiet, ServerInv, Unbegun, Running,
              Ended, Fresh
<1>2. CASE Data \/ End
  BY <1>2 DEF Data, End, NetworkRuns, Quiet, ServerInv, Unbegun, Running,
              Ended, Fresh
<1>3. CASE EndAtOnce
  <2>1. stage = "begun" /\ StopProcess /\ UNCHANGED stage
    BY <1>3 DEF EndAtOnce, NetworkRuns, ServerInv, Unbegun
  <2> QED
    BY <2>1, ServerStop
<1> QED
  BY <1>1, <1>2, <1>3 DEF Network

LEMMA ServerNext == TypeOK /\ ServerInv /\ [Next]_vars => ServerInv'
<1> SUFFICES ASSUME TypeOK, ServerInv, [Next]_vars PROVE ServerInv'
  OBVIOUS
<1>1. CASE AcceptConnection
  BY <1>1 DEF AcceptConnection, ServerInv, Unbegun, Running, Ended, Fresh
<1>2. CASE BeginProcess
  BY <1>2 DEF BeginProcess, ServerInv, Unbegun, Running, Ended, Fresh, TypeOK
<1>3. CASE HelloAges
  BY <1>3 DEF HelloAges, ServerInv, Unbegun, Running, Ended, Fresh
<1>4. CASE FallsMute \/ UNCHANGED vars
  BY <1>4 DEF FallsMute, vars, task, ServerInv, Unbegun, Running, Ended, Fresh
<1> QED
  BY <1>1, <1>2, <1>3, <1>4, ServerWorker, ServerNetwork DEF Next, Acceptor

-----------------------------------------------------------------------------
(* The socket, as its owner sees it.                                       *)

\* What Connection calls held.
Holds == stage # "begun" \/ conn

\* StopProcess on the worker loop releases the socket, or does nothing.
LEMMA StopReleases ==
  ASSUME TypeOK, ServerInv, setup # "one", stage = "begun",
         StopProcess, UNCHANGED stage
  PROVE  /\ UNCHANGED phase
         /\ \/ Holds /\ Holds' = FALSE /\ listening' = FALSE
            \/ UNCHANGED <<listening, Holds>>
<1>1. UNCHANGED phase
  BY DEF StopProcess, Release, CloseConnection
<1>2. conn' = FALSE /\ listening' = FALSE /\ Holds' = FALSE
  BY DEF StopProcess, Release, Holds
<1>3. CASE stopped
  BY <1>1, <1>2, <1>3 DEF ServerInv, Ended, Holds, TypeOK
<1>4. CASE ~stopped
  BY <1>1, <1>2, <1>4 DEF ServerInv, Running, Holds
<1> QED
  BY <1>3, <1>4

\* What the owner and the network see of the socket.
Seen == <<phase, work, listening, stage # "begun" \/ conn>>

\* A report that is taken is delivered in the sense of Connection.
LEMMA ReportSeen ==
  ASSUME TypeOK, ServerInv, setup # "one", RunReport
  PROVE  Conn!Next
<1>1. PICK r \in Report : TakeReport(r)
  BY DEF RunReport, OnCloseEvent, OnInternalPacket, OnInternalPacketStopped,
         TakePacket, NoPacket, BadPayload, Report
<1>2. work # <<>> /\ work' = Tail(work) /\ UNCHANGED stage
  BY <1>1 DEF TakeReport, WorkerRuns
<1>3. CASE StopProcess /\ stage = "begun"
  <2>1. Conn!Deliver
    BY <1>2, <1>3, StopReleases DEF Conn!Deliver, Conn!LetGo, Holds
  <2> QED
    BY <2>1 DEF Conn!Next
<1>4. CASE UNCHANGED <<phase, listening, conn>>
  BY <1>2, <1>4 DEF Conn!Deliver, Conn!Next
<1>5. (StopProcess /\ stage = "begun") \/ UNCHANGED <<phase, listening, conn>>
  <2>1. CASE OnCloseEvent
    BY <2>1 DEF OnCloseEvent, TakeReport
  <2>2. CASE BadPayload
    BY <2>2 DEF BadPayload, ServerInv, Unbegun
  <2> QED
    BY <2>1, <2>2
    DEF RunReport, OnInternalPacket, OnInternalPacketStopped, NoPacket
<1> QED
  BY <1>3, <1>4, <1>5

\* Timers and calls on the worker loop.
LEMMA WorkerSeen ==
  ASSUME TypeOK, ServerInv, setup # "one", Worker
  PROVE  Conn!Next \/ UNCHANGED Seen
<1>1. CASE RunReport
  BY <1>1, ReportSeen
<1>2. CASE CloseTimerFires \/ UserStops
  <2>1. StopProcess /\ stage = "begun" /\ UNCHANGED <<stage, work>>
    BY <1>2 DEF CloseTimerFires, UserStops, WorkerRuns, ServerInv, Unbegun,
                TypeOK
  <2>2. /\ UNCHANGED phase
        /\ \/ Holds /\ Holds' = FALSE /\ listening' = FALSE
           \/ UNCHANGED <<listening, Holds>>
    BY <2>1, StopReleases
  <2>3. CASE UNCHANGED <<listening, Holds>>
    BY <2>1, <2>2, <2>3 DEF Seen, Holds
  <2>4. CASE Holds /\ Holds' = FALSE /\ listening' = FALSE
    BY <2>1, <2>2, <2>4 DEF Conn!LetGo, Conn!Release, Conn!Next, Holds
  <2> QED
    BY <2>2, <2>3, <2>4
<1>3. CASE OnCheckVerified \/ ScheduleEvent \/ Tick
  BY <1>3 DEF OnCheckVerified, ScheduleEvent, Tick, WorkerRuns, Seen
<1> QED
  BY <1>1, <1>2, <1>3 DEF Worker

\* Steps of the network loop are steps of the connection.
LEMMA NetworkSeen ==
  ASSUME TypeOK, ServerInv, setup # "one", Network
  PROVE  Conn!Next
<1>1. CASE Accepted
  BY <1>1 DEF Accepted, NetworkRuns, Quiet, Conn!Accepted, Conn!Become,
              Conn!Next
<1>2. CASE Data
  BY <1>2 DEF Data, NetworkRuns, Quiet, Conn!Data, Conn!Become, Conn!Next
<1>3. CASE End
  BY <1>3 DEF End, NetworkRuns, Quiet, Live, Conn!End, Conn!Become, Conn!Tell,
              Conn!Live, Conn!Phase, Conn!Next
<1>4. CASE Shut
  BY <1>4 DEF Shut, NetworkRuns, Quiet, Live, Conn!Shut, Conn!Become,
              Conn!Live, Conn!Phase, Conn!Next
<1>5. ~EndAtOnce
  BY DEF EndAtOnce
<1> QED
  BY <1>1, <1>2, <1>3, <1>4, <1>5 DEF Network

\* Accepting: the socket is opened, and then the signals are set.
LEMMA AcceptorSeen ==
  ASSUME TypeOK, ServerInv, setup # "one", Acceptor
  PROVE  Conn!Next \/ UNCHANGED Seen
<1>1. CASE AcceptConnection
  <2>1. UNCHANGED <<work, listening, stage # "begun" \/ conn>>
    BY <1>1 DEF AcceptConnection
  <2>2. CASE setup = "worker"
    BY <1>1, <2>1, <2>2 DEF AcceptConnection, Seen, ServerInv, Fresh
  <2>3. CASE setup # "worker"
    BY <1>1, <2>1, <2>3
    DEF AcceptConnection, ServerInv, Fresh, Conn!Accepted, Conn!Become,
        Conn!Next
  <2> QED
    BY <2>2, <2>3
<1>2. CASE BeginProcess
  <2>1. /\ listening' = TRUE /\ UNCHANGED <<phase, work>>
        /\ stage # "begun" \/ conn
        /\ (stage # "begun" \/ conn)' = TRUE
    BY <1>2 DEF BeginProcess
  <2> QED
    BY <2>1 DEF Conn!Listen, Conn!Next
<1> QED
  BY <1>1, <1>2 DEF Acceptor

LEMMA StepSeen ==
  ASSUME TypeOK, ServerInv, [Next]_vars
  PROVE  [setup # "one" => Conn!Next]_Seen
<1> SUFFICES ASSUME setup # "one" PROVE Conn!Next \/ UNCHANGED Seen
  OBVIOUS
<1>1. CASE HelloAges \/ FallsMute \/ UNCHANGED vars
  BY <1>1 DEF HelloAges, FallsMute, vars, task, Seen
<1> QED
  BY <1>1, AcceptorSeen, WorkerSeen, NetworkSeen DEF Next

-----------------------------------------------------------------------------
(* Theorems.                                                               *)

\* The types, and with them that the queue holds no call of an empty signal:
\* OnErrorEvent reports an end to nobody unless SignalOnCloseEvent is set.
THEOREM TypeCorrect == Spec => []TypeOK
  BY TypeInit, TypeNext, PTL DEF Spec

\* The inductive invariant of the task: what StopProcess, BeginProcess and the
\* reports that cross them leave behind.
THEOREM ServerInvariance == Spec => []ServerInv
  BY TypeCorrect, ServerInit, ServerNext, PTL DEF Spec

(***************************************************************************)
(* close_timer_->AsyncWait(), called by OnCheckVerified and ScheduleEvent  *)
(* without a look, meets a timer that StopProcess has deleted in one case  *)
(* only: everything runs on one loop, and a packet that verified the       *)
(* client was interrupted by the failure of what it sent.                  *)
(***************************************************************************)
THEOREM TimerNeverNull == Spec => []NoNullTimer
<1>1. TypeOK /\ ServerInv => NoNullTimer
  BY DEF TypeOK, ServerInv, Unbegun, Running, Ended, NoNullTimer
<1> QED
  BY <1>1, TypeCorrect, ServerInvariance, PTL

(***************************************************************************)
(* Between BeginProcess and StopProcess there is always a running timer or *)
(* a manager that can find the client silent, whichever of the packet that *)
(* verifies, the verify timer and the close timer comes first.             *)
(***************************************************************************)
THEOREM AlwaysWatched == Spec => []Watched
<1>1. TypeOK /\ ServerInv => Watched
  BY DEF TypeOK, ServerInv, Running, Watched
<1> QED
  BY <1>1, TypeCorrect, ServerInvariance, PTL

(***************************************************************************)
(* Every step of the task and its loops is a step that Connection allows:  *)
(* StopProcess lets go of the socket once, with its signals, and no report *)
(* is queued that the socket does not make.                                *)
(***************************************************************************)
THEOREM SocketRefinement == Spec => SocketBehaves
<1>1. TypeOK /\ ServerInv /\ [Next]_vars =>
        [setup # "one" => Conn!Next]_<<phase, work, listening,
                                       stage # "begun" \/ conn>>
  BY StepSeen DEF Seen
<1> QED
  BY <1>1, TypeCorrect, ServerInvariance, PTL DEF Spec, SocketBehaves
=============================================================================

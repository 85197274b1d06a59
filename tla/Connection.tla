----------------------------- MODULE Connection -----------------------------
(***************************************************************************)
(* What a socket promises the task that owns it, which sees nothing but    *)
(* the reports of its SignalOnConnected, SignalOnCloseEvent and            *)
(* SignalReadPacket.  They are handed over in a queue, so the owner may    *)
(* still get reports of a connection it has released.                      *)
(***************************************************************************)
EXTENDS Sequences

VARIABLES
  phase,      \* what has become of the connection
  reports,    \* the reports on their way to the owner
  listening,  \* the owner's callbacks are set
  held        \* the owner has not released the connection

vars == <<phase, reports, listening, held>>

\* "failed" is an attempt that was reported as closed and goes on all the
\* same, and "phantom" what it may be reported connected as; "over" is a
\* connection that ended, "shut" one whose owner closed it.
Phase == {"idle", "trying", "failed", "phantom", "open", "over", "shut"}
Live == Phase \ {"shut"}
Report == {"connected", "closed", "data"}

TypeOK ==
  /\ phase \in Phase
  /\ reports \in Seq(Report)
  /\ listening \in BOOLEAN
  /\ held \in BOOLEAN

Init ==
  /\ phase = "idle" /\ reports = <<>>
  /\ listening \in BOOLEAN
  /\ held = TRUE

-----------------------------------------------------------------------------
(* The owner.                                                              *)

Listen ==
  /\ held
  /\ listening' = TRUE
  /\ UNCHANGED <<phase, reports, held>>

\* The owner lets go, with or without taking its callbacks back.
LetGo ==
  /\ held
  /\ held' = FALSE
  /\ listening' \in {listening, FALSE}

Release == LetGo /\ UNCHANGED <<phase, reports>>

\* The owner gets a report, and may let go because of it.
Deliver ==
  /\ reports # <<>>
  /\ reports' = Tail(reports)
  /\ LetGo \/ UNCHANGED <<listening, held>>
  /\ UNCHANGED phase

-----------------------------------------------------------------------------
(* The connection.                                                         *)

Tell(r) == reports' = IF listening THEN Append(reports, r) ELSE reports

Become(from, to) ==
  /\ phase \in from
  /\ phase' = to
  /\ UNCHANGED <<listening, held>>

Attempt == Become({"idle"}, "trying") /\ UNCHANGED reports
Accepted == Become({"idle"}, "open") /\ UNCHANGED reports
FailAtOnce == Become({"idle"}, "failed") /\ Tell("closed")
Establish == Become({"trying"}, "open") /\ Tell("connected")
Pretend == Become({"failed"}, "phantom") /\ Tell("connected")
Data == Become({"open"}, "open") /\ reports' = Append(reports, "data")

\* The end of a connection is reported, and may be reported again: each
\* write that was still queued can fail for itself.
End == Become(Live, "over") /\ Tell("closed")

\* Nothing is reported once a released connection is shut.
Shut == ~held /\ Become(Live, "shut") /\ UNCHANGED reports

Next ==
  \/ Listen \/ Release \/ Deliver
  \/ Attempt \/ Accepted \/ FailAtOnce \/ Establish \/ Pretend
  \/ Data \/ End \/ Shut

Spec == Init /\ [][Next]_vars
=============================================================================

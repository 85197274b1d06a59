------------------------ MODULE TcpClientTaskProofs ------------------------
(***************************************************************************)
(* Proofs about TcpClientTask for any number of sockets, any limits of     *)
(* attempts and any number of reports in the worker loop's queue.          *)
(***************************************************************************)
EXTENDS TcpClientTask, ProofLemmas

\* Before BeginProcess nothing has happened.
Unbegun ==
  ~begun =>
    /\ current = None /\ timer = "null" /\ hello = "none" /\ ~stopped
    /\ work = <<>>
    /\ \A s \in Socket : phase[s] = "unused"

\* Until StopProcess the timer exists, and runs when there is no socket.
Waiting ==
  begun /\ ~stopped => timer # "null" /\ (timer = "armed" <=> current = None)

\* After StopProcess neither is left, and no late report makes one.
Ended == stopped => current = None /\ timer = "null"

\* The end of a socket that is not connecting or open.
EndReported(s) ==
  phase[s] \in {"failed", "phantom", "over"} => Queued(s, "closed")

\* A connection that was reported.
Measured(s) ==
  phase[s] = "open" /\ ~Queued(s, "connected") => hello # "none"

\* The socket in use can report, and nobody has told it to close.
InUse(s) ==
  /\ s \notin deaf \cup closing
  /\ phase[s] \in Live
  /\ EndReported(s)
  /\ Measured(s)

Attended == \A s \in Socket : s = current => InUse(s)

ClientInv == Unbegun /\ Waiting /\ Ended /\ Attended /\ NoAbandonedSocket

-----------------------------------------------------------------------------
(* The queue.                                                              *)

\* Taking a report leaves the others.
LEMMA Taken ==
  ASSUME TypeOK, NEW s, NEW r, TakeReport(s, r)
  PROVE  /\ work' \in Seq(Entry)
         /\ \A t, q : (t # s \/ q # r) /\ Queued(t, q) => Queued(t, q)'
<1>1. /\ work \in Seq(Entry) /\ work # <<>> /\ work' = Tail(work)
      /\ work[1] = [socket |-> s, report |-> r]
  BY DEF TypeOK, TakeReport
<1>2. /\ work' \in Seq(Entry) /\ Len(work) \in Nat /\ DOMAIN work = 1..Len(work)
      /\ DOMAIN work' = 1..(Len(work) - 1)
      /\ \A i \in 1..(Len(work) - 1) : work'[i] = work[i + 1]
  BY <1>1
<1>3. ASSUME NEW t, NEW q, t # s \/ q # r, Queued(t, q)
      PROVE  Queued(t, q)'
  <2>1. PICK i \in DOMAIN work : work[i] = [socket |-> t, report |-> q]
    BY <1>3 DEF Queued
  <2>2. i # 1
    <3>1. [socket |-> t, report |-> q].socket = t
          /\ [socket |-> t, report |-> q].report = q
          /\ [socket |-> s, report |-> r].socket = s
          /\ [socket |-> s, report |-> r].report = r
      OBVIOUS
    <3> QED
      BY <1>1, <1>3, <2>1, <3>1
  <2>3. i - 1 \in 1..(Len(work) - 1) /\ work'[i - 1] = work[i]
    BY <1>2, <2>2
  <2> QED
    BY <1>2, <2>1, <2>3 DEF Queued
<1> QED
  BY <1>2, <1>3

\* A report queued last is queued besides the others.
LEMMA Added ==
  ASSUME TypeOK, NEW s \in Socket, NEW r \in Report,
         work' = Append(work, [socket |-> s, report |-> r])
  PROVE  /\ work' \in Seq(Entry)
         /\ Queued(s, r)'
         /\ \A t, q : Queued(t, q) => Queued(t, q)'
<1>1. [socket |-> s, report |-> r] \in Entry /\ work \in Seq(Entry)
  BY DEF Entry, TypeOK
<1>2. /\ work' \in Seq(Entry) /\ Len(work) \in Nat /\ DOMAIN work = 1..Len(work)
      /\ DOMAIN work' = 1..(Len(work) + 1)
      /\ \A i \in 1..Len(work) : work'[i] = work[i]
      /\ work'[Len(work) + 1] = [socket |-> s, report |-> r]
  BY <1>1
<1>3. Queued(s, r)'
  <2>1. Len(work) + 1 \in DOMAIN work'
    BY <1>2
  <2> QED
    BY <1>2, <2>1 DEF Queued
<1>4. ASSUME NEW t, NEW q, Queued(t, q) PROVE Queued(t, q)'
  <2>1. PICK i \in DOMAIN work : work[i] = [socket |-> t, report |-> q]
    BY <1>4 DEF Queued
  <2>2. i \in DOMAIN work' /\ work'[i] = work[i]
    BY <1>2
  <2> QED
    BY <2>1, <2>2 DEF Queued
<1> QED
  BY <1>2, <1>3, <1>4

\* Tell, by a socket whose signals are set or were taken back.
LEMMA Told ==
  ASSUME TypeOK, NEW s \in Socket, NEW r \in Report, Tell(s, r)
  PROVE  /\ work' \in Seq(Entry)
         /\ s \notin deaf => Queued(s, r)'
         /\ \A t, q : Queued(t, q) => Queued(t, q)'
<1>1. CASE s \in deaf
  BY <1>1 DEF Tell, TypeOK, Queued
<1>2. CASE s \notin deaf
  BY <1>2, Added DEF Tell
<1> QED
  BY <1>1, <1>2

-----------------------------------------------------------------------------
(* The reports of one socket in the queue.                                 *)

\* The function that ReportsIn defines by recursion.
ReportsFcn(b, s) ==
  CHOOSE told : told = [n \in 0..Len(b) |->
    IF n = 0 THEN <<>>
    ELSE IF b[n].socket = s THEN Append(told[n - 1], b[n].report)
    ELSE told[n - 1]]

\* What it should be.
IsReports(f, b, s) ==
  /\ f \in [0..Len(b) -> Seq(Report)] /\ f[0] = <<>>
  /\ \A n \in 0..Len(b) : n < Len(b) =>
       f[n + 1] = IF b[n + 1].socket = s THEN Append(f[n], b[n + 1].report)
                                         ELSE f[n]

LEMMA ReportsIsFcn ==
  ASSUME NEW b \in Seq(Entry), NEW s
  PROVE  /\ IsReports(ReportsFcn(b, s), b, s)
         /\ ReportsIn(b, s) = ReportsFcn(b, s)[Len(b)]
<1> DEFINE m == Len(b)
           V == Seq(Report)
           G == [x \in V \X (1..m) |->
                   IF b[x[2]].socket = s THEN Append(x[1], b[x[2]].report)
                                         ELSE x[1]]
           g == ReportsFcn(b, s)
<1>0. m \in Nat /\ <<>> \in V
  OBVIOUS
<1>1. \A v \in V, n \in 1..m :
        (IF b[n].socket = s THEN Append(v, b[n].report) ELSE v) \in V
  <2> TAKE v \in V, n \in 1..m
  <2>1. b[n] \in Entry
    BY ElementOfSeq
  <2>2. b[n].report \in Report
    BY <2>1 DEF Entry
  <2> QED
    BY <2>2
<1>2. G \in [V \X (1..m) -> V]
  BY <1>1
<1>3. \A v \in V, n \in 1..m :
        G[<<v, n>>] = IF b[n].socket = s THEN Append(v, b[n].report) ELSE v
  OBVIOUS
<1> HIDE DEF G, V, m
<1>4. PICK f : IsRecursive(f, V, <<>>, G, m)
  BY <1>0, <1>2, RecursiveFcn, Zenon
<1>5. ASSUME NEW n \in 0..m
      PROVE  f[n] = IF n = 0 THEN <<>>
                    ELSE IF b[n].socket = s THEN Append(f[n - 1], b[n].report)
                    ELSE f[n - 1]
  <2>1. CASE n = 0
    BY <1>4, <2>1 DEF IsRecursive
  <2>2. CASE n # 0
    <3>1. n - 1 \in 0..m /\ n - 1 < m /\ (n - 1) + 1 = n /\ n \in 1..m
      BY <1>0, <2>2
    <3>2. f[n] = G[<<f[n - 1], n>>] /\ f[n - 1] \in V
      BY <1>4, <3>1 DEF IsRecursive
    <3> QED
      BY <1>3, <2>2, <3>1, <3>2
  <2> QED
    BY <2>1, <2>2
<1>6. f = [n \in 0..m |-> IF n = 0 THEN <<>>
                    ELSE IF b[n].socket = s THEN Append(f[n - 1], b[n].report)
                    ELSE f[n - 1]]
  <2>1. f = [n \in 0..m |-> f[n]]
    BY <1>4 DEF IsRecursive
  <2> QED
    BY <1>5, <2>1
<1>7. g = [n \in 0..m |-> IF n = 0 THEN <<>>
                    ELSE IF b[n].socket = s THEN Append(g[n - 1], b[n].report)
                    ELSE g[n - 1]]
  BY <1>6, Zenon DEF ReportsFcn, m
<1>8. ReportsIn(b, s) = g[m]
  BY Zenon DEF ReportsIn, ReportsFcn, g, m
<1> HIDE DEF g
<1>9. g[0] = <<>> /\ DOMAIN g = 0..m
  BY <1>0, <1>7
<1>10. ASSUME NEW n \in 0..m, n < m
       PROVE  g[n + 1] = IF b[n + 1].socket = s THEN Append(g[n], b[n + 1].report)
                                                ELSE g[n]
  <2>1. n + 1 \in 0..m /\ n + 1 # 0 /\ (n + 1) - 1 = n
    BY <1>0, <1>10
  <2> QED
    BY <1>7, <2>1
<1> DEFINE S == {n \in 0..m : g[n] \in V}
<1>11. 0 \in S
  BY <1>0, <1>9
<1>12. ASSUME NEW n \in 0..m, n \in S, n < m PROVE n + 1 \in S
  <2>1. n + 1 \in 1..m /\ n + 1 \in 0..m
    BY <1>0, <1>12
  <2>2. g[n + 1] \in V
    BY <1>1, <1>10, <1>12, <2>1
  <2> QED
    BY <2>1, <2>2
<1> HIDE DEF S
<1>13. \A n \in 0..m : n \in S
  BY <1>0, <1>11, <1>12, InductionUpTo
<1>14. g \in [0..m -> V]
  <2>1. g = [n \in 0..m |-> g[n]]
    BY <1>7
  <2>2. \A n \in 0..m : g[n] \in V
    BY <1>13 DEF S
  <2> QED
    BY <2>1, <2>2
<1>15. IsReports(g, b, s)
  BY <1>9, <1>10, <1>14 DEF IsReports, V, m
<1> QED
  BY <1>8, <1>15 DEF g, m

\* They are reports.
LEMMA ReportsType ==
  ASSUME NEW b \in Seq(Entry), NEW s
  PROVE  ReportsIn(b, s) \in Seq(Report)
<1>1. Len(b) \in 0..Len(b)
  OBVIOUS
<1> QED
  BY <1>1, ReportsIsFcn DEF IsReports

\* A queue with one more entry has that one last.
LEMMA ReportsAppend ==
  ASSUME NEW b \in Seq(Entry), NEW e \in Entry, NEW s
  PROVE  ReportsIn(Append(b, e), s) =
           IF e.socket = s THEN Append(ReportsIn(b, s), e.report)
                           ELSE ReportsIn(b, s)
<1> DEFINE c == Append(b, e)
           f == ReportsFcn(b, s)
           g == ReportsFcn(c, s)
           m == Len(b)
           S == {n \in 0..m : f[n] = g[n]}
<1>1. /\ c \in Seq(Entry) /\ m \in Nat /\ Len(c) = m + 1 /\ c[m + 1] = e
      /\ \A n \in 1..m : c[n] = b[n]
  OBVIOUS
<1>2. IsReports(f, b, s) /\ ReportsIn(b, s) = f[m]
  BY ReportsIsFcn
<1>3. IsReports(g, c, s) /\ ReportsIn(c, s) = g[m + 1]
  BY <1>1, ReportsIsFcn
<1> HIDE DEF f, g, c
<1>4. 0 \in S
  BY <1>1, <1>2, <1>3 DEF IsReports
<1>5. ASSUME NEW n \in 0..m, n \in S, n < m PROVE n + 1 \in S
  <2>1. /\ n + 1 \in 1..m /\ n + 1 \in 0..m /\ n \in 0..Len(c) /\ n < Len(c)
        /\ c[n + 1] = b[n + 1] /\ f[n] = g[n]
    BY <1>1, <1>5
  <2>2. f[n + 1] = IF b[n + 1].socket = s THEN Append(f[n], b[n + 1].report)
                                          ELSE f[n]
    BY <1>2, <1>5, Zenon DEF IsReports, m
  <2>3. g[n + 1] = IF c[n + 1].socket = s THEN Append(g[n], c[n + 1].report)
                                          ELSE g[n]
    BY <1>3, <2>1, Zenon DEF IsReports
  <2> QED
    BY <2>1, <2>2, <2>3
<1> HIDE DEF S
<1>6. \A n \in 0..m : n \in S
  BY <1>1, <1>4, <1>5, InductionUpTo
<1>7. f[m] = g[m]
  BY <1>1, <1>6 DEF S
<1>8. g[m + 1] = IF e.socket = s THEN Append(g[m], e.report) ELSE g[m]
  <2>1. m \in 0..Len(c) /\ m < Len(c)
    BY <1>1
  <2> QED
    BY <1>1, <1>3, <2>1, Zenon DEF IsReports
<1> QED
  BY <1>2, <1>3, <1>7, <1>8 DEF c

LEMMA TailOfAppend ==
  ASSUME NEW V, NEW q \in Seq(V), NEW v \in V, q # <<>>
  PROVE  Append(q, v) # <<>> /\ Tail(Append(q, v)) = Append(Tail(q), v)
  OBVIOUS

\* Without its first entry a queue lacks the first report of that socket and
\* no other.
LEMMA ReportsTail ==
  ASSUME NEW b \in Seq(Entry), b # <<>>, NEW s
  PROVE  /\ b[1].socket = s => /\ ReportsIn(b, s) # <<>>
                               /\ ReportsIn(Tail(b), s) = Tail(ReportsIn(b, s))
         /\ b[1].socket # s => ReportsIn(Tail(b), s) = ReportsIn(b, s)
<1> DEFINE c == Tail(b)
           f == ReportsFcn(b, s)
           g == ReportsFcn(c, s)
           m == Len(b) - 1
           Short(n) == IF b[1].socket = s
                       THEN f[n + 1] # <<>> /\ g[n] = Tail(f[n + 1])
                       ELSE g[n] = f[n + 1]
           S == {n \in 0..m : Short(n)}
<1>1. /\ c \in Seq(Entry) /\ m \in Nat /\ Len(c) = m /\ Len(b) = m + 1
      /\ \A n \in 1..m : c[n] = b[n + 1]
  OBVIOUS
<1>2. IsReports(f, b, s) /\ ReportsIn(b, s) = f[m + 1]
  BY <1>1, ReportsIsFcn
<1>3. IsReports(g, c, s) /\ ReportsIn(c, s) = g[m]
  BY <1>1, ReportsIsFcn
<1>4. b[1].report \in Report
  <2>1. b[1] \in Entry
    OBVIOUS
  <2> QED
    BY <2>1 DEF Entry
<1> HIDE DEF f, g, c, m
<1>5. 0 \in S
  <2>1. f[0] = <<>> /\ g[0] = <<>> /\ 0 \in 0..m
    BY <1>1, <1>2, <1>3 DEF IsReports
  <2>2. PICK z : z = 0
    OBVIOUS
  <2>3. z \in 0..Len(b) /\ z < Len(b)
    BY <1>1, <2>2
  <2>4. f[z + 1] = IF b[z + 1].socket = s THEN Append(f[z], b[z + 1].report)
                                          ELSE f[z]
    BY <1>2, <2>3 DEF IsReports
  <2>5. f[0 + 1] = IF b[1].socket = s THEN Append(<<>>, b[1].report) ELSE <<>>
    BY <2>1, <2>2, <2>4
  <2>6. /\ Append(<<>>, b[1].report) # <<>>
        /\ Tail(Append(<<>>, b[1].report)) = <<>>
    BY <1>4
  <2>7. Short(0)
    BY <2>1, <2>5, <2>6
  <2> QED
    BY <2>1, <2>7
<1>6. ASSUME NEW n \in 0..m, n \in S, n < m PROVE n + 1 \in S
  <2>1. /\ n + 1 \in 0..m /\ n + 1 \in 1..m /\ n \in 0..Len(c) /\ n < Len(c)
        /\ n + 1 \in 0..Len(b) /\ n + 1 < Len(b)
        /\ c[n + 1] = b[(n + 1) + 1] /\ Short(n)
    BY <1>1, <1>6
  <2>2. f[(n + 1) + 1] =
          IF b[(n + 1) + 1].socket = s
          THEN Append(f[n + 1], b[(n + 1) + 1].report) ELSE f[n + 1]
    BY <1>2, <2>1, Zenon DEF IsReports
  <2>3. g[n + 1] = IF c[n + 1].socket = s THEN Append(g[n], c[n + 1].report)
                                          ELSE g[n]
    BY <1>3, <2>1, Zenon DEF IsReports
  <2>4. f[n + 1] \in Seq(Report) /\ c[n + 1].report \in Report
    <3>1. c[n + 1] \in Entry
      BY <1>1, <2>1, ElementOfSeq
    <3> QED
      BY <1>2, <2>1, <3>1 DEF IsReports, Entry
  <2>5. f[n + 1] # <<>> =>
          /\ Append(f[n + 1], c[n + 1].report) # <<>>
          /\ Tail(Append(f[n + 1], c[n + 1].report))
               = Append(Tail(f[n + 1]), c[n + 1].report)
    BY <2>4, TailOfAppend
  <2>6. Short(n + 1)
    BY <2>1, <2>2, <2>3, <2>5, Zenon
  <2> QED
    BY <2>1, <2>6
<1> HIDE DEF S, Short
<1>7. \A n \in 0..m : n \in S
  BY <1>1, <1>5, <1>6, InductionUpTo
<1>8. Short(m)
  BY <1>1, <1>7 DEF S
<1> QED
  BY <1>2, <1>3, <1>8, Zenon DEF Short, c

-----------------------------------------------------------------------------
(* The types.                                                              *)

Phases == {"unused", "idle", "trying", "failed", "phantom", "open", "over",
           "shut"}

\* The count of attempts is below its limit.
RoundOK ==
  round \in Nat /\ (round > 0 /\ ~stopped => round < max_reconnect)

LEMMA TypeInit == Init => TypeOK
<1> SUFFICES ASSUME Init PROVE TypeOK
  OBVIOUS
<1>1. /\ verified \in BOOLEAN /\ managed \in BOOLEAN /\ begun \in BOOLEAN
      /\ stopped \in BOOLEAN /\ calm \in BOOLEAN
  BY Zenon DEF Init
<1>2. work \in Seq(Entry)
  BY DEF Init
<1>3. phase \in [Socket -> Phases]
  BY DEF Init, Phases
<1> QED
  BY <1>1, <1>2, <1>3 DEF Init, TypeOK, Phases

\* What StopProcess assigns.
LEMMA StopType ==
  ASSUME TypeOK, StopProcess
  PROVE  /\ current' = None /\ timer' = "null" /\ stopped' = TRUE
         /\ managed' \in BOOLEAN
         /\ closing' \subseteq Socket /\ deaf' \subseteq Socket
  BY DEF TypeOK, StopProcess, Held

\* What TryReconnectServerInner assigns.
LEMMA ReconnectType ==
  ASSUME TypeOK, TryReconnectServerInner, UNCHANGED max_reconnect
  PROVE  /\ current' = None /\ timer' \in {"null", "idle", "armed"}
         /\ verified' \in BOOLEAN /\ managed' \in BOOLEAN
         /\ stopped' \in BOOLEAN
         /\ hello' \in {"none", "recent", "stale"}
         /\ closing' \subseteq Socket /\ deaf' \subseteq Socket
         /\ RoundOK'
<1>1. CASE GiveUp
  <2>1. round' \in Nat /\ stopped' = TRUE
    BY <1>1, TaskAssumption, StopType DEF GiveUp, TypeOK, TaskAssumption
  <2> QED
    BY <1>1, <2>1, StopType DEF GiveUp, TypeOK, RoundOK
<1>2. CASE Reconnect
  <2>1. max_reconnect \in Nat /\ round \in Nat
    BY TaskAssumption DEF TypeOK, TaskAssumption
  <2>2. RoundOK'
    <3>1. UNCHANGED stopped
      BY <1>2 DEF Reconnect
    <3>2. CASE max_reconnect > 0
      <4>1. round' = round + 1 /\ round + 1 < max_reconnect
        BY <1>2, <2>1, <3>2 DEF Reconnect, GivesUp
      <4> QED
        BY <2>1, <4>1 DEF RoundOK
    <3>3. CASE ~(max_reconnect > 0)
      BY <1>2, <2>1, <3>1, <3>3 DEF Reconnect, RoundOK, TypeOK
    <3> QED
      BY <3>2, <3>3
  <2>3. verified' \in BOOLEAN
    BY <1>2, Zenon DEF Reconnect
  <2> QED
    BY <1>2, <2>2, <2>3 DEF Reconnect, Armed, Held, TypeOK
<1> QED
  BY <1>1, <1>2 DEF TryReconnectServerInner

\* What ConnectToServer assigns.
LEMMA ConnectType ==
  ASSUME TypeOK, ConnectToServer
  PROVE  /\ current' \in Socket /\ phase' \in [Socket -> Phases]
         /\ closing' \subseteq Socket /\ deaf' \subseteq Socket
         /\ garbled' \subseteq Socket
  BY DEF TypeOK, ConnectToServer, Phases

LEMMA TypeCalls ==
  TypeOK /\ (BeginProcess \/ TimerFires \/ ScheduleEvent \/ UserStops)
    => TypeOK'
<1> SUFFICES ASSUME TypeOK,
                    BeginProcess \/ TimerFires \/ ScheduleEvent \/ UserStops
             PROVE  TypeOK'
  OBVIOUS
<1>1. CASE BeginProcess
  <2>1. begun' \in BOOLEAN
    BY <1>1, Zenon DEF BeginProcess
  <2> QED
    BY <1>1, <2>1, ConnectType DEF BeginProcess, TypeOK, Phases
<1>2. CASE TimerFires
  BY <1>2, ConnectType DEF TimerFires, TypeOK, Phases
<1>3. CASE ScheduleEvent
  BY <1>3, ReconnectType DEF ScheduleEvent, TypeOK, RoundOK
<1>4. CASE UserStops
  BY <1>4, StopType DEF UserStops, TypeOK
<1> QED
  BY <1>1, <1>2, <1>3, <1>4

LEMMA TypeReport == TypeOK /\ RunReport => TypeOK'
<1> SUFFICES ASSUME TypeOK, RunReport PROVE TypeOK'
  OBVIOUS
<1>1. PICK s \in Socket :
        \/ OnConnectEvent(s) \/ OnCloseEvent(s)
        \/ OnInternalPacket(s) \/ NoPacket(s) \/ BadPayload(s)
  BY DEF RunReport
<1>2. PICK r \in Report : TakeReport(s, r)
  BY <1>1 DEF OnConnectEvent, OnCloseEvent, OnInternalPacket, NoPacket,
              BadPayload, Report
<1>3. work' \in Seq(Entry) /\ UNCHANGED <<max_reconnect, begun, phase, calm>>
  BY <1>2, Taken DEF TakeReport
<1>4. CASE OnConnectEvent(s)
  BY <1>3, <1>4 DEF OnConnectEvent, TypeOK
<1>5. CASE OnCloseEvent(s)
  BY <1>3, <1>5, ReconnectType DEF OnCloseEvent, TypeOK, RoundOK
<1>6. CASE OnInternalPacket(s)
  <2>1. UNCHANGED garbled
    BY <1>6 DEF OnInternalPacket
  <2>2. CASE Verify
    <3>1. verified' \in BOOLEAN /\ managed' \in BOOLEAN
      BY <2>2, Zenon DEF Verify
    <3> QED
      BY <1>3, <2>1, <2>2, <3>1 DEF Verify, TypeOK
  <2>3. CASE Refuse
    BY <1>3, <2>1, <2>3, StopType DEF Refuse, TypeOK
  <2>4. CASE Parse
    BY <1>3, <2>1, <2>4 DEF Parse, TypeOK
  <2> QED
    BY <1>6, <2>2, <2>3, <2>4 DEF OnInternalPacket
<1>7. CASE NoPacket(s)
  BY <1>3, <1>7 DEF NoPacket, TypeOK
<1>8. CASE BadPayload(s)
  BY <1>3, <1>8, ReconnectType DEF BadPayload, TypeOK, RoundOK
<1> QED
  BY <1>1, <1>4, <1>5, <1>6, <1>7, <1>8

\* What a step of the network changes.
LEMMA NetworkStep ==
  ASSUME TypeOK, NEW s \in Socket,
         \/ Attempt(s) \/ FailAtOnce(s) \/ Establish(s) \/ Pretend(s)
         \/ Data(s) \/ End(s) \/ Shut(s)
  PROVE  /\ UNCHANGED <<max_reconnect, task, closing, deaf, garbled, calm>>
         /\ phase' \in [Socket -> Phases]
         /\ \A t \in Socket : t # s => phase'[t] = phase[t]
         /\ phase[s] \in Live /\ phase'[s] \in Live \cup {"shut"}
         /\ phase'[s] = "shut" => s \in closing
         /\ work' \in Seq(Entry)
         /\ \A t, q : Queued(t, q) => Queued(t, q)'
         /\ s \notin deaf /\ phase'[s] \in {"failed", "over"} =>
              Queued(s, "closed")'
         /\ phase'[s] = "phantom" => phase[s] = "failed"
         /\ s \notin deaf /\ phase'[s] = "open" /\ phase[s] # "open" =>
              Queued(s, "connected")'
<1>1. phase \in [Socket -> Phases]
  BY DEF TypeOK, Phases
<1>2. CASE Attempt(s) \/ Shut(s)
  BY <1>1, <1>2 DEF Attempt, Shut, Become, Live, Phases, TypeOK, Queued
<1>3. CASE FailAtOnce(s)
  BY <1>1, <1>3, Told DEF FailAtOnce, Become, Live, Phases, Report
<1>4. CASE Establish(s)
  BY <1>1, <1>4, Told DEF Establish, Become, Live, Phases, Report
<1>5. CASE Pretend(s)
  BY <1>1, <1>5, Told DEF Pretend, Become, Live, Phases, Report
<1>6. CASE Data(s)
  BY <1>1, <1>6, Added DEF Data, Become, Live, Phases, Report
<1>7. CASE End(s)
  BY <1>1, <1>7, Told DEF End, Become, Live, Phases, Report
<1> QED
  BY <1>2, <1>3, <1>4, <1>5, <1>6, <1>7

LEMMA TypeNext == TypeOK /\ [Next]_vars => TypeOK'
<1> SUFFICES ASSUME TypeOK, [Next]_vars PROVE TypeOK'
  OBVIOUS
<1>1. CASE Network
  BY <1>1, NetworkStep DEF Network, task, TypeOK, Phases
<1>2. CASE HelloAges
  BY <1>2 DEF HelloAges, sockets, TypeOK
<1>3. CASE CalmDown
  <2>1. calm' \in BOOLEAN
    BY <1>3, Zenon DEF CalmDown
  <2> QED
    BY <1>3, <2>1 DEF CalmDown, task, sockets, TypeOK
<1>4. CASE UNCHANGED vars
  BY <1>4 DEF vars, task, sockets, TypeOK
<1> QED
  BY <1>1, <1>2, <1>3, <1>4, TypeCalls, TypeReport DEF Next, Worker

-----------------------------------------------------------------------------
(* The life of the task.                                                   *)

LEMMA ClientInit == Init => ClientInv
  BY TaskAssumption
  DEF Init, ClientInv, Unbegun, Waiting, Ended, Attended, NoAbandonedSocket,
      TaskAssumption

\* StopProcess of a task that was begun.
LEMMA ClientStop ==
  ASSUME TypeOK, ClientInv, begun, StopProcess, UNCHANGED <<begun, phase>>
  PROVE  ClientInv'
<1>1. current' = None /\ timer' = "null" /\ stopped'
  BY DEF StopProcess
<1>2. Unbegun' /\ Waiting' /\ Ended'
  BY <1>1 DEF Unbegun, Waiting, Ended
<1>3. Attended'
  BY <1>1, TaskAssumption DEF Attended, TaskAssumption
<1>4. NoAbandonedSocket'
  BY DEF StopProcess, Held, ClientInv, NoAbandonedSocket, TypeOK
<1> QED
  BY <1>2, <1>3, <1>4 DEF ClientInv

\* TryReconnectServerInner, also when the task was stopped.
LEMMA ClientReconnect ==
  ASSUME TypeOK, ClientInv, begun, TryReconnectServerInner,
         UNCHANGED <<begun, phase>>
  PROVE  ClientInv'
<1>1. CASE GiveUp
  BY <1>1, ClientStop DEF GiveUp
<1>2. CASE Reconnect
  <2>1. current' = None /\ UNCHANGED stopped
    BY <1>2 DEF Reconnect
  <2>2. Unbegun' /\ Waiting' /\ Ended'
    BY <1>2, <2>1 DEF Reconnect, Armed, ClientInv, Unbegun, Waiting, Ended
  <2>3. Attended'
    BY <2>1, TaskAssumption DEF Attended, TaskAssumption
  <2>4. NoAbandonedSocket'
    BY <1>2 DEF Reconnect, Held, ClientInv, NoAbandonedSocket, TypeOK
  <2> QED
    BY <2>2, <2>3, <2>4 DEF ClientInv
<1> QED
  BY <1>1, <1>2 DEF TryReconnectServerInner

\* ConnectToServer, which is called only when there is no socket.
LEMMA ClientConnect ==
  ASSUME TypeOK, ClientInv, current = None, ~stopped, ConnectToServer,
         begun', timer' = "idle", UNCHANGED stopped
  PROVE  ClientInv'
<1>1. PICK s \in Socket :
        /\ current' = s
        /\ phase' = [phase EXCEPT ![s] = "idle"]
        /\ closing' = closing \ {s} /\ deaf' = deaf \ {s}
  BY DEF ConnectToServer
<1>2. phase'[s] = "idle" /\ \A t \in Socket : t # s => phase'[t] = phase[t]
  BY <1>1 DEF TypeOK
<1>3. Unbegun' /\ Waiting' /\ Ended'
  BY <1>1, TaskAssumption DEF Unbegun, Waiting, Ended, TaskAssumption
<1>4. Attended'
  BY <1>1, <1>2 DEF Attended, InUse, EndReported, Measured, Live
<1>5. NoAbandonedSocket'
  BY <1>1, <1>2, TaskAssumption
  DEF ClientInv, NoAbandonedSocket, TaskAssumption
<1> QED
  BY <1>3, <1>4, <1>5 DEF ClientInv

LEMMA ClientCalls ==
  TypeOK /\ ClientInv
         /\ (BeginProcess \/ TimerFires \/ ScheduleEvent \/ UserStops)
    => ClientInv'
<1> SUFFICES ASSUME TypeOK, ClientInv,
                    BeginProcess \/ TimerFires \/ ScheduleEvent \/ UserStops
             PROVE  ClientInv'
  OBVIOUS
<1>1. CASE BeginProcess
  BY <1>1, ClientConnect DEF BeginProcess, ClientInv, Unbegun
<1>2. CASE TimerFires
  <2>1. begun /\ ~stopped /\ current = None
    BY <1>2 DEF TimerFires, ClientInv, Unbegun, Waiting, Ended
  <2> QED
    BY <1>2, <2>1, ClientConnect DEF TimerFires
<1>3. CASE ScheduleEvent
  <2>1. begun
    BY <1>3 DEF ScheduleEvent, ClientInv, Unbegun
  <2> QED
    BY <1>3, <2>1, ClientReconnect DEF ScheduleEvent
<1>4. CASE UserStops
  BY <1>4, ClientStop DEF UserStops
<1> QED
  BY <1>1, <1>2, <1>3, <1>4

\* A packet, or a connect event, of any socket: the task keeps its own.
LEMMA ClientTake ==
  ASSUME TypeOK, ClientInv, NEW s, NEW r \in {"connected", "data"},
         TakeReport(s, r), r = "connected" => hello' # "none",
         hello # "none" => hello' # "none",
         UNCHANGED <<current, timer, stopped, closing, deaf>>
  PROVE  ClientInv'
<1>1. begun /\ UNCHANGED <<begun, phase>>
  BY DEF TakeReport, ClientInv, Unbegun
<1>2. Unbegun' /\ Waiting' /\ Ended' /\ NoAbandonedSocket'
  BY <1>1 DEF ClientInv, Unbegun, Waiting, Ended, NoAbandonedSocket
<1>3. ASSUME NEW t \in Socket, t = current' PROVE InUse(t)'
  <2>1. InUse(t)
    BY <1>3 DEF ClientInv, Attended
  <2>2. Queued(t, "closed") => Queued(t, "closed")'
    BY Taken
  <2>3. Queued(t, "connected") => Queued(t, "connected")' \/ r = "connected"
    BY Taken
  <2>4. EndReported(t)' /\ Measured(t)'
    BY <1>1, <2>1, <2>2, <2>3 DEF InUse, EndReported, Measured
  <2> QED
    BY <1>1, <2>1, <2>4 DEF InUse
<1> QED
  BY <1>2, <1>3 DEF ClientInv, Attended

LEMMA ClientReport == TypeOK /\ ClientInv /\ RunReport => ClientInv'
<1> SUFFICES ASSUME TypeOK, ClientInv, RunReport PROVE ClientInv'
  OBVIOUS
<1>1. PICK s \in Socket :
        \/ OnConnectEvent(s) \/ OnCloseEvent(s)
        \/ OnInternalPacket(s) \/ NoPacket(s) \/ BadPayload(s)
  BY DEF RunReport
<1>2. begun /\ UNCHANGED <<begun, phase>>
  BY <1>1 DEF OnConnectEvent, OnCloseEvent, OnInternalPacket, NoPacket,
              BadPayload, TakeReport, ClientInv, Unbegun
<1>3. CASE OnConnectEvent(s)
  BY <1>3, ClientTake DEF OnConnectEvent
<1>4. CASE OnCloseEvent(s)
  BY <1>2, <1>4, ClientReconnect DEF OnCloseEvent
<1>5. CASE OnInternalPacket(s)
  <2>1. TakeReport(s, "data")
    BY <1>5 DEF OnInternalPacket
  <2>2. CASE Verify
    BY <2>1, <2>2, ClientTake DEF Verify
  <2>3. CASE Refuse
    BY <1>2, <2>3, ClientStop DEF Refuse
  <2>4. CASE Parse
    BY <2>1, <2>4, ClientTake DEF Parse
  <2> QED
    BY <1>5, <2>2, <2>3, <2>4 DEF OnInternalPacket
<1>6. CASE NoPacket(s)
  BY <1>6, ClientTake DEF NoPacket
<1>7. CASE BadPayload(s)
  BY <1>2, <1>7, ClientReconnect DEF BadPayload
<1> QED
  BY <1>1, <1>3, <1>4, <1>5, <1>6, <1>7

LEMMA ClientNetwork == TypeOK /\ ClientInv /\ Network => ClientInv'
<1> SUFFICES ASSUME TypeOK, ClientInv, Network PROVE ClientInv'
  OBVIOUS
<1>1. PICK s \in Socket :
        \/ Attempt(s) \/ FailAtOnce(s) \/ Establish(s) \/ Pretend(s)
        \/ Data(s) \/ End(s) \/ Shut(s)
  BY DEF Network
<1>2. /\ UNCHANGED <<task, closing, deaf>>
      /\ \A t \in Socket : t # s => phase'[t] = phase[t]
      /\ phase[s] \in Live /\ phase'[s] \in Live \cup {"shut"}
      /\ phase'[s] = "shut" => s \in closing
      /\ \A t, q : Queued(t, q) => Queued(t, q)'
      /\ s \notin deaf /\ phase'[s] \in {"failed", "over"} =>
              Queued(s, "closed")'
      /\ phase'[s] = "phantom" => phase[s] = "failed"
      /\ s \notin deaf /\ phase'[s] = "open" /\ phase[s] # "open" =>
           Queued(s, "connected")'
  BY <1>1, NetworkStep
<1>3. Unbegun' /\ Waiting' /\ Ended'
  BY <1>2 DEF task, ClientInv, Unbegun, Waiting, Ended, Live
<1>4. NoAbandonedSocket'
  BY <1>2 DEF task, ClientInv, NoAbandonedSocket, Live
<1>5. ASSUME NEW t \in Socket, t = current' PROVE InUse(t)'
  <2>1. InUse(t) /\ UNCHANGED <<closing, deaf, hello>>
    BY <1>2, <1>5 DEF task, ClientInv, Attended
  <2>2. CASE t # s
    BY <1>2, <2>1, <2>2 DEF InUse, EndReported, Measured
  <2>3. CASE t = s
    BY <1>2, <2>1, <2>3 DEF InUse, EndReported, Measured
  <2> QED
    BY <2>2, <2>3
<1> QED
  BY <1>3, <1>4, <1>5 DEF ClientInv, Attended

LEMMA ClientNext == TypeOK /\ ClientInv /\ [Next]_vars => ClientInv'
<1> SUFFICES ASSUME TypeOK, ClientInv, [Next]_vars PROVE ClientInv'
  OBVIOUS
<1>1. CASE HelloAges \/ CalmDown \/ UNCHANGED vars
  <2>1. /\ UNCHANGED <<current, timer, begun, stopped, work, sockets>>
        /\ hello # "none" <=> hello' # "none"
    BY <1>1 DEF HelloAges, CalmDown, vars, task
  <2>2. \A s : InUse(s) => InUse(s)'
    BY <2>1 DEF sockets, InUse, EndReported, Measured, Queued
  <2> QED
    BY <2>1, <2>2 DEF sockets, ClientInv, Unbegun, Waiting, Ended, Attended,
                      NoAbandonedSocket
<1> QED
  BY <1>1, ClientCalls, ClientReport, ClientNetwork DEF Next, Worker

-----------------------------------------------------------------------------
(* The sockets behave as connections, and the task as their owner.         *)

\* What SocketsBehave allows a step to do to a socket.
SocketStep(t) ==
  [Conn(t)!Next \/ Renewed(t)]_<<phase[t], ReportsOf(t), t \in deaf, current = t>>

\* A socket that a step leaves alone.
LEMMA SocketSame ==
  ASSUME NEW t, phase'[t] = phase[t], ReportsOf(t)' = ReportsOf(t),
         (t \in deaf') = (t \in deaf), (current' = t) = (current = t)
  PROVE  SocketStep(t)
  BY Zenon DEF SocketStep

\* What the owner has of a socket that it keeps, or does not have.
Kept(t) ==
  (t \in deaf') = (t \in deaf) /\ (current' = t) = (current = t)

\* StopProcess and TryReconnectServerInner let go of the socket in use and
\* touch no other.
LEMMA OwnerLetsGo ==
  ASSUME TypeOK, ClientInv, StopProcess \/ TryReconnectServerInner,
         UNCHANGED phase, NEW t \in Socket
  PROVE  Conn(t)!LetGo \/ Kept(t)
<1>1. /\ current' = None /\ None # t
      /\ deaf' \in {deaf, deaf \cup Held}
  BY TaskAssumption
  DEF StopProcess, TryReconnectServerInner, GiveUp, Reconnect, TaskAssumption
<1>2. CASE t = current
  <2>1. t \notin deaf /\ phase[t] # "unused" /\ phase'[t] = phase[t]
    BY <1>2 DEF ClientInv, Attended, InUse, Live
  <2>2. (current = t \/ phase[t] = "unused") = TRUE
        /\ (current' = t \/ phase'[t] = "unused") = FALSE
    BY <1>1, <1>2, <2>1, Zenon
  <2>3. (t \notin deaf') \in {t \notin deaf, FALSE}
    <3>1. (t \notin deaf) = TRUE
      BY <2>1, Zenon
    <3>2. (t \notin deaf') \in {TRUE, FALSE}
      BY Zenon
    <3> QED
      BY <3>1, <3>2, Zenon
  <2> QED
    BY <2>2, <2>3, Zenon DEF Conn!LetGo
<1>3. CASE t # current
  <2>1. (t \in deaf') = (t \in deaf)
    BY <1>1, <1>3 DEF Held
  <2>2. (current' = t) = (current = t)
    BY <1>1, <1>3, Zenon
  <2> QED
    BY <2>1, <2>2 DEF Kept
<1> QED
  BY <1>2, <1>3

\* The same, called by nobody's report.
LEMMA ReleaseStep ==
  ASSUME TypeOK, ClientInv, StopProcess \/ TryReconnectServerInner,
         UNCHANGED <<phase, work>>, NEW t \in Socket
  PROVE  SocketStep(t)
<1>1. ReportsOf(t)' = ReportsOf(t) /\ phase' = phase
  BY Zenon DEF ReportsOf
<1>2. ConnPhase(t)' = ConnPhase(t)
  BY <1>1, Zenon DEF ConnPhase
<1>3. CASE Conn(t)!LetGo
  BY <1>1, <1>2, <1>3, Zenon DEF SocketStep, Conn!Next, Conn!Release
<1>4. CASE Kept(t)
  BY <1>1, <1>4, SocketSame, Zenon DEF Kept
<1> QED
  BY <1>3, <1>4, OwnerLetsGo

\* ConnectToServer makes a new socket, or has an object stand for one.
LEMMA ConnectStep ==
  ASSUME TypeOK, current = None, ConnectToServer, UNCHANGED work,
         NEW t \in Socket
  PROVE  SocketStep(t)
<1>1. PICK s \in Socket :
        /\ Free(s) /\ current' = s
        /\ phase' = [phase EXCEPT ![s] = "idle"]
        /\ deaf' = deaf \ {s}
  BY DEF ConnectToServer
<1>2. ReportsOf(t)' = ReportsOf(t)
  BY Zenon DEF ReportsOf
<1>3. phase'[s] = "idle" /\ \A u \in Socket : u # s => phase'[u] = phase[u]
  BY <1>1 DEF TypeOK
<1>4. CASE t # s
  <2>1. (t \in deaf') = (t \in deaf)
    BY <1>1, <1>4
  <2>2. (current' = t) = (current = t)
    <3>1. current # t /\ current' # t
      BY <1>1, <1>4, TaskAssumption DEF TaskAssumption
    <3> QED
      BY <3>1, Zenon
  <2> QED
    BY <1>2, <1>3, <1>4, <2>1, <2>2, SocketSame
<1>5. CASE t = s /\ phase[t] = "unused"
  <2>1. ConnPhase(t) = "idle" /\ ConnPhase(t)' = "idle"
    BY <1>3, <1>5 DEF ConnPhase
  <2>2. (current = t \/ phase[t] = "unused") = TRUE
        /\ (current' = t \/ phase'[t] = "unused") = TRUE
    BY <1>1, <1>5, Zenon
  <2>3. (t \notin deaf') = TRUE
    BY <1>1, <1>5
  <2>4. Conn(t)!Listen
    BY <1>2, <2>1, <2>2, <2>3, Zenon DEF Conn!Listen
  <2> QED
    BY <2>4, Zenon DEF SocketStep, Conn!Next
<1>6. CASE t = s /\ phase[t] # "unused"
  <2>1. phase[t] = "shut" /\ ReportsOf(t) = <<>>
    BY <1>1, <1>6 DEF Free
  <2>2. Renewed(t)
    BY <1>2, <1>3, <1>6, <2>1 DEF Renewed
  <2> QED
    BY <2>2, Zenon DEF SocketStep
<1> QED
  BY <1>4, <1>5, <1>6

LEMMA CallStep ==
  ASSUME TypeOK, ClientInv,
         BeginProcess \/ TimerFires \/ ScheduleEvent \/ UserStops,
         NEW t \in Socket
  PROVE  SocketStep(t)
<1>1. CASE BeginProcess
  BY <1>1, ConnectStep DEF BeginProcess, ClientInv, Unbegun
<1>2. CASE TimerFires
  <2>1. current = None
    BY <1>2 DEF TimerFires, ClientInv, Unbegun, Waiting, Ended
  <2> QED
    BY <1>2, <2>1, ConnectStep DEF TimerFires
<1>3. CASE ScheduleEvent
  BY <1>3, ReleaseStep DEF ScheduleEvent
<1>4. CASE UserStops
  BY <1>4, ReleaseStep DEF UserStops
<1> QED
  BY <1>1, <1>2, <1>3, <1>4

\* A report leaves the queue, and its handler keeps or drops the socket in use.
LEMMA DeliverStep ==
  ASSUME TypeOK, NEW s \in Socket, NEW r, TakeReport(s, r),
         NEW t \in Socket, Conn(t)!LetGo \/ Kept(t)
  PROVE  SocketStep(t)
<1>1. /\ work \in Seq(Entry) /\ work # <<>> /\ work' = Tail(work)
      /\ work[1].socket = s /\ phase' = phase
  BY DEF TypeOK, TakeReport
<1>2. ConnPhase(t)' = ConnPhase(t) /\ phase'[t] = phase[t]
  BY <1>1, Zenon DEF ConnPhase
<1>3. CASE t = s
  <2>1. ReportsOf(t) # <<>> /\ ReportsOf(t)' = Tail(ReportsOf(t))
    BY <1>1, <1>3, ReportsTail DEF ReportsOf
  <2>2. CASE Conn(t)!LetGo
    BY <1>2, <2>1, <2>2, Zenon DEF SocketStep, Conn!Next, Conn!Deliver
  <2>3. CASE Kept(t)
    <3>1. (t \notin deaf') = (t \notin deaf)
      BY <2>3, Zenon DEF Kept
    <3>2. (current' = t \/ phase'[t] = "unused")
            = (current = t \/ phase[t] = "unused")
      BY <1>2, <2>3, Zenon DEF Kept
    <3> QED
      BY <1>2, <2>1, <3>1, <3>2, Zenon DEF SocketStep, Conn!Next, Conn!Deliver
  <2> QED
    BY <2>2, <2>3
<1>4. CASE t # s
  <2>1. ReportsOf(t)' = ReportsOf(t)
    BY <1>1, <1>4, ReportsTail DEF ReportsOf
  <2>2. CASE Conn(t)!LetGo
    BY <1>2, <2>1, <2>2, Zenon DEF SocketStep, Conn!Next, Conn!Release
  <2>3. CASE Kept(t)
    BY <1>2, <2>1, <2>3, SocketSame DEF Kept
  <2> QED
    BY <2>2, <2>3
<1> QED
  BY <1>3, <1>4

LEMMA ReportStep ==
  ASSUME TypeOK, ClientInv, RunReport, NEW t \in Socket
  PROVE  SocketStep(t)
<1>1. PICK s \in Socket :
        \/ OnConnectEvent(s) \/ OnCloseEvent(s)
        \/ OnInternalPacket(s) \/ NoPacket(s) \/ BadPayload(s)
  BY DEF RunReport
<1>2. PICK r : TakeReport(s, r)
  BY <1>1 DEF OnConnectEvent, OnCloseEvent, OnInternalPacket, NoPacket,
              BadPayload
<1>3. UNCHANGED phase
  BY <1>2 DEF TakeReport
<1>4. CASE UNCHANGED <<current, deaf>>
  <2>1. Kept(t)
    BY <1>4, Zenon DEF Kept
  <2> QED
    BY <1>2, <2>1, DeliverStep
<1>5. CASE StopProcess \/ TryReconnectServerInner
  BY <1>2, <1>3, <1>5, OwnerLetsGo, DeliverStep
<1> QED
  BY <1>1, <1>4, <1>5
  DEF OnConnectEvent, OnCloseEvent, OnInternalPacket, NoPacket, BadPayload,
      Verify, Refuse, Parse

\* What Tell and Data do to the reports of every socket.
LEMMA ToldReports ==
  ASSUME TypeOK, NEW s \in Socket, NEW r \in Report,
         work' = Append(work, [socket |-> s, report |-> r])
  PROVE  /\ ReportsOf(s)' = Append(ReportsOf(s), r)
         /\ \A t \in Socket : t # s => ReportsOf(t)' = ReportsOf(t)
<1> DEFINE e == [socket |-> s, report |-> r]
<1>1. e \in Entry /\ work \in Seq(Entry) /\ e.socket = s /\ e.report = r
  BY DEF Entry, TypeOK
<1>2. work' = Append(work, e)
  OBVIOUS
<1> HIDE DEF e
<1>3. \A t : ReportsIn(work', t) =
               IF e.socket = t THEN Append(ReportsIn(work, t), e.report)
                               ELSE ReportsIn(work, t)
  BY <1>1, <1>2, ReportsAppend
<1> QED
  BY <1>1, <1>3 DEF ReportsOf

LEMMA NetworkSocketStep ==
  ASSUME TypeOK, ClientInv, Network, NEW t \in Socket
  PROVE  SocketStep(t)
<1>1. PICK s \in Socket :
        \/ Attempt(s) \/ FailAtOnce(s) \/ Establish(s) \/ Pretend(s)
        \/ Data(s) \/ End(s) \/ Shut(s)
  BY DEF Network
<1>2. /\ UNCHANGED <<current, deaf>>
      /\ \A u \in Socket : u # s => phase'[u] = phase[u]
      /\ phase[s] \in Live /\ phase'[s] \in Live \cup {"shut"}
  BY <1>1, NetworkStep DEF task
<1>3. /\ \A u \in Socket : u # s => ReportsOf(u)' = ReportsOf(u)
      /\ \A r \in Report : Tell(s, r) =>
           ReportsOf(s)' = IF s \notin deaf THEN Append(ReportsOf(s), r)
                                            ELSE ReportsOf(s)
      /\ Data(s) => ReportsOf(s)' = Append(ReportsOf(s), "data")
      /\ work' = work => ReportsOf(s)' = ReportsOf(s)
  <2>1. \A u : work' = work => ReportsOf(u)' = ReportsOf(u)
    BY Zenon DEF ReportsOf
  <2>2. ASSUME NEW r \in Report, Tell(s, r)
        PROVE  /\ \A u \in Socket : u # s => ReportsOf(u)' = ReportsOf(u)
               /\ ReportsOf(s)' = IF s \notin deaf THEN Append(ReportsOf(s), r)
                                                   ELSE ReportsOf(s)
    BY <2>1, <2>2, ToldReports DEF Tell
  <2>3. ASSUME Data(s)
        PROVE  /\ \A u \in Socket : u # s => ReportsOf(u)' = ReportsOf(u)
               /\ ReportsOf(s)' = Append(ReportsOf(s), "data")
    BY <2>3, ToldReports DEF Data, Report
  <2>4. Data(s) \/ work' = work \/ \E r \in Report : Tell(s, r)
    BY <1>1 DEF Attempt, FailAtOnce, Establish, Pretend, End, Shut, Report
  <2> QED
    BY <2>1, <2>2, <2>3, <2>4, Zenon
<1>4. CASE t # s
  <2>1. (t \in deaf') = (t \in deaf) /\ (current' = t) = (current = t)
    BY <1>2, Zenon
  <2> QED
    BY <1>2, <1>3, <1>4, <2>1, SocketSame
<1>5. CASE t = s
  <2> SUFFICES Conn(s)!Next
    BY <1>5, Zenon DEF SocketStep
  <2>1. /\ phase[s] # "unused" /\ phase'[s] # "unused"
        /\ ConnPhase(s) = phase[s] /\ ConnPhase(s)' = phase'[s]
    BY <1>2 DEF Live, ConnPhase
  <2>2. /\ (s \notin deaf') = (s \notin deaf)
        /\ (current' = s \/ phase'[s] = "unused")
             = (current = s \/ phase[s] = "unused")
    BY <1>2, <2>1, Zenon
  <2>3. ASSUME NEW from, NEW to, Become(s, from, to)
        PROVE  Conn(s)!Become(from, to)
    <3>1. phase[s] \in from /\ phase'[s] = to
      BY <2>3 DEF Become, TypeOK
    <3> QED
      BY <2>1, <2>2, <3>1, Zenon DEF Conn!Become
  <2>4. Live = Conn(s)!Live
    BY DEF Live, Conn!Live, Conn!Phase
  <2>5. \A r \in Report : Tell(s, r) => Conn(s)!Tell(r)
    BY <1>3, Zenon DEF Conn!Tell
  <2>6. "closed" \in Report /\ "connected" \in Report
    BY DEF Report
  <2>7. CASE Attempt(s)
    BY <1>3, <2>3, <2>7, Zenon DEF Attempt, Conn!Attempt, Conn!Next
  <2>8. CASE FailAtOnce(s)
    BY <2>3, <2>5, <2>6, <2>8, Zenon DEF FailAtOnce, Conn!FailAtOnce, Conn!Next
  <2>9. CASE Establish(s)
    BY <2>3, <2>5, <2>6, <2>9, Zenon DEF Establish, Conn!Establish, Conn!Next
  <2>10. CASE Pretend(s)
    BY <2>3, <2>5, <2>6, <2>10, Zenon DEF Pretend, Conn!Pretend, Conn!Next
  <2>11. CASE Data(s)
    BY <1>3, <2>3, <2>11, Zenon DEF Data, Conn!Data, Conn!Next
  <2>12. CASE End(s)
    BY <2>3, <2>4, <2>5, <2>6, <2>12, Zenon DEF End, Conn!End, Conn!Next
  <2>13. CASE Shut(s)
    <3>1. s # current
      BY <2>13 DEF Shut, ClientInv, Attended, InUse
    <3>2. ~(current = s \/ phase[s] = "unused")
      BY <2>1, <3>1
    <3> QED
      BY <1>3, <2>3, <2>4, <2>13, <3>2, Zenon DEF Shut, Conn!Shut, Conn!Next
  <2> QED
    BY <1>1, <2>7, <2>8, <2>9, <2>10, <2>11, <2>12, <2>13
<1> QED
  BY <1>4, <1>5

LEMMA SocketsNext ==
  ASSUME TypeOK, ClientInv, [Next]_vars, NEW t \in Socket
  PROVE  SocketStep(t)
<1>1. CASE HelloAges \/ CalmDown \/ UNCHANGED vars
  <2>1. UNCHANGED <<current, work, phase, deaf>>
    BY <1>1 DEF HelloAges, CalmDown, vars, task, sockets
  <2> QED
    BY <2>1, SocketSame, Zenon DEF ReportsOf
<1> QED
  BY <1>1, CallStep, ReportStep, NetworkSocketStep DEF Next, Worker

-----------------------------------------------------------------------------
(* Theorems.                                                               *)

\* The types, and connect_round_ stays below max_reconnect_times_ until
\* TryReconnectServerInner gives up.
THEOREM TypeCorrect == Spec => []TypeOK
  BY TypeInit, TypeNext, PTL DEF Spec

\* The inductive invariant of the task and the sockets it leaves behind.
THEOREM ClientInvariance == Spec => []ClientInv
  BY TypeCorrect, ClientInit, ClientNext, PTL DEF Spec

(***************************************************************************)
(* Whatever late or repeated reports OnCloseEvent and OnConnectEvent get,  *)
(* a task that is not stopped has a timer running or a socket that will    *)
(* report, and a stopped one has neither.                                  *)
(***************************************************************************)
THEOREM TaskNeverStuck == Spec => []NeverStuck
<1>1. TypeOK /\ ClientInv => NeverStuck
  <2> SUFFICES ASSUME TypeOK, ClientInv, begun PROVE HasFuture <=> ~stopped
    BY DEF NeverStuck
  <2>1. CASE stopped
    BY <2>1 DEF ClientInv, Ended, HasFuture
  <2>2. CASE ~stopped /\ current = None
    BY <2>2 DEF ClientInv, Waiting, HasFuture
  <2>3. CASE ~stopped /\ current # None
    <3>1. InUse(current)
      BY <2>3 DEF TypeOK, ClientInv, Attended
    <3> QED
      BY <2>3, <3>1 DEF InUse, EndReported, Live, HasFuture
  <2> QED
    BY <2>1, <2>2, <2>3
<1> QED
  BY <1>1, TypeCorrect, ClientInvariance, PTL

(***************************************************************************)
(* ConnectToServer overwrites tcp_socket_ without a look: no socket that   *)
(* was not told to close is ever lost that way.                            *)
(***************************************************************************)
THEOREM SocketNeverAbandoned == Spec => []NoAbandonedSocket
<1>1. ClientInv => NoAbandonedSocket
  BY DEF ClientInv
<1> QED
  BY <1>1, ClientInvariance, PTL

(***************************************************************************)
(* A connection that was reported has a last_hello_time_, so ScheduleEvent *)
(* will notice when it falls silent.                                       *)
(***************************************************************************)
THEOREM SilenceAlwaysNoticed == Spec => []SilenceNoticed
<1>1. TypeOK /\ ClientInv => SilenceNoticed
  <2> SUFFICES ASSUME TypeOK, ClientInv, current # None,
                      phase[current] = "open", ~Queued(current, "connected")
               PROVE  hello # "none"
    BY DEF SilenceNoticed
  <2>1. InUse(current)
    BY DEF TypeOK, ClientInv, Attended
  <2> QED
    BY <2>1 DEF InUse, Measured
<1> QED
  BY <1>1, TypeCorrect, ClientInvariance, PTL

(***************************************************************************)
(* ConnectToServer, StopProcess and TryReconnectServerInner use a          *)
(* TcpSocketWrapper as Connection expects of an owner, and each socket     *)
(* does what Connection promises, with the reports of all of them in one   *)
(* queue and objects that stand for one socket after the other.            *)
(***************************************************************************)
THEOREM SocketsAreConnections == Spec => SocketsBehave
<1>1. TypeOK /\ ClientInv /\ [Next]_vars =>
        [\A s \in Socket :
           [Conn(s)!Next \/ Renewed(s)]_<<phase[s], ReportsOf(s),
                                         s \in deaf, current = s>>
        ]_<<phase, work, deaf, current>>
  BY SocketsNext DEF SocketStep
<1> QED
  BY <1>1, TypeCorrect, ClientInvariance, PTL DEF Spec, SocketsBehave
=============================================================================

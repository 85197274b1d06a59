SPECIFICATION FairSpec
CONSTANTS
  Task = {t1, t2, t3}
  StopTask = stop
  None = none
  Thread = {loop, p1, p2}
  Loop = loop
  Ctor = p1
  OwnBase = TRUE
  MaxStops = 2
  MayCancel = FALSE
INVARIANTS
  TypeOK
  NoLostWakeup
  OneWakeup
  RunsOnLoopThread
  StopInLoopAssertion
  QueueAssertion
PROPERTIES
  ImplementsTaskExecutor
  QueuedRuns
  StopEnds
CHECK_DEADLOCK FALSE

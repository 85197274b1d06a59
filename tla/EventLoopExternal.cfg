SPECIFICATION Spec
CONSTANTS
  Task = {t1, t2, t3}
  StopTask = stop
  None = none
  Thread = {loop, p1, p2}
  Loop = loop
  Ctor = loop
  OwnBase = FALSE
  MaxStops = 1
  MayCancel = TRUE
PROPERTY ImplementsTaskExecutor
CHECK_DEADLOCK FALSE

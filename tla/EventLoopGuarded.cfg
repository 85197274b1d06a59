SPECIFICATION Spec
CONSTANTS
  Task = {t1, t2}
  StopTask = stop
  None = none
  Thread = {loop, p1, p2}
  Loop = loop
  Ctor = p1
  OwnBase = TRUE
  MaxStops = 1
  MayCancel = FALSE
INVARIANT PendingGuarded
CHECK_DEADLOCK FALSE

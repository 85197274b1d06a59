SPECIFICATION Spec
CONSTANTS
  Task = {t1, t2}
  StopTask = stop
  None = none
  Thread = {loop, p1, p2}
  Loop = loop
  Ctor = loop
  OwnBase = FALSE
  MaxStops = 1
  MayCancel = FALSE
INVARIANT StopInLoopAssertion
CHECK_DEADLOCK FALSE

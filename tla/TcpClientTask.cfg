SPECIFICATION FairSpec
CONSTANTS
  Socket = {s1, s2}
  None = None
  MaxReconnects = {0, 2}
  MaxReports = 2
INVARIANTS TypeOK NeverStuck NoAbandonedSocket SilenceNoticed
PROPERTIES SocketsBehave Recovers
CHECK_DEADLOCK FALSE

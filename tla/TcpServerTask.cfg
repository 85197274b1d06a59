SPECIFICATION FairSpec
CONSTANTS
  Setups = {"one", "network", "worker"}
  MaxReports = 3
INVARIANTS TypeOK NoNullTimer Watched
PROPERTIES Freed Dropped SocketBehaves
CHECK_DEADLOCK FALSE

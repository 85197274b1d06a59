SPECIFICATION FairSpec
CONSTANTS
  MaxSends = 2
  MaxReads = 2
  BufferSize = 2
INVARIANTS TypeOK HelperAlive SendProgress NoSpin
PROPERTIES Freed CloseReported ConnectAnswered ImplementsConnection
CHECK_DEADLOCK FALSE

SPECIFICATION Spec
CONSTANTS
  Base = 2
  Capacity = 6
  SendCapacity = 7
  MaxFunctors = 2
INVARIANT NoStrandedPacket
PROPERTY ImplementsPacketQueue
CHECK_DEADLOCK FALSE

SPECIFICATION Spec
CONSTANTS
  Base = 2
  Widths = {1, 2}
  Sizes = {0, 1, 2}
  MaxRun = 2
  MaxCapacity = 6
INVARIANTS InBounds RoomInFront
PROPERTY ImplementsByteDeque

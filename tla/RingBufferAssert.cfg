SPECIFICATION Spec
CONSTANTS
  Byte = {0, 1}
  Capacity = 4
  WordSize = 8
  MaxRun = 3
INVARIANT AvailableReadAssertion

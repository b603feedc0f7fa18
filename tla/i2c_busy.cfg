SPECIFICATION Spec
CONSTANTS
  Devices = {d1, d2}
  NoDevice = NoDevice
  Lengths = {1, 3}
  MaxChunk = 2
  MaxCalls = 2
  Clock = 4000
  Frequencies = {125}
INVARIANTS FreeWhenUnlocked
CHECK_DEADLOCK FALSE

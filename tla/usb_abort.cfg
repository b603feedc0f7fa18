SPECIFICATION Spec
CONSTANTS
  Requests <- Two
  PacketSize = 2
  FifoSize = 4
  Prompt = FALSE
  Suspends = TRUE
  Aborts = TRUE
  Resets = TRUE
  MaxRude = 2
INVARIANTS NoRequestLost
CHECK_DEADLOCK FALSE

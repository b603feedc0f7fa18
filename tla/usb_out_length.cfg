SPECIFICATION FairSpec
CONSTANTS
  Requests <- LeavesItOut
  PacketSize = 2
  FifoSize = 4
  Prompt = TRUE
  Suspends = FALSE
  Aborts = FALSE
  Resets = FALSE
  MaxRude = 0
INVARIANTS RefusedIsOver

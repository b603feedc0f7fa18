SPECIFICATION FairSpec
CONSTANTS
  Requests <- Usual
  PacketSize = 2
  FifoSize = 4
  Prompt = FALSE
  Suspends = FALSE
  Aborts = FALSE
  Resets = FALSE
  MaxRude = 0
INVARIANTS SetupReceived

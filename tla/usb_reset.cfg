SPECIFICATION FairSpec
CONSTANTS
  Requests <- Few
  PacketSize = 2
  FifoSize = 4
  Prompt = TRUE
  Suspends = FALSE
  Aborts = FALSE
  Resets = TRUE
  MaxRude = 2
INVARIANTS SetupReceived
PROPERTIES RequestsEnd

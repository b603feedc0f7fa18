SPECIFICATION FairSpec
CONSTANTS
  Requests <- SendsData
  PacketSize = 2
  FifoSize = 4
  Prompt = TRUE
  Suspends = FALSE
  Aborts = FALSE
  Resets = FALSE
  MaxRude = 0
INVARIANTS NoAssertion

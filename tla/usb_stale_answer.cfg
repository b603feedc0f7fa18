SPECIFICATION FairSpec
CONSTANTS
  Requests <- Few
  PacketSize = 2
  FifoSize = 4
  Prompt = TRUE
  Suspends = TRUE
  Aborts = FALSE
  Resets = TRUE
  MaxRude = 1
INVARIANTS AnswersItsRequest

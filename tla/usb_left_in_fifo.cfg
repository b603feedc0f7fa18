SPECIFICATION FairSpec
CONSTANTS
  Requests <- Few
  PacketSize = 2
  FifoSize = 4
  Prompt = TRUE
  Suspends = FALSE
  Aborts = FALSE
  Resets = TRUE
  MaxRude = 1
INVARIANTS AnswersOwnData

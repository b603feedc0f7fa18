SPECIFICATION FairSpec
CONSTANTS
  Requests <- Usual
  PacketSize = 2
  FifoSize = 4
  Prompt = TRUE
  Suspends = TRUE
  Aborts = FALSE
  Resets = FALSE
  MaxRude = 0
INVARIANTS TypeOK AnswersItsRequest
PROPERTIES RefinesTransfer

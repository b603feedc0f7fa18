SPECIFICATION FairSpec
CONSTANTS
  Requests <- FullPacket
  PacketSize = 2
  FifoSize = 4
  Prompt = TRUE
  Suspends = FALSE
  Aborts = FALSE
  Resets = FALSE
  MaxRude = 0
PROPERTIES RequestsEnd
CHECK_DEADLOCK FALSE

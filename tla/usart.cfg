SPECIFICATION FairSpec
CONSTANTS
  Spans <- AdjacentSpans
  MaxLength = 1
  MaxAccepted = 3
  OverrunDetection = TRUE
  Latency = FALSE
INVARIANTS TypeOK TransmitterAwake
PROPERTIES RefinesFairTx RefinesRx CallsReturnUntilOverrun

SPECIFICATION FairSpec
CONSTANTS
  Spans <- MCSpans
  MaxTransfer = 3
  MaxAccepted = 6
  Ops = {"TryLinkBuffer"}
  Latency = TRUE
INVARIANTS TypeOK NotStranded CompletedAtHandler
PROPERTIES RefinesFairStream
CHECK_DEADLOCK FALSE

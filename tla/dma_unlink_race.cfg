SPECIFICATION Spec
CONSTANTS
  Spans <- MCSpans
  MaxTransfer = 3
  MaxAccepted = 4
  Ops = {"TryLinkBuffer", "Unlink"}
  Latency = TRUE
PROPERTIES UnlinkStops

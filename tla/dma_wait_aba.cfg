SPECIFICATION SoftwareFair
CONSTANTS
  Spans <- MCSpans
  MaxTransfer = 3
  MaxAccepted = 4
  Ops = {"TryLinkBuffer", "LinkPointer", "LinkPointerNot"}
  Latency = FALSE
PROPERTIES WaitSeesMove

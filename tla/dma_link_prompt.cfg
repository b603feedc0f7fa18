SPECIFICATION Spec
CONSTANTS
  Spans <- MCSpans
  MaxTransfer = 3
  MaxAccepted = 4
  Ops = {"TryLinkBuffer", "LinkPointer", "LinkPointerNot", "Unlink"}
  Latency = FALSE
PROPERTIES LinkPointerExact UnlinkStops RefinesStream

SPECIFICATION Spec
CONSTANTS
  Spans <- MCSpans
  MaxTransfer = 3
  MaxAccepted = 4
  Ops = {"TryLinkBuffer", "Unlink"}
  Latency = FALSE
INVARIANTS CompletedAtHandler

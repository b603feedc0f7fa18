SPECIFICATION Spec
CONSTANTS
  Spans <- MCSpans
  MaxTransfer = 3
  MaxAccepted = 4
  Ops = {"TryLinkBuffer", "LinkPointer"}
  Latency = FALSE
INVARIANTS NotStranded

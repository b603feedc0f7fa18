SPECIFICATION FairSpec
CONSTANTS
  Spans <- ApartSpans
  MaxLength = 2
  MaxAccepted = 1
  OverrunDetection = TRUE
  Latency = FALSE
PROPERTIES CallsReturn

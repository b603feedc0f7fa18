SPECIFICATION Spec
CONSTANTS
  Period = 8
  Close = 4
  MonoPeriod = 16
  Delay = 2
  Latency = 1
  MaxTime = 24
INVARIANT ClockExact
CHECK_DEADLOCK FALSE

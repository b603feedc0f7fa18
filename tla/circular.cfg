SPECIFICATION FairSpec
CONSTANTS
  N = 5
  MaxBacklog = 4
  MaxRoom = 4
  MaxReceived = 12
INVARIANTS TypeOK CopyIsSafe
PROPERTIES RefinesFairStream

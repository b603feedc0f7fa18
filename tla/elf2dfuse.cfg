SPECIFICATION FairSpec
CONSTANTS
  Inputs <- Linked
  Alignment = 4
  MaxAddress = 31
  MaxOut = 40
INVARIANTS ImageLoads
PROPERTIES Terminates
CHECK_DEADLOCK FALSE

SPECIFICATION Spec
CONSTANTS
  Inputs <- Unrestricted
  Alignment = 4
  MaxAddress = 31
  MaxOut = 40
INVARIANTS ImageFits
CHECK_DEADLOCK FALSE

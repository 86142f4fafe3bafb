SPECIFICATION Spec
CONSTANTS
  Sources <- MCSources
  Inputs <- MCInputs
  Limits = {2}
  IntMax = 127
  UintMax = 255
  Infinite <- MCInfinite
INVARIANTS
  IdsLead
  RefusedForFaults
  SaysWhatIsWritten
  ReadsTheTokens
CHECK_DEADLOCK FALSE

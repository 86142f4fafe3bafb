SPECIFICATION Spec
CONSTANTS
  Second = 4
  NanosMax = 15
  Timestamps <- MCTimestamps
  Rfc3339 <- MCRfc3339
  Ints <- MCInts
  NumberText <- MCNumberText
  Data <- MCData
  HostValues <- MCHostValues
INVARIANTS
  ArrivesAsMeant
  ReadsBack
  ExportIsOrderFree
  ExportedOrRefused

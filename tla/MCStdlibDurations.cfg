SPECIFICATION CallSpec
CONSTANTS
  FunctionNames <- StdNames
  Ids <- StdIds
  Types <- StdTypes
  ValueTypes <- StdValueTypes
  Dyn = "dyn"
  Opaque = {"optional"}
  FirstParameter <- StdFirstParameter
  MaxArity = 2
  MaxOverloads = 100
  Second = 1000
  NanosMax = 30000
  Places = 3
  MinuteSecs = 2
  IntMax = 15
  UintMax = 31
  DurationMax = 130000
  CelTimes <- MCCelTimes
  ChronoTimes <- MCChronoTimes
  Texts <- MCTexts
  SmallMax = 15
  DayHours = 2
  MonthDays <- MCMonthDays
  Requests <- MCRequests
  OwnSignatures <- MCOwnSignatures
INVARIANTS TextsDenoteDurations
CHECK_DEADLOCK FALSE

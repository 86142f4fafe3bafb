SPECIFICATION FairSpec
CONSTANTS
  EvalErrors = {"e1", "e2"}
  NonBools <- MCNonBools
  MaxLen = 3
INVARIANTS TypeOK AccuSumsUp StopsWhenSettled OrderPicksVerdict
PROPERTIES ImplementsPromise Terminates
CHECK_DEADLOCK FALSE

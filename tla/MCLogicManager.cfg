SPECIFICATION Spec
CONSTANTS
  Terms <- MCTerms
  MaxTerms = 6
INVARIANTS TypeOK ReadsAsWritten IsBalanced RegroupingKeepsAnswers EvaluatesUpToDecision
CHECK_DEADLOCK FALSE

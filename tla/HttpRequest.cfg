CONSTANTS
  MaxLines = 2
  MaxResponses = 3
SPECIFICATION RequestSpec
INVARIANTS RequestTyped AnswerMerged
CHECK_DEADLOCK FALSE

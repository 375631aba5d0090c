CONSTANTS
  Names <- MCNames
  MaxText = 4
SPECIFICATION Spec
INVARIANTS SplitUndone SuccessExplained JobsExecuted
CHECK_DEADLOCK FALSE

CONSTANTS
  k1 = k1
  k2 = k2
  Keys <- MCKeys
  NoKey = NoKey
  MaxValues = 5
SPECIFICATION Spec
INVARIANTS StacksFollow ReturnsRoot NodesRight
CHECK_DEADLOCK FALSE

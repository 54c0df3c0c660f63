CONSTANTS
  MaxDepths = 1
  Setups <- MCDepthSetups
SPECIFICATION Spec
INVARIANTS DepthBound
CHECK_DEADLOCK FALSE

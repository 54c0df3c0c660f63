CONSTANTS
  MaxDepths = 3
  Setups <- MCSetups
SPECIFICATION FairSpec
INVARIANTS TypeOK ParseMatchesGrammar DenyAcceptsNumbersOnly ParseBuildsTree ErrorReportsStop ArrayDepthBound
PROPERTIES Termination
CHECK_DEADLOCK FALSE

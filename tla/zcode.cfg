SPECIFICATION Spec
CONSTANTS
  a1 = a1
  k1 = k1
  Approvals <- MCApprovals
  Asks <- MCAsks
  MaxAnswers = 2
  MaxRestarts = 1
  MaxStarts = 1
INVARIANTS
  CompletedWasOutput
  OneDecision
  NothingLeftBehind
CHECK_DEADLOCK FALSE

SPECIFICATION Spec
CONSTANTS
  MaxTurns = 1
  EventQueue = 1
  WatcherQueue = 1
  MaxChanges = 2
  MaxRestarts = 1
INVARIANTS
  ProjectionIsCurrent
  WatcherKnows
  RefreshIsFresh
PROPERTY BacklogDrains
CHECK_DEADLOCK FALSE

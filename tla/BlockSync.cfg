SPECIFICATION Spec
CONSTANTS
  Limit = 2
  KnownMax = 4
  Starts <- MCStarts
  Forks <- MCForks
  Stales <- MCStales
  RecentFrom = 0
  MaxGrow = 2
  MaxDrop = 1
INVARIANTS BatchesInOrder AnnouncedNotLost
PROPERTY CatchesUp
CHECK_DEADLOCK FALSE

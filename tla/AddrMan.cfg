CONSTANTS
  Ip = {1, 2, 3}
  Service <- MCService
  Source = {1, 2}
  NewBucket = {0, 1}
  BucketPos = {0, 1}
  TriedBucket = {0}
  GetNewBucket <- MCGetNewBucket
  GetNewPosition <- MCGetNewPosition
  GetTriedSlot <- MCGetTriedSlot
  MaxRefs = 2
  MaxIds = 4
SPECIFICATION DiskSpec
INVARIANTS
  SelectReturns
  CheckPasses
PROPERTIES
  RestartKeepsTables
  TriedSurvives

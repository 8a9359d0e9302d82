SPECIFICATION FairSpec
CONSTANTS
  Workers = {w1, w2}
  Master = m
  nBatchSize = 2
  Batches <- MCBatches
  MaxBlocks = 2
  MaxAdds = 2
CHECK_DEADLOCK FALSE
INVARIANTS AssertIdle VerdictIsConjunction CountersAgree
PROPERTIES WaitReturns

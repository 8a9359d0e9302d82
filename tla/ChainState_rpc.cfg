SPECIFICATION FairSpec
CONSTANTS
  g = g
  a1 = a1
  a2 = a2
  b1 = b1
  b2 = b2
  b3 = b3
  c2 = c2
  None = None
  Genesis = g
  Block = {g, a1, b1, b2}
  Thread = {t1, t2}
  Prev <- MCPrev
  Anc <- MCAnc
  Work <- MCWork
  Addr <- MCAddr
  Kinds <- AllGood
  Checkpointed = {b1}
  MaxInvalidate = 1
  MaxReconsider = 1
  MaxCrash = 0
  MaxWriteFail = 0
INVARIANTS
  FailedHasCause
  CandidatesNonempty
  BestChainActive
PROPERTIES
  ActivationReturns

SPECIFICATION Spec
CONSTANTS
  g = g
  a1 = a1
  a2 = a2
  b1 = b1
  b2 = b2
  b3 = b3
  c2 = c2
  None = None
  Genesis = g
  Block = {g, a1, a2, b1, b2}
  Thread = {t1, t2}
  Prev <- MCPrev
  Anc <- MCAnc
  Work <- MCWork
  Addr <- MCAddr
  Kinds <- AnyWay
  Checkpointed = {}
  MaxInvalidate = 0
  MaxReconsider = 0
  MaxCrash = 1
  MaxWriteFail = 1
INVARIANTS
  TreeConsistent
  CandidatesWhenQuiescent
  ActiveChainValid
  BestChainActive
  DiskChainComplete
SYMMETRY MCSymmetry

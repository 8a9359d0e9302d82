CONSTANTS
  Txid = {x, y}
  Coins = {c1, c2}
  Pruned = Pruned
  Block = {b1, b2}
  Null = Null
  NoEntry = NoEntry
  NoSnap = NoSnap
SPECIFICATION Spec
INVARIANT FailedWriteIsHandled

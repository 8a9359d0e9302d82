CONSTANTS
  Client = {miner, sender}
  TargetSize = 1
  RefillSize = {2}
  Passphrase = {p1, p2}
  Builtin = p1
  MaxKeys = 6
  MaxMaster = 2
SPECIFICATION Spec
SYMMETRY Owners
CHECK_DEADLOCK FALSE
INVARIANTS
  KeyHandedOnce
  PoolReadable
  GivenKeysStored

  

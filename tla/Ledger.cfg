SPECIFICATION Spec
CONSTANTS
  Tx <- MCTx
  Kind <- MCKind
  Ins <- MCIns
  Outs <- MCOuts
  Serial <- MCSerial
  Pubcoins <- MCPubcoins
  CbHeight <- MCCbHeight
  LowFee <- MCLowFee
  Maturity = 2
  LastPow = 2
  CheckBlocks = 1
  None = None
  MaxHeight = 4
  MaxBody = 3
  MaxStop = 1
INVARIANTS
  
  
  PoolMinable
  ZerocoinsRecorded
  
  
PROPERTY
  DroppedForCause

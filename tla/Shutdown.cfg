CONSTANTS
  Worker = {w1, w2}
  Request = {long, q1, q2}
  LongPoll = {long}
  MaxDepth = 1
  Task = {DumpData}
SPECIFICATION Spec
CHECK_DEADLOCK FALSE
INVARIANTS
  RepliesHandedOver
  FlushedLast

  

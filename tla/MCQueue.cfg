SPECIFICATION LiveSpec
CONSTANTS
  p1 = p1
  p2 = p2
  c1 = c1
  c2 = c2
  r1 = r1
  r2 = r2
  NoRequest = NoRequest
  NoThread = NoThread
  Producer <- TwoProducers
  Consumer <- TwoConsumers
  Request <- TwoRequests
  maxsize = 2
  Backlog = 3
INVARIANTS
  TypeOK
  MutexInv
  Capacity
  NoLostWakeup
  AccessIsSafe
PROPERTIES
  ServesCalls
  RefinesFifoQueue

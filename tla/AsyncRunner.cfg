CONSTANTS
  MaxOps = 3
  BufferSize = 1
  Timed = {1, 3}
SPECIFICATION LiveSpec
INVARIANTS
  TypeOK
  DeliveredInOrder
  LatestResultKept
  NoLostWakeup
PROPERTIES
  LatestIsDelivered
  Implements

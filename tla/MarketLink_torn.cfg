CONSTANTS
  Tick = 100
  MaxInt = 32767
  Edge = 100
  PositionLimit = 2
  LotSize = 2
  WordBytes = 2
  MaxOrderId = 8
  LossySends = FALSE
  Depth = 1
  Arrival = "any"
  ExecMessages <- MCExecMessages
  Datagrams <- MCBooks
  MaxCoalesce = 3
  MaxSent = 2
  MaxPublished = 2
SPECIFICATION Spec
INVARIANT ReadsNextMessage
CHECK_DEADLOCK FALSE

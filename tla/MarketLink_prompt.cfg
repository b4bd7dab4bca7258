CONSTANTS
  Tick = 100
  MaxInt = 32767
  Edge = 100
  PositionLimit = 2
  LotSize = 2
  WordBytes = 2
  MaxOrderId = 8
  LossySends = FALSE
  Depth = 2
  Arrival = "single"
  ExecMessages <- MCExecMessages
  Datagrams <- MCDeepBooks
  MaxCoalesce = 3
  MaxSent = 2
  MaxPublished = 2
SPECIFICATION Spec
INVARIANTS TypeOK ReadsNextMessage TheoFromBooks
CHECK_DEADLOCK FALSE

CONSTANTS
  Tick = 10
  MaxInt = 127
  Edge = 10
  PositionLimit = 2
  LotSize = 2
  WordBytes = 1
  MaxOrderId = 8
  LossySends = TRUE
  Depth = 1
  Arrival = "any"
  ExecMessages <- MCFilled
  Datagrams <- MCNarrowBooks
  MaxCoalesce = 3
  MaxSent = 1
  MaxPublished = 2
SPECIFICATION Spec
INVARIANT PositionFromMessage
PROPERTIES ReplayIsSilent ImplementsPolling
CHECK_DEADLOCK FALSE

CONSTANTS
  Tick = 100
  MaxInt = 32767
  Edge = 100
  PositionLimit = 2
  LotSize = 2
  WordBytes = 2
  MaxOrderId = 8
  LossySends = FALSE
  Depth = 2
  Arrival = "whole"
  ExecMessages <- MCExecMessages
  Datagrams <- MCDeepBooks
  MaxCoalesce = 7
  MaxSent = 3
  MaxPublished = 1
SPECIFICATION Spec
PROPERTY ImplementsDelivery
CHECK_DEADLOCK FALSE

CONSTANTS
  Tick = 100
  MaxInt = 1000000
  Edge = 100
  PositionLimit = 2
  LotSize = 2
  MaxOrderId = 7
  MaxUnread = 4
  MaxCoalesce = 2
  Positions = {0, 3}
  LossySends = FALSE
  Books <- MCBooks
  MaxLag = 1
SPECIFICATION ExposureSpec
INVARIANTS PositionReported StaleByLag PositionBounded
CHECK_DEADLOCK FALSE

CONSTANTS
  Tick = 100
  MaxInt = 1000000
  Edge = 100
  PositionLimit = 1
  LotSize = 1
  MaxOrderId = 7
  MaxUnread = 4
  MaxCoalesce = 2
  Positions = {}
  LossySends = TRUE
  Books <- MCBooks
  MaxLag = 1
SPECIFICATION ExposureSpec
INVARIANTS StaleByLag PositionBounded
CHECK_DEADLOCK FALSE

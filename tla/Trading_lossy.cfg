CONSTANTS
  Tick = 100
  MaxInt = 1000000
  Edge = 100
  PositionLimit = 1
  LotSize = 1
  MaxOrderId = 5
  MaxUnread = 2
  MaxCoalesce = 2
  Positions = {0, 1}
  LossySends = TRUE
  Books <- MCFewBooks
SPECIFICATION Spec
INVARIANTS TypeOK OrdersAccountedFor OneQuotePerSide NoSelfCross QuotesFollowTheo
PROPERTY ImplementsQuoteBook
CHECK_DEADLOCK FALSE

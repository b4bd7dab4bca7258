CONSTANTS
  Tick = 100
  MaxInt = 1000000
  Edge = 100
  PositionLimit = 2
  LotSize = 2
  MaxOrderId = 6
  MaxUnread = 4
  MaxCoalesce = 1
  Positions = {}
  LossySends = FALSE
  Books <- MCBooks
SPECIFICATION FairSpec
PROPERTIES PositionConverges ForgottenOrdersLeave ImplementsQuoteBook
CHECK_DEADLOCK FALSE

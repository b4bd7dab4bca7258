CONSTANTS
  Tick = 3
  MaxInt = 15
  Edge = 3
  Books <- MCBooks
SPECIFICATION Spec
INVARIANTS QuotesFitInt QuotesStayOutside

------------------------------- MODULE Pricing -------------------------------
(***************************************************************************)
(* FutureMidpoint and the two prices AutoTrader::onOrderBookUpdate derives *)
(* from it, over every order book an int can express: what truncation,     *)
(* negative prices and overflow do to the prices that are quoted.          *)
(***************************************************************************)
EXTENDS FutureMidpoint

CONSTANTS
  Edge,    \* 100 in the code
  Books    \* the order book updates the information channel carries

ASSUME QuotingAssumption ==
  /\ Edge \in Nat \ {0} /\ Tick <= Edge /\ 2 * Edge < MaxInt
  /\ \A book \in Books : IsPriced(book) =>
       book.ask_prices[1] \in CInt /\ book.bid_prices[1] \in CInt

VARIABLE market   \* best ask and bid theo_price_ was computed from (history)

NoMarket == [ask |-> 0, bid |-> 0]

vars == <<theo_price_, market>>

Init == PricingInit /\ market = NoMarket

Update(book) ==
  /\ model_onOrderBookUpdate(book)
  /\ market' = IF IsPriced(book)
               THEN [ask |-> book.ask_prices[1], bid |-> book.bid_prices[1]]
               ELSE market

Next == \E book \in Books : Update(book)

Spec == Init /\ [][Next]_vars

(* The arguments of executeTrades in onOrderBookUpdate. *)
bid_price == theo_price_ - Edge
ask_price == theo_price_ + Edge

-----------------------------------------------------------------------------
(* Whatever prices arrive, and even when ask + bid overflows, halving it    *)
(* leaves room for the edge: the two prices of onOrderBookUpdate are ints.  *)
QuotesFitInt == bid_price \in CInt /\ ask_price \in CInt

(* Unless ask + bid overflows, rounding to a tick never moves a quote       *)
(* through the market it was computed from: the trader bids below the best  *)
(* ask and offers above the best bid, for negative prices too.              *)
QuotesStayOutside ==
  market.bid <= market.ask /\ market.ask + market.bid \in CInt
    => bid_price < market.ask /\ ask_price > market.bid
=============================================================================

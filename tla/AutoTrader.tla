----------------------------- MODULE AutoTrader -----------------------------
(***************************************************************************)
(* The trader: one event handler per message the exchange sends, each a    *)
(* call into the pricing model and the executor.                           *)
(***************************************************************************)
EXTENDS FutureMidpoint, SimpleExecutor

CONSTANT Edge   \* half the quoted spread, 100 in the code

ASSUME EdgeAssumption == Edge \in Nat \ {0}

traderVars == <<theo_price_, id_, price_, order_id_, position_, toExchange, lost>>

TraderInit == PricingInit /\ ExecutorInit

(* Mutant: the price is asked for before the update. *)
QuoteBeforeUpdate(book) ==
  /\ model_onOrderBookUpdate(book)
  /\ executeTrades(theo_price_ - Edge, theo_price_ + Edge)

onOrderBookUpdate(book) ==
  /\ model_onOrderBookUpdate(book)
  /\ executeTrades(theo_price_' - Edge, theo_price_' + Edge)

(* A TODO in the code: the trader never learns that an order was filled. *)
onOrderStatusUpdate == UNCHANGED traderVars

onPositionUpdate(etf_position) ==
  /\ executor_onPositionUpdate(etf_position)
  /\ UNCHANGED theo_price_

TraderTypeOK == theo_price_ \in Int /\ ExecutorTypeOK
=============================================================================

------------------------------ MODULE MCTrading ------------------------------
(* Instances of Trading: two FUTURE books two ticks apart, so that the new  *)
(* bid meets the old ask, a one-sided FUTURE book and an ETF book.          *)
EXTENDS Trading

Update(instrument, asks, bids) ==
  [instrument |-> instrument, ask_prices |-> asks, bid_prices |-> bids]

MCBooks == {Update(FUTURE, <<250>>, <<150>>), Update(FUTURE, <<450>>, <<350>>),
            Update(FUTURE, << >>, <<150>>), Update(ETF, <<450>>, <<350>>)}

MCFewBooks == MCBooks \ {Update(FUTURE, << >>, <<150>>)}
=============================================================================

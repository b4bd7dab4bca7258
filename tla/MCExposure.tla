----------------------------- MODULE MCExposure -----------------------------
(* Instances of Exposure with the two FUTURE books of MCTrading. *)
EXTENDS Exposure

Update(instrument, asks, bids) ==
  [instrument |-> instrument, ask_prices |-> asks, bid_prices |-> bids]

MCBooks == {Update(FUTURE, <<250>>, <<150>>), Update(FUTURE, <<450>>, <<350>>)}
=============================================================================

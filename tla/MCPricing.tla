----------------------------- MODULE MCPricing -----------------------------
(* Pricing over every pair of 5-bit prices, and the books it must ignore. *)
EXTENDS Pricing

OneLevel(instrument, asks, bids) ==
  [instrument |-> instrument, ask_prices |-> asks, bid_prices |-> bids]

MCBooks ==
  {OneLevel(FUTURE, <<ask>>, <<bid>>) : ask, bid \in CInt}
  \cup {OneLevel(FUTURE, << >>, <<5>>), OneLevel(FUTURE, <<5>>, << >>),
        OneLevel(ETF, <<12>>, <<12>>)}
=============================================================================

---------------------------- MODULE MCMarketLink ----------------------------
(* Instances of MarketLink with two-byte words: a position update, a fill   *)
(* report and an error the program has no case for; and books whose best    *)
(* level is empty, one per instrument, two for the future.                  *)
EXTENDS MarketLink

Position(pos) == [type |-> POSITION_UPDATE_TYPE, words |-> <<-pos, pos>>]
Status(id)    == [type |-> ORDER_STATUS_UPDATE_TYPE, words |-> <<id, 1, 0, 0>>]
Error         == [type |-> 1, words |-> << >>]

MCExecMessages  == {Position(2), Position(-300), Status(2), Error}
MCFilled        == {Position(2)}

(* Sequence number, ask prices, ask volumes, bid prices, bid volumes. *)
MCDeepBooks ==
  {[instrument |-> 0, words |-> <<7, 0, 450, 5, 5, 350, 0, 5, 5>>],
   [instrument |-> 0, words |-> <<8, 650, 750, 5, 5, 550, 450, 5, 5>>],
   [instrument |-> 0, words |-> <<9, 0, 0, 0, 0, 350, 250, 5, 5>>],
   [instrument |-> 1, words |-> <<10, 850, 950, 5, 5, 750, 650, 5, 5>>]}

MCBooks ==
  {[instrument |-> 0, words |-> <<7, 250, 5, 150, 5>>],
   [instrument |-> 0, words |-> <<8, 450, 5, 350, 5>>]}

(* The same for one-byte words, with a tick of 10. *)
MCNarrowBooks ==
  {[instrument |-> 0, words |-> <<7, 25, 5, 15, 5>>],
   [instrument |-> 0, words |-> <<8, 45, 5, 35, 5>>]}
=============================================================================

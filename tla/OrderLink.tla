------------------------------ MODULE OrderLink ------------------------------
(***************************************************************************)
(* The sending half of MarketLink: the commands the trader gives to the    *)
(* exchange over exec_sock_.                                               *)
(*                                                                         *)
(* exec_sock_ is a non-blocking TCP socket and neither cancelOrder nor     *)
(* insertOrder looks at what send() returns, so a command for which the    *)
(* socket buffer has no room is dropped without a trace.  A command goes   *)
(* as a whole or not at all; CommandStream has the bytes.                  *)
(***************************************************************************)
EXTENDS Messages

CONSTANT LossySends   \* may send() fail?  TRUE for the code as it stands

ASSUME LossySendsAssumption == LossySends \in BOOLEAN

VARIABLES
  toExchange,   \* commands written to exec_sock_ the exchange has not read
  lost          \* ids whose cancel send() did not take (history)

(***************************************************************************)
(* A link is the pair of the two variables, so that one handler can hand   *)
(* the link several commands in the order the code sends them.  ok is the  *)
(* outcome of send().                                                      *)
(***************************************************************************)
CurrentLink == [queue |-> toExchange, lost |-> lost]

cancelOrder(link, order_id, ok) ==
  IF ok THEN [link EXCEPT !.queue = Append(@, CancelMessage(order_id))]
        ELSE [link EXCEPT !.lost = @ \cup {order_id}]

insertOrder(link, id, side, price, volume, ok) ==
  IF ok THEN [link EXCEPT !.queue = Append(@, InsertMessage(id, side, price, volume))]
        ELSE link

LinkInit == toExchange = << >> /\ lost = {}

LinkTypeOK == toExchange \in Seq(Message) /\ lost \in SUBSET Nat
=============================================================================

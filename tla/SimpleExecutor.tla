--------------------------- MODULE SimpleExecutor ---------------------------
(***************************************************************************)
(* The executor: keeps at most one bid and one ask in the market and moves *)
(* them when the price it is asked to quote changes.  The code has the     *)
(* fields bid_id_, ask_id_, bid_price_ and ask_price_; here they are the   *)
(* two values of id_ and price_, so that each of the code's two pairs of   *)
(* mirrored if-statements is one operator.  Id 0 is "no order".            *)
(***************************************************************************)
EXTENDS OrderLink

CONSTANTS
  PositionLimit,   \* 80 in the code
  LotSize,         \* 10 in the code
  MaxOrderId       \* where the model stops numbering; the code has 2^31 - 1

ASSUME ExecutorAssumption ==
  /\ PositionLimit \in Nat
  /\ LotSize \in Nat \ {0}
  /\ MaxOrderId \in Nat \ {0}

VARIABLES id_, price_, order_id_, position_

executorVars == <<id_, price_, order_id_, position_, toExchange, lost>>

(* SimpleExecutor() in main.cpp value-initialises the object and the class  *)
(* has no user-provided constructor: what has no initialiser is zero.       *)
ExecutorInit ==
  /\ id_ = [s \in Side |-> 0]
  /\ price_ = [s \in Side |-> 0]
  /\ order_id_ = 1
  /\ position_ = 0
  /\ LinkInit

(* Mutant: <= for <. *)
HasRoomAtLimit(side) ==
  IF side = BUY THEN position_ <= PositionLimit ELSE position_ >= -PositionLimit

HasRoom(side) ==
  IF side = BUY THEN position_ < PositionLimit ELSE position_ > -PositionLimit

Quotes == [id |-> id_, price |-> price_, order_id |-> order_id_, link |-> CurrentLink]

(* Mutant: the slot is emptied and no cancel is sent. *)
CancelStaleUnsent(q, side, price, ok) ==
  IF q.id[side] # 0 /\ price # q.price[side]
  THEN [q EXCEPT !.id[side] = 0]
  ELSE q

(* Mutant: -1 marks the empty slot. *)
CancelStaleMinusOne(q, side, price, ok) ==
  IF q.id[side] # 0 /\ price # q.price[side]
  THEN [q EXCEPT !.id[side] = -1, !.link = cancelOrder(@, q.id[side], ok)]
  ELSE q

(* The first two if-statements of executeTrades. *)
CancelStale(q, side, price, ok) ==
  IF q.id[side] # 0 /\ price # q.price[side]
  THEN [id       |-> [q.id EXCEPT ![side] = 0],
        price    |-> q.price,
        order_id |-> q.order_id,
        link     |-> cancelOrder(q.link, q.id[side], ok)]
  ELSE q

(* Mutant: the id counter is not advanced. *)
PlaceMissingSameId(q, side, price, ok) ==
  IF q.id[side] = 0 /\ HasRoom(side)
  THEN [q EXCEPT !.id[side] = q.order_id + 1, !.price[side] = price,
                 !.link = insertOrder(@, q.order_id + 1, side, price, LotSize, ok)]
  ELSE q

(* Mutant: the test for an empty slot is missing. *)
PlaceAlways(q, side, price, ok) ==
  IF HasRoom(side)
  THEN [q EXCEPT !.id[side] = q.order_id + 1, !.price[side] = price,
                 !.order_id = @ + 1,
                 !.link = insertOrder(@, q.order_id + 1, side, price, LotSize, ok)]
  ELSE q

(* Mutant: the price of the new quote is not remembered. *)
PlaceMissingNoPrice(q, side, price, ok) ==
  IF q.id[side] = 0 /\ HasRoom(side)
  THEN [q EXCEPT !.id[side] = q.order_id + 1,
                 !.order_id = @ + 1,
                 !.link = insertOrder(@, q.order_id + 1, side, price, LotSize, ok)]
  ELSE q

(* The last two. *)
PlaceMissing(q, side, price, ok) ==
  IF q.id[side] = 0 /\ HasRoom(side)
  THEN [id       |-> [q.id EXCEPT ![side] = q.order_id + 1],
        price    |-> [q.price EXCEPT ![side] = price],
        order_id |-> q.order_id + 1,
        link     |-> insertOrder(q.link, q.order_id + 1, side, price, LotSize, ok)]
  ELSE q

(* ok[s] says which sends for side s succeed. *)
SendOutcomes ==
  LET all == [cancel : BOOLEAN, insert : BOOLEAN]
  IN  IF LossySends THEN [Side -> all]
                    ELSE {[s \in Side |-> [cancel |-> TRUE, insert |-> TRUE]]}

(* Mutant: one side after the other. *)
RequotedBySide(bid_price, ask_price, ok) ==
  LET q1 == CancelStale(Quotes, BUY, bid_price, ok[BUY].cancel)
      q2 == PlaceMissing(q1, BUY, bid_price, ok[BUY].insert)
      q3 == CancelStale(q2, SELL, ask_price, ok[SELL].cancel)
  IN  PlaceMissing(q3, SELL, ask_price, ok[SELL].insert)

Requoted(bid_price, ask_price, ok) ==
  LET q1 == CancelStale(Quotes, BUY, bid_price, ok[BUY].cancel)
      q2 == CancelStale(q1, SELL, ask_price, ok[SELL].cancel)
      q3 == PlaceMissing(q2, BUY, bid_price, ok[BUY].insert)
  IN  PlaceMissing(q3, SELL, ask_price, ok[SELL].insert)

executeTrades(bid_price, ask_price) ==
  \E ok \in SendOutcomes :
    LET q == Requoted(bid_price, ask_price, ok)
    IN  /\ q.order_id <= MaxOrderId
        /\ id_' = q.id
        /\ price_' = q.price
        /\ order_id_' = q.order_id
        /\ toExchange' = q.link.queue
        /\ lost' = q.link.lost
        /\ UNCHANGED position_

(* Mutant: the position is taken for a change of position. *)
AddPosition(etf_position) ==
  /\ position_' = position_ + etf_position
  /\ UNCHANGED <<id_, price_, order_id_, toExchange, lost>>

executor_onPositionUpdate(etf_position) ==
  /\ position_' = etf_position
  /\ UNCHANGED <<id_, price_, order_id_, toExchange, lost>>

ExecutorTypeOK ==
  /\ id_ \in [Side -> Nat]
  /\ price_ \in [Side -> Int]
  /\ order_id_ \in 0 .. MaxOrderId
  /\ position_ \in Int
  /\ LinkTypeOK
=============================================================================

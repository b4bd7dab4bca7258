------------------------------ MODULE Exchange ------------------------------
(***************************************************************************)
(* EXTERNAL.  The exchange, as far as the trader's code relies on it: it   *)
(* reads commands from the execution channel in order, keeps GOOD_FOR_DAY  *)
(* orders until they are cancelled or filled, and reports every fill with  *)
(* an order status update and a position update on the same channel.       *)
(***************************************************************************)
EXTENDS OrderLink

CONSTANT MaxUnread   \* bound: messages to the trader that may be unread

VARIABLES
  orders,         \* the trader's live orders: [id, side, price, volume]
  highest_id,     \* the largest id an insert has used so far
  etf_position,   \* the trader's true position
  fromExchange    \* messages the trader has not read

exchangeVars == <<orders, highest_id, etf_position, fromExchange>>

StatusUpdate        == [type |-> ORDER_STATUS_UPDATE_TYPE]
PositionUpdate(pos) == [type |-> POSITION_UPDATE_TYPE, etf_position |-> pos]

ExchangeInit ==
  /\ orders = {}
  /\ highest_id = 0
  /\ etf_position = 0
  /\ fromExchange = << >>

AsOrder(m) == [id |-> m.id, side |-> m.side, price |-> m.price, volume |-> m.volume]

(* An insert rests, or is rejected. *)
ReceiveInsert ==
  /\ toExchange # << >>
  /\ LET m == Head(toExchange)
     IN  /\ IsInsert(m)
         /\ orders' \in {orders, orders \cup {AsOrder(m)}}
         /\ highest_id' = m.id
  /\ toExchange' = Tail(toExchange)
  /\ UNCHANGED <<lost, etf_position, fromExchange>>

(* Cancelling an order that is gone does nothing. *)
ReceiveCancel ==
  /\ toExchange # << >>
  /\ LET m == Head(toExchange)
     IN  /\ ~IsInsert(m)
         /\ orders' = {o \in orders : o.id # m.id}
  /\ toExchange' = Tail(toExchange)
  /\ UNCHANGED <<lost, highest_id, etf_position, fromExchange>>

Reduced(o, volume) ==
  [id |-> o.id, side |-> o.side, price |-> o.price, volume |-> o.volume - volume]

Fill(o, volume) ==
  LET rest == IF volume = o.volume THEN {} ELSE {Reduced(o, volume)}
      pos  == IF o.side = BUY THEN etf_position + volume ELSE etf_position - volume
  IN  /\ Len(fromExchange) + 2 <= MaxUnread
      /\ orders' = (orders \ {o}) \cup rest
      /\ etf_position' = pos
      /\ \/ fromExchange' = fromExchange \o <<StatusUpdate, PositionUpdate(pos)>>
         \/ fromExchange' = fromExchange \o <<PositionUpdate(pos), StatusUpdate>>
      /\ UNCHANGED <<toExchange, lost, highest_id>>

ExchangeNext ==
  \/ ReceiveInsert
  \/ ReceiveCancel
  \/ \E o \in orders : \E volume \in 1 .. o.volume : Fill(o, volume)

ExchangeTypeOK ==
  /\ \A o \in orders : o \in [id : Nat, side : Side, price : Int, volume : Nat \ {0}]
  /\ highest_id \in Nat
  /\ etf_position \in Int
  /\ fromExchange \in Seq([type : {ORDER_STATUS_UPDATE_TYPE}]
                          \cup [type : {POSITION_UPDATE_TYPE}, etf_position : Int])
=============================================================================

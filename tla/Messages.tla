------------------------------ MODULE Messages ------------------------------
(***************************************************************************)
(* The message types and the two commands of messages.h, and the sides of  *)
(* types.h.  Every order is sent with Lifespan::GOOD_FOR_DAY, so a command *)
(* does not carry the lifespan.                                            *)
(***************************************************************************)
EXTENDS Integers, Sequences

CANCEL_MESSAGE_TYPE            == 2
INSERT_MESSAGE_TYPE            == 4
LOGIN_MESSAGE_TYPE             == 5
ORDER_BOOK_UPDATE_MESSAGE_TYPE == 6
ORDER_STATUS_UPDATE_TYPE       == 7
POSITION_UPDATE_TYPE           == 8

SELL == "SELL"
BUY  == "BUY"
Side == {SELL, BUY}

CancelMessage(id) == [type |-> CANCEL_MESSAGE_TYPE, id |-> id]

InsertMessage(id, side, price, volume) ==
  [type |-> INSERT_MESSAGE_TYPE, id |-> id, side |-> side, price |-> price,
   volume |-> volume]

IsCancelOf(m, id) == m.type = CANCEL_MESSAGE_TYPE /\ m.id = id
IsInsert(m)       == m.type = INSERT_MESSAGE_TYPE

Message == [type : {CANCEL_MESSAGE_TYPE}, id : Nat]
           \cup [type : {INSERT_MESSAGE_TYPE}, id : Nat, side : Side,
                 price : Int, volume : Nat \ {0}]
=============================================================================

------------------------------- MODULE Trading -------------------------------
(***************************************************************************)
(* The trader at work: AutoTrader, the execution channel in both           *)
(* directions, and the exchange, interleaved message by message.           *)
(*                                                                         *)
(* One pass of MarketLink::runLoop is one action.  The information channel *)
(* is UDP multicast: datagrams may be lost, repeated and reordered, so a   *)
(* read of info_sock_ yields any book update at all.  readNextMessage      *)
(* looks at info_sock_ only when exec_sock_ has nothing; an exec message   *)
(* still on its way counts as nothing, so a book update can be handled     *)
(* with exec messages outstanding.  TCP may cut the stream of exec         *)
(* messages anywhere: what the loop then handles is a torn mixture of      *)
(* them, modelled as any message at all.                                   *)
(***************************************************************************)
EXTENDS AutoTrader, Exchange

CONSTANTS
  Books,         \* the order book updates the information channel carries
  MaxCoalesce,   \* exec messages one read() may return: 8 in the code, whose
                 \* buffer holds 88 bytes and whose shortest message has 11
  Positions      \* the positions a torn read may show; {} if reads are whole

ASSUME CoalesceAssumption == MaxCoalesce \in Nat \ {0}

ASSUME BooksAssumption ==
  \A book \in Books : IsPriced(book) =>
    book.ask_prices[1] \in Int /\ book.bid_prices[1] \in Int

ASSUME PositionsAssumption == Positions \subseteq Int

vars == <<theo_price_, id_, price_, order_id_, position_, toExchange, lost,
          orders, highest_id, etf_position, fromExchange>>

Init == TraderInit /\ ExchangeInit

ReadInfo(book) ==
  /\ onOrderBookUpdate(book)
  /\ UNCHANGED exchangeVars

Consume(n) ==
  /\ n <= Len(fromExchange)
  /\ fromExchange' = SubSeq(fromExchange, n + 1, Len(fromExchange))
  /\ UNCHANGED <<orders, highest_id, etf_position>>

(* One read() takes every exec message that has arrived; the loop handles   *)
(* the first and the next read overwrites the others.                       *)
ReadExec ==
  /\ fromExchange # << >>
  /\ LET m == Head(fromExchange)
     IN  \/ m.type = POSITION_UPDATE_TYPE /\ onPositionUpdate(m.etf_position)
         \/ m.type = ORDER_STATUS_UPDATE_TYPE /\ onOrderStatusUpdate
  /\ \E n \in 1 .. MaxCoalesce : Consume(n)

(* A read() that ends inside a message, or begins there: msg holds parts of *)
(* several messages, old ones included, and any handler may be called.      *)
ReadTorn ==
  /\ fromExchange # << >> /\ Positions # {}
  /\ \/ \E pos \in Positions : onPositionUpdate(pos)
     \/ \E book \in Books : onOrderBookUpdate(book)
     \/ onOrderStatusUpdate
  /\ \E n \in 0 .. MaxCoalesce : Consume(n)

ExchangeStep ==
  /\ ExchangeNext
  /\ UNCHANGED <<theo_price_, id_, price_, order_id_, position_>>

Next ==
  \/ \E book \in Books : ReadInfo(book)
  \/ ReadExec
  \/ ReadTorn
  \/ ExchangeStep

Spec == Init /\ [][Next]_vars

(* The exchange keeps reading what was sent to it, and the loop of the      *)
(* trader, which never sleeps and tries exec_sock_ first, what comes back.  *)
Fairness ==
  /\ WF_vars(ReadExec)
  /\ WF_vars(ReceiveInsert /\ UNCHANGED <<theo_price_, id_, price_, order_id_, position_>>)
  /\ WF_vars(ReceiveCancel /\ UNCHANGED <<theo_price_, id_, price_, order_id_, position_>>)

FairSpec == Spec /\ Fairness

-----------------------------------------------------------------------------
TypeOK == TraderTypeOK /\ ExchangeTypeOK

Book == INSTANCE QuoteBook

(***************************************************************************)
(* The inductive invariant.  An order is live at the exchange (place 0) or *)
(* on its way as an insert (place i in the queue).  It is settled between  *)
(* two places when its cancel lies between them or was dropped.  Every     *)
(* order is the one its slot of the executor holds, or settled before the  *)
(* end of the queue; and of two orders that conflict, the earlier one is   *)
(* settled before the later one.                                           *)
(***************************************************************************)
Settled(link, id, i, j) ==
  \/ id \in link.lost
  \/ \E k \in DOMAIN link.queue : i < k /\ k < j /\ IsCancelOf(link.queue[k], id)

Holds(q, o) == q.id[o.side] = o.id /\ q.price[o.side] = o.price

LiveOrders(q, os, hi) ==
  \A o \in os :
    /\ 0 < o.id /\ o.id <= hi
    /\ Holds(q, o) \/ Settled(q.link, o.id, 0, Len(q.link.queue) + 1)
    /\ \A p \in os : /\ o.id = p.id => o = p
                     /\ o.id < p.id /\ Book!Conflict(o, p) => o.id \in q.link.lost
    /\ \A j \in DOMAIN q.link.queue :
         IsInsert(q.link.queue[j]) /\ Book!Conflict(o, q.link.queue[j])
           => Settled(q.link, o.id, 0, j)

QueuedOrders(q, hi) ==
  \A i \in DOMAIN q.link.queue : IsInsert(q.link.queue[i]) =>
    LET m == q.link.queue[i]
    IN  /\ hi < m.id /\ m.id <= q.order_id
        /\ Holds(q, m) \/ Settled(q.link, m.id, i, Len(q.link.queue) + 1)
        /\ \A j \in DOMAIN q.link.queue :
             i < j /\ IsInsert(q.link.queue[j]) =>
               /\ m.id < q.link.queue[j].id
               /\ Book!Conflict(m, q.link.queue[j]) => Settled(q.link, m.id, i, j)

QuoteInv(q, os, hi) == LiveOrders(q, os, hi) /\ QueuedOrders(q, hi) /\ hi <= q.order_id

(* Every order of the trader is the one a slot of the executor holds or has *)
(* its cancel behind it, and conflicting orders are separated by a cancel.  *)
OrdersAccountedFor == QuoteInv(Quotes, orders, highest_id)

(* The executor tracks one bid and one ask, so the exchange must never hold *)
(* two live orders of the trader on one side, whatever commands and fills   *)
(* are under way -- unless send() dropped the cancel of the older one.      *)
OneQuotePerSide ==
  \A o, p \in orders : o.id < p.id /\ o.side = p.side => o.id \in lost

(* executeTrades cancels both stale quotes before it inserts either new     *)
(* one, so the trader never trades with itself: no live bid at or above a   *)
(* live ask, unless send() dropped the cancel of the older of the two.      *)
NoSelfCross ==
  \A o, p \in orders :
    o.id < p.id /\ (Book!Crosses(o, p) \/ Book!Crosses(p, o)) => o.id \in lost

Quoted(side) == IF side = BUY THEN theo_price_ - Edge ELSE theo_price_ + Edge

(* The market follows the model: every live order of the trader is at the   *)
(* current theoretical price less or plus the edge, or its cancel is on the *)
(* way or was dropped.  So a quote around the initial price of zero, or one *)
(* from a late or torn book, lasts no longer than the price it came from;   *)
(* and a slot whose order was filled or refused blocks its side no longer   *)
(* either, since it holds the current price too.                            *)
QuotesFollowTheo ==
  /\ \A s \in Side : id_[s] # 0 => price_[s] = Quoted(s)
  /\ \A o \in orders :
       o.price = Quoted(o.side) \/ Settled(CurrentLink, o.id, 0, Len(toExchange) + 1)

(* What the exchange sees is a disciplined quoter, whatever messages, fills *)
(* and failed sends the executor works through.                             *)
ImplementsQuoteBook == Book!Spec

(* An order the executor has forgotten (no slot holds its id) does not stay *)
(* in the market: its cancel is on the way, unless send() dropped it.       *)
ForgottenOrdersLeave ==
  \A i \in 1 .. MaxOrderId :
    ((\E o \in orders : o.id = i /\ id_[o.side] # i) /\ i \notin lost)
      ~> (\A o \in orders : o.id # i)

(* The position the executor goes by does not stay wrong: it reaches the    *)
(* true one, unless that moves on first.                                    *)
PositionConverges ==
  \A p \in -LotSize * MaxOrderId .. LotSize * MaxOrderId :
    (etf_position = p) ~> (position_ = p \/ etf_position # p)
=============================================================================

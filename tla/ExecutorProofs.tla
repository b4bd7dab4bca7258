--------------------------- MODULE ExecutorProofs ---------------------------
(***************************************************************************)
(* Lemmas about the trader on its own: what the handlers of AutoTrader do  *)
(* to the slots of SimpleExecutor, its link and the price, whoever calls   *)
(* them.  TradingProofs and MarketLinkProofs build on them.                *)
(***************************************************************************)
EXTENDS AutoTrader, TLAPS

-----------------------------------------------------------------------------
(* The steps of executeTrades on well-typed quotes.                         *)

LinkType == [queue : Seq(Message), lost : SUBSET Nat]

QuotesType ==
  [id : [Side -> Nat], price : [Side -> Int], order_id : Nat, link : LinkType]

(* A command handed to the link leaves it well-typed, sent or dropped. *)
LEMMA CancelOrderType ==
  ASSUME NEW link \in LinkType, NEW id \in Nat, NEW ok \in BOOLEAN
  PROVE  cancelOrder(link, id, ok) \in LinkType
<1>1. CancelMessage(id) \in Message
  BY DEF CancelMessage, Message
<1>2. Append(link.queue, CancelMessage(id)) \in Seq(Message)
  BY <1>1 DEF LinkType
<1>3. CASE ok
  BY <1>2, <1>3 DEF cancelOrder, LinkType
<1>4. CASE ~ok
  BY <1>4 DEF cancelOrder, LinkType
<1> QED BY <1>3, <1>4

(* Likewise for an insert. *)
LEMMA InsertOrderType ==
  ASSUME NEW link \in LinkType, NEW id \in Nat, NEW side \in Side,
         NEW price \in Int, NEW volume \in Nat \ {0}, NEW ok \in BOOLEAN
  PROVE  insertOrder(link, id, side, price, volume, ok) \in LinkType
<1>1. InsertMessage(id, side, price, volume) \in Message
  BY DEF InsertMessage, Message
<1>2. Append(link.queue, InsertMessage(id, side, price, volume)) \in Seq(Message)
  BY <1>1 DEF LinkType
<1>3. CASE ok
  BY <1>2, <1>3 DEF insertOrder, LinkType
<1>4. CASE ~ok
  BY <1>4 DEF insertOrder, LinkType
<1> QED BY <1>3, <1>4

(* The first two statements of executeTrades keep the quotes well-typed. *)
LEMMA CancelStaleType ==
  ASSUME NEW q \in QuotesType, NEW side \in Side, NEW price \in Int, NEW ok \in BOOLEAN
  PROVE  CancelStale(q, side, price, ok) \in QuotesType
<1>1. cancelOrder(q.link, q.id[side], ok) \in LinkType
  BY CancelOrderType DEF QuotesType
<1> QED BY <1>1 DEF CancelStale, QuotesType

(* So do the last two. *)
LEMMA PlaceMissingType ==
  ASSUME NEW q \in QuotesType, NEW side \in Side, NEW price \in Int, NEW ok \in BOOLEAN
  PROVE  PlaceMissing(q, side, price, ok) \in QuotesType
<1>1. q.order_id + 1 \in Nat /\ q.link \in LinkType
  BY DEF QuotesType
<1>2. insertOrder(q.link, q.order_id + 1, side, price, LotSize, ok) \in LinkType
  BY <1>1, InsertOrderType, ExecutorAssumption
<1> QED BY <1>1, <1>2 DEF PlaceMissing, QuotesType

(* Each send succeeds or fails. *)
LEMMA SendOutcomesType ==
  ASSUME NEW ok \in SendOutcomes
  PROVE  /\ ok[BUY].cancel \in BOOLEAN /\ ok[SELL].cancel \in BOOLEAN
         /\ ok[BUY].insert \in BOOLEAN /\ ok[SELL].insert \in BOOLEAN
<1>1. CASE LossySends
  <2>1. ok \in [Side -> [cancel : BOOLEAN, insert : BOOLEAN]]
    BY <1>1 DEF SendOutcomes
  <2>2. /\ ok[BUY] \in [cancel : BOOLEAN, insert : BOOLEAN]
        /\ ok[SELL] \in [cancel : BOOLEAN, insert : BOOLEAN]
    BY <2>1 DEF Side
  <2> QED BY <2>2
<1>2. CASE ~LossySends
  <2>1. ok = [s \in Side |-> [cancel |-> TRUE, insert |-> TRUE]]
    BY <1>2 DEF SendOutcomes
  <2>2. /\ ok[BUY] = [cancel |-> TRUE, insert |-> TRUE]
        /\ ok[SELL] = [cancel |-> TRUE, insert |-> TRUE]
    BY <2>1 DEF Side
  <2> QED BY <2>2
<1> QED BY <1>1, <1>2

(* executeTrades keeps the quotes well-typed. *)
LEMMA RequotedType ==
  ASSUME Quotes \in QuotesType, NEW b \in Int, NEW a \in Int, NEW ok \in SendOutcomes
  PROVE  Requoted(b, a, ok) \in QuotesType
<1> BUY \in Side /\ SELL \in Side
  BY DEF Side
<1> DEFINE q1 == CancelStale(Quotes, BUY, b, ok[BUY].cancel)
           q2 == CancelStale(q1, SELL, a, ok[SELL].cancel)
           q3 == PlaceMissing(q2, BUY, b, ok[BUY].insert)
           q4 == PlaceMissing(q3, SELL, a, ok[SELL].insert)
<1>1. q1 \in QuotesType
  BY SendOutcomesType, CancelStaleType
<1> HIDE DEF q1
<1>2. q2 \in QuotesType
  BY <1>1, SendOutcomesType, CancelStaleType
<1> HIDE DEF q2
<1>3. q3 \in QuotesType
  BY <1>2, SendOutcomesType, PlaceMissingType
<1> HIDE DEF q3
<1>4. q4 \in QuotesType
  BY <1>3, SendOutcomesType, PlaceMissingType
<1> QED BY <1>4 DEF Requoted, q1, q2, q3

(* The price stays an integer: C++ division and wrapping yield integers. *)
LEMMA MidpointType ==
  ASSUME NEW ask \in Int, NEW bid \in Int
  PROVE  Midpoint(ask, bid) \in Int
<1>1. WrapSum(ask + bid) \in Int
  BY PricingAssumption DEF WrapSum
<1>2. \A n \in Int, d \in Nat \ {0} : TruncDiv(n, d) \in Int
  BY DEF TruncDiv
<1>3. TruncDiv(TruncDiv(WrapSum(ask + bid), 2), Tick) \in Int
  BY <1>1, <1>2, PricingAssumption
<1> QED BY <1>3, PricingAssumption DEF Midpoint

-----------------------------------------------------------------------------
(* The slot of a side is at rest at a price: it holds a quote there, or     *)
(* none because the position leaves no room for one.                        *)
AtRest(q, side, price) ==
  IF q.id[side] # 0 THEN q.price[side] = price ELSE ~HasRoom(side)

(* One statement of executeTrades: what it does to its own slot and that it *)
(* leaves the other alone.                                                  *)
LEMMA SlotStep ==
  ASSUME NEW q \in QuotesType, NEW s \in Side, NEW t \in Side, s # t, NEW p \in Int, NEW y
  PROVE  /\ LET n == CancelStale(q, s, p, y)
            IN  /\ n.id[s] # 0 => n.price[s] = p
                /\ n.id[t] = q.id[t] /\ n.price[t] = q.price[t]
         /\ LET n == PlaceMissing(q, s, p, y)
            IN  /\ (q.id[s] # 0 => q.price[s] = p) => AtRest(n, s, p)
                /\ n.id[t] = q.id[t] /\ n.price[t] = q.price[t]
<1>1. /\ q.id \in [Side -> Nat] /\ q.price \in [Side -> Int]
      /\ q.order_id \in Nat
  BY DEF QuotesType
<1> HIDE DEF HasRoom
<1> QED BY <1>1 DEF CancelStale, PlaceMissing, AtRest

(* After executeTrades both slots are at rest at the prices it was given. *)
LEMMA RequotedSlots ==
  ASSUME Quotes \in QuotesType, NEW b \in Int, NEW a \in Int, NEW ok \in SendOutcomes
  PROVE  LET q == Requoted(b, a, ok)
         IN  AtRest(q, BUY, b) /\ AtRest(q, SELL, a)
<1>1. BUY \in Side /\ SELL \in Side /\ BUY # SELL
  BY DEF Side, BUY, SELL
<1>2. /\ ok[BUY].cancel \in BOOLEAN /\ ok[SELL].cancel \in BOOLEAN
      /\ ok[BUY].insert \in BOOLEAN /\ ok[SELL].insert \in BOOLEAN
  BY SendOutcomesType
<1> DEFINE q1 == CancelStale(Quotes, BUY, b, ok[BUY].cancel)
           q2 == CancelStale(q1, SELL, a, ok[SELL].cancel)
           q3 == PlaceMissing(q2, BUY, b, ok[BUY].insert)
           q4 == PlaceMissing(q3, SELL, a, ok[SELL].insert)
<1>3. q1 \in QuotesType /\ (q1.id[BUY] # 0 => q1.price[BUY] = b)
  BY <1>1, <1>2, SlotStep, CancelStaleType
<1> HIDE DEF q1
<1>4. /\ q2 \in QuotesType
      /\ q2.id[BUY] # 0 => q2.price[BUY] = b
      /\ q2.id[SELL] # 0 => q2.price[SELL] = a
  BY <1>1, <1>2, <1>3, SlotStep, CancelStaleType
<1> HIDE DEF q2
<1>5. /\ q3 \in QuotesType
      /\ AtRest(q3, BUY, b)
      /\ q3.id[SELL] # 0 => q3.price[SELL] = a
  BY <1>1, <1>2, <1>4, SlotStep, PlaceMissingType
<1> HIDE DEF q3
<1>6. AtRest(q4, SELL, a) /\ q4.id[BUY] = q3.id[BUY] /\ q4.price[BUY] = q3.price[BUY]
  BY <1>1, <1>2, <1>5, SlotStep
<1>7. AtRest(q4, BUY, b)
  BY <1>5, <1>6 DEF AtRest
<1> QED BY <1>6, <1>7 DEF Requoted, q1, q2, q3

(* And executeTrades does nothing to slots at rest: asked for the same      *)
(* prices again it sends nothing.                                           *)
LEMMA RequotedAtRest ==
  ASSUME NEW b, NEW a, NEW ok, AtRest(Quotes, BUY, b), AtRest(Quotes, SELL, a)
  PROVE  Requoted(b, a, ok) = Quotes
<1>1. /\ \A y : CancelStale(Quotes, BUY, b, y) = Quotes
      /\ \A y : CancelStale(Quotes, SELL, a, y) = Quotes
  BY DEF CancelStale, AtRest
<1>2. /\ \A y : PlaceMissing(Quotes, BUY, b, y) = Quotes
      /\ \A y : PlaceMissing(Quotes, SELL, a, y) = Quotes
  BY DEF PlaceMissing, AtRest
<1> QED BY <1>1, <1>2 DEF Requoted

(* Requoting may add to the dropped cancels and takes nothing back. *)
LEMMA LostGrows ==
  ASSUME Quotes \in QuotesType, NEW b \in Int, NEW a \in Int, NEW ok \in SendOutcomes
  PROVE  Quotes.link.lost \subseteq Requoted(b, a, ok).link.lost
<1>1. \A l \in LinkType : \A id, y : l.lost \subseteq cancelOrder(l, id, y).lost
  BY DEF cancelOrder, LinkType
<1>2. \A l \in LinkType : \A id, side, price, volume, y :
        l.lost \subseteq insertOrder(l, id, side, price, volume, y).lost
  BY DEF insertOrder, LinkType
<1>3. \A q \in QuotesType : \A side, price, y :
        q.link.lost \subseteq CancelStale(q, side, price, y).link.lost
  BY <1>1 DEF CancelStale, QuotesType
<1>4. \A q \in QuotesType : \A side, price, y :
        q.link.lost \subseteq PlaceMissing(q, side, price, y).link.lost
  BY <1>2 DEF PlaceMissing, QuotesType
<1> BUY \in Side /\ SELL \in Side
  BY DEF Side
<1> DEFINE q1 == CancelStale(Quotes, BUY, b, ok[BUY].cancel)
           q2 == CancelStale(q1, SELL, a, ok[SELL].cancel)
           q3 == PlaceMissing(q2, BUY, b, ok[BUY].insert)
           q4 == PlaceMissing(q3, SELL, a, ok[SELL].insert)
<1>5. q1 \in QuotesType /\ Quotes.link.lost \subseteq q1.link.lost
  BY <1>3, SendOutcomesType, CancelStaleType
<1> HIDE DEF q1
<1>6. q2 \in QuotesType /\ q1.link.lost \subseteq q2.link.lost
  BY <1>3, <1>5, SendOutcomesType, CancelStaleType
<1> HIDE DEF q2
<1>7. q3 \in QuotesType /\ q2.link.lost \subseteq q3.link.lost
  BY <1>4, <1>6, SendOutcomesType, PlaceMissingType
<1> HIDE DEF q3
<1>8. q3.link.lost \subseteq q4.link.lost
  BY <1>4, <1>7
<1>9. Requoted(b, a, ok) = q4
  BY DEF Requoted, q1, q2, q3
<1> QED BY <1>5, <1>6, <1>7, <1>8, <1>9

-----------------------------------------------------------------------------
(* The handlers.                                                            *)

PricesAreInts(book) ==
  IsPriced(book) => book.ask_prices[1] \in Int /\ book.bid_prices[1] \in Int

(* What TraderTypeOK says of the slots and of the link. *)
LEMMA TraderTypeQuotes ==
  ASSUME TraderTypeOK
  PROVE  Quotes \in QuotesType
<1>1. order_id_ \in Nat
  BY ExecutorAssumption DEF TraderTypeOK, ExecutorTypeOK
<1>2. CurrentLink \in LinkType
  BY DEF TraderTypeOK, ExecutorTypeOK, LinkTypeOK, LinkType, CurrentLink
<1> QED BY <1>1, <1>2 DEF TraderTypeOK, ExecutorTypeOK, Quotes, QuotesType

(* Handling a book update: the prices are two edges apart and the executor  *)
(* requotes, whichever sends fail.                                          *)
LEMMA BookHandled ==
  ASSUME TraderTypeOK, NEW book, PricesAreInts(book), onOrderBookUpdate(book)
  PROVE  /\ theo_price_' \in Int
         /\ theo_price_' - Edge \in Int /\ theo_price_' + Edge \in Int
         /\ \E ok \in SendOutcomes :
              /\ Requoted(theo_price_' - Edge, theo_price_' + Edge, ok) = Quotes'
              /\ order_id_' <= MaxOrderId
         /\ position_' = position_
<1>1. theo_price_' \in Int
  BY MidpointType DEF onOrderBookUpdate, model_onOrderBookUpdate, TraderTypeOK, PricesAreInts
<1>2. PICK ok \in SendOutcomes :
        LET q == Requoted(theo_price_' - Edge, theo_price_' + Edge, ok)
        IN  /\ q.order_id <= MaxOrderId
            /\ id_' = q.id /\ price_' = q.price /\ order_id_' = q.order_id
            /\ toExchange' = q.link.queue /\ lost' = q.link.lost
            /\ UNCHANGED position_
  BY DEF onOrderBookUpdate, executeTrades
<1>3. theo_price_' - Edge \in Int /\ theo_price_' + Edge \in Int
  BY <1>1, EdgeAssumption
<1>4. Requoted(theo_price_' - Edge, theo_price_' + Edge, ok) \in QuotesType
  BY <1>3, TraderTypeQuotes, RequotedType
<1> QED BY <1>1, <1>2, <1>3, <1>4 DEF Quotes, CurrentLink, QuotesType, LinkType

(* Handling a book update keeps the trader's types. *)
LEMMA BookHandledType ==
  ASSUME TraderTypeOK, NEW book, PricesAreInts(book), onOrderBookUpdate(book)
  PROVE  TraderTypeOK'
<1>1. PICK ok \in SendOutcomes :
        /\ Requoted(theo_price_' - Edge, theo_price_' + Edge, ok) = Quotes'
        /\ order_id_' <= MaxOrderId
  BY BookHandled
<1>2. /\ theo_price_' \in Int
      /\ theo_price_' - Edge \in Int /\ theo_price_' + Edge \in Int
  BY BookHandled
<1>3. Quotes' \in QuotesType
  BY <1>1, <1>2, TraderTypeQuotes, RequotedType
<1>4. /\ id_' \in [Side -> Nat] /\ price_' \in [Side -> Int] /\ order_id_' \in Nat
      /\ LinkTypeOK'
  BY <1>3 DEF Quotes, QuotesType, LinkType, CurrentLink, LinkTypeOK
<1>5. order_id_' \in 0 .. MaxOrderId
  BY <1>1, <1>4, ExecutorAssumption
<1>6. position_' \in Int
  BY BookHandled DEF TraderTypeOK, ExecutorTypeOK
<1> QED BY <1>2, <1>4, <1>5, <1>6 DEF TraderTypeOK, ExecutorTypeOK

(* Handling a position update does. *)
LEMMA PositionType ==
  ASSUME TraderTypeOK, NEW pos \in Int, onPositionUpdate(pos)
  PROVE  TraderTypeOK'
BY DEF onPositionUpdate, executor_onPositionUpdate, TraderTypeOK, ExecutorTypeOK, LinkTypeOK

(* Handling a status update does. *)
LEMMA StatusType ==
  ASSUME TraderTypeOK, onOrderStatusUpdate
  PROVE  TraderTypeOK'
BY DEF onOrderStatusUpdate, traderVars, TraderTypeOK, ExecutorTypeOK, LinkTypeOK

(* The price a book sets: once theo_price_ has it, the same book leaves     *)
(* theo_price_ alone.                                                       *)
PriceOf(book) == IsPriced(book) => theo_price_ = Midpoint(book.ask_prices[1], book.bid_prices[1])

(* After a book update price and slots are settled for that book ...        *)
LEMMA BookSettles ==
  ASSUME TraderTypeOK, NEW book, PricesAreInts(book), onOrderBookUpdate(book)
  PROVE  /\ PriceOf(book)'
         /\ AtRest(Quotes, BUY, theo_price_ - Edge)'
         /\ AtRest(Quotes, SELL, theo_price_ + Edge)'
<1>1. PICK ok \in SendOutcomes :
        Requoted(theo_price_' - Edge, theo_price_' + Edge, ok) = Quotes'
  BY BookHandled
<1>2. /\ theo_price_' - Edge \in Int /\ theo_price_' + Edge \in Int
      /\ position_' = position_
  BY BookHandled
<1>3. AtRest(Quotes', BUY, theo_price_' - Edge) /\ AtRest(Quotes', SELL, theo_price_' + Edge)
  BY <1>1, <1>2, TraderTypeQuotes, RequotedSlots
<1>4. PriceOf(book)'
  BY DEF PriceOf, onOrderBookUpdate, model_onOrderBookUpdate
<1> QED BY <1>2, <1>3, <1>4 DEF AtRest, HasRoom

(* ... and handling it again changes nothing and sends nothing.             *)
LEMMA BookAgain ==
  ASSUME NEW book, onOrderBookUpdate(book), PriceOf(book),
         AtRest(Quotes, BUY, theo_price_ - Edge), AtRest(Quotes, SELL, theo_price_ + Edge)
  PROVE  UNCHANGED traderVars
<1>1. theo_price_' = theo_price_
  BY DEF PriceOf, onOrderBookUpdate, model_onOrderBookUpdate
<1>2. PICK ok \in SendOutcomes :
        LET q == Requoted(theo_price_ - Edge, theo_price_ + Edge, ok)
        IN  /\ id_' = q.id /\ price_' = q.price /\ order_id_' = q.order_id
            /\ toExchange' = q.link.queue /\ lost' = q.link.lost
            /\ UNCHANGED position_
  BY <1>1 DEF onOrderBookUpdate, executeTrades
<1>3. Requoted(theo_price_ - Edge, theo_price_ + Edge, ok) = Quotes
  BY RequotedAtRest
<1> QED BY <1>1, <1>2, <1>3 DEF Quotes, CurrentLink, traderVars
=============================================================================

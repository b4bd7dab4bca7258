---------------------------- MODULE TradingProofs ----------------------------
(***************************************************************************)
(* Proofs about Trading for every value of its constants: type             *)
(* correctness and the invariant OrdersAccountedFor, from which the        *)
(* discipline of the trader's orders at the exchange follows.              *)
(***************************************************************************)
EXTENDS Trading, ExecutorProofs

-----------------------------------------------------------------------------
(* m is l after more sends: the queue is extended, nothing lost is found.   *)
Grows(l, m) ==
  /\ l.lost \subseteq m.lost
  /\ Len(l.queue) <= Len(m.queue)
  /\ \A k \in DOMAIN l.queue : m.queue[k] = l.queue[k]

(* An id whose cancel is queued or was dropped stays so while the trader sends. *)
LEMMA SettledStable ==
  ASSUME NEW l \in LinkType, NEW m \in LinkType, Grows(l, m), NEW id,
         NEW i \in Nat, NEW j \in Nat, NEW n \in Nat, j <= n, Settled(l, id, i, j)
  PROVE  Settled(m, id, i, n)
BY DEF LinkType, Grows, Settled

(* An insert in a well-typed queue names a side. *)
LEMMA InsertHasSide ==
  ASSUME NEW queue \in Seq(Message), NEW i \in DOMAIN queue, IsInsert(queue[i])
  PROVE  /\ queue[i].side \in Side /\ queue[i].id \in Nat /\ queue[i].price \in Int
         /\ i \in Nat /\ i \in 1 .. Len(queue) /\ i \in 0 .. Len(queue)
<1>1. queue[i] \in Message
  OBVIOUS
<1> QED BY <1>1 DEF Message, IsInsert, CANCEL_MESSAGE_TYPE, INSERT_MESSAGE_TYPE

(* Handing the link a cancel makes it grow, and settles the order. *)
LEMMA CancelOrderGrows ==
  ASSUME NEW l \in LinkType, NEW id \in Nat, NEW ok \in BOOLEAN
  PROVE  LET m == cancelOrder(l, id, ok)
         IN  /\ Grows(l, m)
             /\ \A i \in 0 .. Len(l.queue) : Settled(m, id, i, Len(m.queue) + 1)
             /\ \A j \in DOMAIN m.queue : IsInsert(m.queue[j]) => j \in DOMAIN l.queue
<1> DEFINE m == cancelOrder(l, id, ok)
<1>1. CASE ok
  <2>1. /\ m.lost = l.lost
        /\ m.queue = Append(l.queue, CancelMessage(id))
    BY <1>1 DEF cancelOrder, LinkType
  <2>2. /\ CancelMessage(id) \in Message
        /\ CancelMessage(id).type = CANCEL_MESSAGE_TYPE
        /\ CancelMessage(id).id = id
        /\ CANCEL_MESSAGE_TYPE # INSERT_MESSAGE_TYPE
    BY DEF CancelMessage, Message, CANCEL_MESSAGE_TYPE, INSERT_MESSAGE_TYPE
  <2>3. /\ Len(m.queue) = Len(l.queue) + 1
        /\ m.queue[Len(l.queue) + 1] = CancelMessage(id)
        /\ \A k \in DOMAIN l.queue : m.queue[k] = l.queue[k]
        /\ DOMAIN m.queue = 1 .. Len(l.queue) + 1
        /\ DOMAIN l.queue = 1 .. Len(l.queue)
        /\ Len(l.queue) \in Nat
    BY <2>1, <2>2 DEF LinkType
  <2> HIDE DEF m
  <2> QED BY <2>1, <2>2, <2>3 DEF Grows, Settled, IsInsert, IsCancelOf, m
<1>2. CASE ~ok
  BY <1>2 DEF cancelOrder, LinkType, Grows, Settled
<1> QED BY <1>1, <1>2

(* Handing the link an insert makes it grow by at most that insert. *)
LEMMA InsertOrderGrows ==
  ASSUME NEW l \in LinkType, NEW id, NEW side, NEW price, NEW volume, NEW ok \in BOOLEAN,
         InsertMessage(id, side, price, volume) \in Message
  PROVE  LET m == insertOrder(l, id, side, price, volume, ok)
         IN  /\ Grows(l, m)
             /\ m.lost = l.lost
             /\ \A j \in DOMAIN m.queue :
                  \/ j \in DOMAIN l.queue
                  \/ /\ j = Len(l.queue) + 1
                     /\ m.queue[j] = InsertMessage(id, side, price, volume)
<1> DEFINE m == insertOrder(l, id, side, price, volume, ok)
<1>1. CASE ok
  <2>1. /\ m.lost = l.lost
        /\ m.queue = Append(l.queue, InsertMessage(id, side, price, volume))
    BY <1>1 DEF insertOrder, LinkType
  <2> HIDE DEF m
  <2> QED BY <2>1 DEF LinkType, Grows, m
<1>2. CASE ~ok
  BY <1>2 DEF insertOrder, LinkType, Grows
<1> QED BY <1>1, <1>2

OrdersType(os) ==
  \A o \in os : o \in [id : Nat, side : Side, price : Int, volume : Nat \ {0}]

(* CancelStale keeps the invariant, and leaves the slot empty or holding    *)
(* an order at the price to quote.                                          *)
LEMMA CancelStaleInv ==
  ASSUME NEW os, OrdersType(os), NEW hi \in Nat, NEW q \in QuotesType,
         NEW side \in Side, NEW price \in Int, NEW ok \in BOOLEAN,
         QuoteInv(q, os, hi)
  PROVE  LET r == CancelStale(q, side, price, ok)
         IN  /\ QuoteInv(r, os, hi)
             /\ r.id[side] # 0 => r.price[side] = price
             /\ \A t \in Side \ {side} : r.id[t] = q.id[t] /\ r.price[t] = q.price[t]
<1> DEFINE r == CancelStale(q, side, price, ok)
<1>1. CASE ~(q.id[side] # 0 /\ price # q.price[side])
  BY <1>1 DEF CancelStale
<1>2. CASE q.id[side] # 0 /\ price # q.price[side]
  <2>1. /\ r.id = [q.id EXCEPT ![side] = 0]
        /\ r.price = q.price
        /\ r.order_id = q.order_id
        /\ r.link = cancelOrder(q.link, q.id[side], ok)
    BY <1>2 DEF CancelStale
  <2>2. r \in QuotesType /\ q.link \in LinkType /\ r.link \in LinkType /\ q.id[side] \in Nat
    BY CancelStaleType DEF QuotesType
  <2>3. /\ Grows(q.link, r.link)
        /\ \A i \in 0 .. Len(q.link.queue) :
             Settled(r.link, q.id[side], i, Len(r.link.queue) + 1)
        /\ \A j \in DOMAIN r.link.queue :
             IsInsert(r.link.queue[j]) => j \in DOMAIN q.link.queue
    BY <2>1, <2>2, CancelOrderGrows
  <2>4. \A t \in Side \ {side} : r.id[t] = q.id[t] /\ r.price[t] = q.price[t]
    BY <2>1, <2>2 DEF QuotesType
  <2>5. r.id[side] = 0
    BY <2>1, <2>2 DEF QuotesType
  <2> HIDE DEF r
  <2>6. /\ Len(q.link.queue) \in Nat /\ Len(r.link.queue) \in Nat
        /\ Len(q.link.queue) + 1 \in Nat /\ Len(r.link.queue) + 1 \in Nat
        /\ Len(q.link.queue) + 1 <= Len(r.link.queue) + 1
    BY <2>2, <2>3 DEF LinkType, Grows
  <2>7. ASSUME NEW o, o.side \in Side, NEW i \in 0 .. Len(q.link.queue),
               Holds(q, o) \/ Settled(q.link, o.id, i, Len(q.link.queue) + 1)
        PROVE  Holds(r, o) \/ Settled(r.link, o.id, i, Len(r.link.queue) + 1)
    <3> i \in Nat
      BY <2>2 DEF LinkType
    <3>1. CASE Settled(q.link, o.id, i, Len(q.link.queue) + 1)
      BY <3>1, <2>2, <2>3, <2>6, SettledStable
    <3>2. CASE Holds(q, o) /\ o.side # side
      BY <3>2, <2>4, <2>7 DEF Holds
    <3>3. CASE Holds(q, o) /\ o.side = side
      BY <3>3, <2>3 DEF Holds
    <3> QED BY <2>7, <3>1, <3>2, <3>3
  <2>8. LiveOrders(r, os, hi)
    <3> SUFFICES ASSUME NEW o \in os
                 PROVE  /\ 0 < o.id /\ o.id <= hi
                        /\ Holds(r, o) \/ Settled(r.link, o.id, 0, Len(r.link.queue) + 1)
                        /\ \A p \in os :
                             /\ o.id = p.id => o = p
                             /\ o.id < p.id /\ Book!Conflict(o, p) => o.id \in r.link.lost
                        /\ \A j \in DOMAIN r.link.queue :
                             IsInsert(r.link.queue[j]) /\ Book!Conflict(o, r.link.queue[j])
                               => Settled(r.link, o.id, 0, j)
      BY DEF LiveOrders
    <3>1. LiveOrders(q, os, hi)
      BY DEF QuoteInv
    <3>2. Holds(r, o) \/ Settled(r.link, o.id, 0, Len(r.link.queue) + 1)
      <4>1. o.side \in Side /\ 0 \in 0 .. Len(q.link.queue)
        BY <2>6 DEF OrdersType
      <4>2. Holds(q, o) \/ Settled(q.link, o.id, 0, Len(q.link.queue) + 1)
        BY <3>1 DEF LiveOrders
      <4> QED BY <4>1, <4>2, <2>7
    <3>3. ASSUME NEW j \in DOMAIN r.link.queue, IsInsert(r.link.queue[j]),
                 Book!Conflict(o, r.link.queue[j])
          PROVE  Settled(r.link, o.id, 0, j)
      <4>1. j \in DOMAIN q.link.queue /\ r.link.queue[j] = q.link.queue[j] /\ j \in Nat
        BY <3>3, <2>2, <2>3 DEF Grows, LinkType
      <4>2. Settled(q.link, o.id, 0, j)
        BY <3>1, <3>3, <4>1 DEF LiveOrders
      <4> QED BY <4>1, <4>2, <2>2, <2>3, SettledStable
    <3>4. q.link.lost \subseteq r.link.lost
      BY <2>3 DEF Grows
    <3> QED BY <3>1, <3>2, <3>3, <3>4 DEF LiveOrders
  <2>9. QueuedOrders(r, hi)
    <3> SUFFICES ASSUME NEW i \in DOMAIN r.link.queue, IsInsert(r.link.queue[i])
                 PROVE  /\ hi < r.link.queue[i].id /\ r.link.queue[i].id <= r.order_id
                        /\ \/ Holds(r, r.link.queue[i])
                           \/ Settled(r.link, r.link.queue[i].id, i, Len(r.link.queue) + 1)
                        /\ \A j \in DOMAIN r.link.queue :
                             i < j /\ IsInsert(r.link.queue[j]) =>
                               /\ r.link.queue[i].id < r.link.queue[j].id
                               /\ Book!Conflict(r.link.queue[i], r.link.queue[j])
                                    => Settled(r.link, r.link.queue[i].id, i, j)
      BY DEF QueuedOrders
    <3>1. QueuedOrders(q, hi)
      BY DEF QuoteInv
    <3>2. /\ i \in DOMAIN q.link.queue /\ r.link.queue[i] = q.link.queue[i]
          /\ i \in Nat /\ i \in 0 .. Len(q.link.queue)
          /\ q.link.queue[i].side \in Side
      <4>1. i \in DOMAIN q.link.queue /\ r.link.queue[i] = q.link.queue[i]
        BY <2>3 DEF Grows
      <4>2. q.link.queue \in Seq(Message)
        BY <2>2 DEF LinkType
      <4> QED BY <4>1, <4>2, InsertHasSide
    <3>3. \/ Holds(r, r.link.queue[i])
          \/ Settled(r.link, r.link.queue[i].id, i, Len(r.link.queue) + 1)
      BY <3>1, <3>2, <2>7 DEF QueuedOrders
    <3>4. ASSUME NEW j \in DOMAIN r.link.queue, i < j, IsInsert(r.link.queue[j])
          PROVE  /\ r.link.queue[i].id < r.link.queue[j].id
                 /\ Book!Conflict(r.link.queue[i], r.link.queue[j])
                      => Settled(r.link, r.link.queue[i].id, i, j)
      <4>1. j \in DOMAIN q.link.queue /\ r.link.queue[j] = q.link.queue[j] /\ j \in Nat
        BY <3>4, <2>2, <2>3 DEF Grows, LinkType
      <4>2. /\ q.link.queue[i].id < q.link.queue[j].id
            /\ Book!Conflict(q.link.queue[i], q.link.queue[j])
                 => Settled(q.link, q.link.queue[i].id, i, j)
        BY <3>1, <3>2, <3>4, <4>1 DEF QueuedOrders
      <4> QED BY <3>2, <4>1, <4>2, <2>2, <2>3, SettledStable
    <3> QED BY <2>1, <3>1, <3>2, <3>3, <3>4 DEF QueuedOrders
  <2> QED BY <2>1, <2>4, <2>5, <2>8, <2>9 DEF QuoteInv, r
<1> QED BY <1>1, <1>2

(* PlaceMissing keeps the invariant when the new order does not cross the   *)
(* one the other slot holds.                                                *)
LEMMA PlaceMissingInv ==
  ASSUME NEW os, OrdersType(os), NEW hi \in Nat, NEW q \in QuotesType,
         NEW side \in Side, NEW price \in Int, NEW ok \in BOOLEAN,
         QuoteInv(q, os, hi),
         \A t \in Side \ {side} : q.id[t] # 0 =>
           IF side = BUY THEN price < q.price[t] ELSE q.price[t] < price
  PROVE  LET r == PlaceMissing(q, side, price, ok)
         IN  /\ QuoteInv(r, os, hi)
             /\ r.price[side] = price \/ (r.id[side] = q.id[side]
                                          /\ r.price[side] = q.price[side])
             /\ \A t \in Side \ {side} : r.id[t] = q.id[t] /\ r.price[t] = q.price[t]
<1> DEFINE r == PlaceMissing(q, side, price, ok)
           n == q.order_id + 1
           new == InsertMessage(n, side, price, LotSize)
           end == Len(q.link.queue) + 1
<1>1. CASE ~(q.id[side] = 0 /\ HasRoom(side))
  BY <1>1 DEF PlaceMissing
<1>2. CASE q.id[side] = 0 /\ HasRoom(side)
  <2>1. /\ r.id = [q.id EXCEPT ![side] = n]
        /\ r.price = [q.price EXCEPT ![side] = price]
        /\ r.order_id = n
        /\ r.link = insertOrder(q.link, n, side, price, LotSize, ok)
    BY <1>2 DEF PlaceMissing
  <2>2. /\ r \in QuotesType /\ q.link \in LinkType /\ r.link \in LinkType
        /\ q.order_id \in Nat /\ n \in Nat
    BY PlaceMissingType DEF QuotesType
  <2> HIDE DEF r
  <2>3. /\ Grows(q.link, r.link)
        /\ r.link.lost = q.link.lost
        /\ \A j \in DOMAIN r.link.queue :
             j \in DOMAIN q.link.queue \/ (j = end /\ r.link.queue[j] = new)
    <3>1. InsertMessage(n, side, price, LotSize) \in Message
      BY <2>2, ExecutorAssumption DEF InsertMessage, Message
    <3> HIDE DEF n
    <3>2. LET l == insertOrder(q.link, n, side, price, LotSize, ok)
          IN  /\ Grows(q.link, l)
              /\ l.lost = q.link.lost
              /\ \A j \in DOMAIN l.queue :
                   \/ j \in DOMAIN q.link.queue
                   \/ j = end /\ l.queue[j] = InsertMessage(n, side, price, LotSize)
      BY <2>2, <3>1, InsertOrderGrows
    <3> QED BY <2>1, <3>2
  <2>4. \A t \in Side \ {side} : r.id[t] = q.id[t] /\ r.price[t] = q.price[t]
    BY <2>1, <2>2 DEF QuotesType
  <2>5. r.id[side] = n /\ r.price[side] = price
    BY <2>1, <2>2 DEF QuotesType
  <2>6. new.id = n /\ new.side = side /\ new.price = price
    BY DEF InsertMessage
  <2> HIDE DEF new
  <2>7. /\ Len(q.link.queue) \in Nat /\ end \in Nat /\ Len(r.link.queue) + 1 \in Nat
        /\ end <= Len(r.link.queue) + 1 /\ Len(r.link.queue) \in Nat
        /\ DOMAIN q.link.queue = 1 .. Len(q.link.queue)
        /\ \A k \in DOMAIN q.link.queue :
             r.link.queue[k] = q.link.queue[k] /\ k \in Nat /\ k < end
    BY <2>2, <2>3 DEF LinkType, Grows
  <2>8. ASSUME NEW o, o.side \in Side, o.id \in Nat \ {0}, o.price \in Int,
               NEW i \in 0 .. Len(q.link.queue),
               Holds(q, o) \/ Settled(q.link, o.id, i, end)
        PROVE  /\ Holds(r, o) \/ Settled(r.link, o.id, i, Len(r.link.queue) + 1)
               /\ Book!Conflict(o, new) => Settled(r.link, o.id, i, end)
    <3> i \in Nat
      BY <2>7
    <3>1. CASE Settled(q.link, o.id, i, end)
      <4>1. Settled(r.link, o.id, i, end)
        BY <3>1, <2>2, <2>3, <2>7, SettledStable
      <4>2. Settled(r.link, o.id, i, Len(r.link.queue) + 1)
        BY <3>1, <2>2, <2>3, <2>7, SettledStable
      <4> QED BY <4>1, <4>2
    <3>2. CASE Holds(q, o)
      <4>1. o.side \in Side \ {side}
        BY <3>2, <2>8, <1>2 DEF Holds
      <4>2. Holds(r, o)
        BY <4>1, <3>2, <2>4 DEF Holds
      <4>3. IF side = BUY THEN price < o.price ELSE o.price < price
        BY <4>1, <3>2, <2>8 DEF Holds
      <4>4. ~Book!Conflict(o, new)
        BY <4>1, <4>3, <2>6, <2>8 DEF Book!Conflict, Book!Crosses, Side, BUY, SELL
      <4> QED BY <4>2, <4>4
    <3> QED BY <2>8, <3>1, <3>2
  <2>9. LiveOrders(r, os, hi)
    <3> SUFFICES ASSUME NEW o \in os
                 PROVE  /\ 0 < o.id /\ o.id <= hi
                        /\ Holds(r, o) \/ Settled(r.link, o.id, 0, Len(r.link.queue) + 1)
                        /\ \A p \in os :
                             /\ o.id = p.id => o = p
                             /\ o.id < p.id /\ Book!Conflict(o, p) => o.id \in r.link.lost
                        /\ \A j \in DOMAIN r.link.queue :
                             IsInsert(r.link.queue[j]) /\ Book!Conflict(o, r.link.queue[j])
                               => Settled(r.link, o.id, 0, j)
      BY DEF LiveOrders
    <3>1. LiveOrders(q, os, hi)
      BY DEF QuoteInv
    <3>2. o.side \in Side /\ o.id \in Nat /\ 0 < o.id /\ o.price \in Int
      BY <3>1 DEF OrdersType, LiveOrders
    <3>3. Holds(q, o) \/ Settled(q.link, o.id, 0, end)
      BY <3>1 DEF LiveOrders
    <3>4. 0 \in 0 .. Len(q.link.queue) /\ o.id \in Nat \ {0}
      BY <2>7, <3>2
    <3>5. /\ Holds(r, o) \/ Settled(r.link, o.id, 0, Len(r.link.queue) + 1)
          /\ Book!Conflict(o, new) => Settled(r.link, o.id, 0, end)
      BY <2>8, <3>2, <3>3, <3>4
    <3>6. ASSUME NEW j \in DOMAIN r.link.queue, IsInsert(r.link.queue[j]),
                 Book!Conflict(o, r.link.queue[j])
          PROVE  Settled(r.link, o.id, 0, j)
      <4>1. CASE j \in DOMAIN q.link.queue
        <5>1. Settled(q.link, o.id, 0, j)
          BY <3>1, <3>6, <4>1, <2>7 DEF LiveOrders
        <5> QED BY <5>1, <4>1, <2>2, <2>3, <2>7, SettledStable
      <4>2. CASE j = end /\ r.link.queue[j] = new
        BY <4>2, <3>5, <3>6
      <4> QED BY <4>1, <4>2, <2>3
    <3> QED BY <3>1, <3>5, <3>6, <2>3 DEF LiveOrders
  <2>10. QueuedOrders(r, hi)
    <3> SUFFICES ASSUME NEW i \in DOMAIN r.link.queue, IsInsert(r.link.queue[i])
                 PROVE  /\ hi < r.link.queue[i].id /\ r.link.queue[i].id <= r.order_id
                        /\ \/ Holds(r, r.link.queue[i])
                           \/ Settled(r.link, r.link.queue[i].id, i, Len(r.link.queue) + 1)
                        /\ \A j \in DOMAIN r.link.queue :
                             i < j /\ IsInsert(r.link.queue[j]) =>
                               /\ r.link.queue[i].id < r.link.queue[j].id
                               /\ Book!Conflict(r.link.queue[i], r.link.queue[j])
                                    => Settled(r.link, r.link.queue[i].id, i, j)
      BY DEF QueuedOrders
    <3>1. QueuedOrders(q, hi) /\ hi <= q.order_id
      BY DEF QuoteInv
    <3>2. CASE i = end /\ r.link.queue[i] = new
      <4>1. ASSUME NEW j \in DOMAIN r.link.queue
            PROVE  ~(i < j)
        <5>1. end \in Nat /\ i = end
          BY <3>2, <2>7
        <5>2. CASE j \in DOMAIN q.link.queue
          <6>1. j \in Nat /\ j < end
            BY <5>2, <2>7
          <6> HIDE DEF end
          <6> QED BY <6>1, <5>1
        <5>3. CASE j = end
          <6> HIDE DEF end
          <6> QED BY <5>1, <5>3
        <5> QED BY <5>2, <5>3, <2>3
      <4>2. Holds(r, new)
        BY <2>5, <2>6 DEF Holds
      <4> QED BY <3>1, <3>2, <4>1, <4>2, <2>1, <2>2, <2>6
    <3>3. CASE i \in DOMAIN q.link.queue
      <4> DEFINE m == q.link.queue[i]
      <4>1. /\ r.link.queue[i] = m /\ IsInsert(m)
            /\ m.side \in Side /\ m.id \in Nat /\ m.price \in Int
            /\ i \in Nat /\ i \in 0 .. Len(q.link.queue)
        BY <3>3, <2>2, <2>7, InsertHasSide DEF LinkType
      <4> HIDE DEF m
      <4>2. /\ hi < m.id /\ m.id <= q.order_id
            /\ Holds(q, m) \/ Settled(q.link, m.id, i, end)
        BY <3>1, <3>3, <4>1 DEF QueuedOrders, m
      <4>3. m.id \in Nat \ {0}
        BY <4>1, <4>2
      <4>4. /\ Holds(r, m) \/ Settled(r.link, m.id, i, Len(r.link.queue) + 1)
            /\ Book!Conflict(m, new) => Settled(r.link, m.id, i, end)
        BY <2>8, <4>1, <4>2, <4>3
      <4>5. ASSUME NEW j \in DOMAIN r.link.queue, i < j, IsInsert(r.link.queue[j])
            PROVE  /\ m.id < r.link.queue[j].id
                   /\ Book!Conflict(m, r.link.queue[j]) => Settled(r.link, m.id, i, j)
        <5>1. CASE j \in DOMAIN q.link.queue
          <6>1. /\ m.id < q.link.queue[j].id
                /\ Book!Conflict(m, q.link.queue[j]) => Settled(q.link, m.id, i, j)
            BY <3>1, <3>3, <4>1, <4>5, <5>1, <2>7 DEF QueuedOrders, m
          <6> QED BY <6>1, <5>1, <4>1, <2>2, <2>3, <2>7, SettledStable
        <5>2. CASE j = end /\ r.link.queue[j] = new
          BY <5>2, <4>2, <4>1, <4>4, <2>2, <2>6
        <5> QED BY <5>1, <5>2, <2>3
      <4> QED BY <4>1, <4>2, <4>4, <4>5, <2>1, <2>2
    <3> QED BY <3>2, <3>3, <2>3
  <2> QED BY <2>1, <2>2, <2>4, <2>5, <2>9, <2>10 DEF QuoteInv, r
<1> QED BY <1>1, <1>2

(* executeTrades as a whole: the four statements in the code's order. *)
LEMMA RequotedInv ==
  ASSUME Quotes \in QuotesType, OrdersType(orders), highest_id \in Nat,
         OrdersAccountedFor, NEW b \in Int, NEW a \in Int, b < a, NEW ok \in SendOutcomes
  PROVE  /\ Requoted(b, a, ok) \in QuotesType
         /\ QuoteInv(Requoted(b, a, ok), orders, highest_id)
<1> DEFINE q1 == CancelStale(Quotes, BUY, b, ok[BUY].cancel)
           q2 == CancelStale(q1, SELL, a, ok[SELL].cancel)
           q3 == PlaceMissing(q2, BUY, b, ok[BUY].insert)
           q4 == PlaceMissing(q3, SELL, a, ok[SELL].insert)
<1>1. /\ ok[BUY].cancel \in BOOLEAN /\ ok[SELL].cancel \in BOOLEAN
      /\ ok[BUY].insert \in BOOLEAN /\ ok[SELL].insert \in BOOLEAN
  BY SendOutcomesType
<1>2. BUY \in Side /\ SELL \in Side /\ BUY # SELL /\ Side = {SELL, BUY}
  BY DEF Side, BUY, SELL
<1>3. /\ q1 \in QuotesType /\ QuoteInv(q1, orders, highest_id)
      /\ q1.id[BUY] # 0 => q1.price[BUY] = b
  BY <1>1, <1>2, CancelStaleType, CancelStaleInv DEF OrdersAccountedFor
<1> HIDE DEF q1
<1>4. /\ q2 \in QuotesType /\ QuoteInv(q2, orders, highest_id)
      /\ q2.id[BUY] # 0 => q2.price[BUY] = b
      /\ q2.id[SELL] # 0 => q2.price[SELL] = a
  BY <1>1, <1>2, <1>3, CancelStaleType, CancelStaleInv
<1> HIDE DEF q2
<1>5. /\ q3 \in QuotesType /\ QuoteInv(q3, orders, highest_id)
      /\ q3.id[BUY] # 0 => q3.price[BUY] = b
  <2>1. \A t \in Side \ {BUY} : q2.id[t] # 0 =>
           IF BUY = BUY THEN b < q2.price[t] ELSE q2.price[t] < b
    BY <1>2, <1>4
  <2> QED BY <2>1, <1>1, <1>2, <1>4, PlaceMissingType, PlaceMissingInv
<1> HIDE DEF q3
<1>6. q4 \in QuotesType /\ QuoteInv(q4, orders, highest_id)
  <2>1. \A t \in Side \ {SELL} : q3.id[t] # 0 =>
           IF SELL = BUY THEN a < q3.price[t] ELSE q3.price[t] < a
    BY <1>2, <1>5
  <2> QED BY <2>1, <1>1, <1>2, <1>5, PlaceMissingType, PlaceMissingInv
<1> QED BY <1>6 DEF Requoted, q1, q2, q3

-----------------------------------------------------------------------------
(* The exchange reads one command: places in the queue move up by one.      *)

LEMMA SettledTail ==
  ASSUME NEW l \in LinkType, NEW m \in LinkType, l.queue # << >>,
         m.queue = Tail(l.queue), m.lost = l.lost,
         NEW id, NEW i \in Nat, NEW j \in Nat
  PROVE  /\ Settled(l, id, i + 1, j + 1) => Settled(m, id, i, j)
         /\ Settled(l, id, 0, j + 1) /\ ~IsCancelOf(Head(l.queue), id)
              => Settled(m, id, 0, j)
<1>1. /\ l.queue \in Seq(Message) /\ l.queue[1] = Head(l.queue)
      /\ DOMAIN l.queue = 1 .. Len(l.queue) /\ Len(l.queue) \in Nat
      /\ DOMAIN m.queue = 1 .. Len(l.queue) - 1
      /\ \A k \in DOMAIN m.queue : m.queue[k] = l.queue[k + 1]
  BY DEF LinkType
<1>2. ASSUME NEW k \in DOMAIN l.queue, k # 1
      PROVE  k - 1 \in DOMAIN m.queue /\ m.queue[k - 1] = l.queue[k]
  <2>1. k - 1 \in DOMAIN m.queue /\ (k - 1) + 1 = k
    BY <1>1, <1>2
  <2> QED BY <2>1, <1>1
<1>3. ASSUME Settled(l, id, i + 1, j + 1), id \notin l.lost
      PROVE  Settled(m, id, i, j)
  <2>1. PICK k \in DOMAIN l.queue : i + 1 < k /\ k < j + 1 /\ IsCancelOf(l.queue[k], id)
    BY <1>3 DEF Settled
  <2>2. k # 1 /\ i < k - 1 /\ k - 1 < j
    BY <2>1, <1>1
  <2> QED BY <2>1, <2>2, <1>2 DEF Settled
<1>4. ASSUME Settled(l, id, 0, j + 1), id \notin l.lost, ~IsCancelOf(Head(l.queue), id)
      PROVE  Settled(m, id, 0, j)
  <2>1. PICK k \in DOMAIN l.queue : 0 < k /\ k < j + 1 /\ IsCancelOf(l.queue[k], id)
    BY <1>4 DEF Settled
  <2>2. k # 1 /\ 0 < k - 1 /\ k - 1 < j
    BY <2>1, <1>1, <1>4
  <2> QED BY <2>1, <2>2, <1>2 DEF Settled
<1> QED BY <1>3, <1>4 DEF Settled

(* The orders still in the queue keep their part of the invariant. *)
LEMMA QueuedTail ==
  ASSUME NEW q \in QuotesType, NEW r \in QuotesType, NEW hi \in Nat, NEW new \in Nat,
         r.id = q.id, r.price = q.price, r.order_id = q.order_id,
         q.link.queue # << >>, r.link.queue = Tail(q.link.queue),
         r.link.lost = q.link.lost, QueuedOrders(q, hi),
         \A j \in DOMAIN q.link.queue :
           j # 1 /\ IsInsert(q.link.queue[j]) => new < q.link.queue[j].id
  PROVE  QueuedOrders(r, new)
<1> DEFINE rq == r.link.queue
           qq == q.link.queue
<1>1. q.link \in LinkType /\ r.link \in LinkType /\ qq \in Seq(Message)
  BY DEF QuotesType, LinkType
<1>2. /\ Len(rq) = Len(qq) - 1 /\ Len(qq) \in Nat /\ Len(rq) \in Nat
      /\ DOMAIN rq = 1 .. Len(rq) /\ DOMAIN qq = 1 .. Len(qq)
      /\ \A k \in DOMAIN rq : rq[k] = qq[k + 1] /\ k + 1 \in DOMAIN qq /\ k + 1 # 1 /\ k \in Nat
  BY <1>1
<1>3. SUFFICES ASSUME NEW i \in DOMAIN rq, IsInsert(rq[i])
               PROVE  /\ new < rq[i].id /\ rq[i].id <= r.order_id
                      /\ Holds(r, rq[i]) \/ Settled(r.link, rq[i].id, i, Len(rq) + 1)
                      /\ \A j \in DOMAIN rq :
                           i < j /\ IsInsert(rq[j]) =>
                             /\ rq[i].id < rq[j].id
                             /\ Book!Conflict(rq[i], rq[j]) => Settled(r.link, rq[i].id, i, j)
  BY DEF QueuedOrders
<1>4. rq[i] = qq[i + 1] /\ i + 1 \in DOMAIN qq /\ i \in Nat /\ i + 1 \in Nat /\ i + 1 # 0
  BY <1>2
<1>5. ASSUME NEW j \in Nat, Settled(q.link, rq[i].id, i + 1, j + 1)
      PROVE  Settled(r.link, rq[i].id, i, j)
  BY <1>1, <1>4, <1>5, SettledTail
<1>6. Holds(r, rq[i]) \/ Settled(r.link, rq[i].id, i, Len(rq) + 1)
  <2>1. Holds(q, qq[i + 1]) \/ Settled(q.link, qq[i + 1].id, i + 1, Len(qq) + 1)
    BY <1>3, <1>4 DEF QueuedOrders
  <2>2. Holds(q, qq[i + 1]) => Holds(r, rq[i])
    BY <1>4 DEF Holds
  <2>3. Len(qq) + 1 = (Len(rq) + 1) + 1 /\ Len(rq) + 1 \in Nat
    BY <1>2
  <2> QED BY <2>1, <2>2, <2>3, <1>4, <1>5
<1>7. ASSUME NEW j \in DOMAIN rq, i < j, IsInsert(rq[j])
      PROVE  /\ rq[i].id < rq[j].id
             /\ Book!Conflict(rq[i], rq[j]) => Settled(r.link, rq[i].id, i, j)
  <2>1. rq[j] = qq[j + 1] /\ j + 1 \in DOMAIN qq /\ i + 1 < j + 1 /\ j \in Nat
    BY <1>2, <1>7
  <2>2. /\ qq[i + 1].id < qq[j + 1].id
        /\ Book!Conflict(qq[i + 1], qq[j + 1]) => Settled(q.link, qq[i + 1].id, i + 1, j + 1)
    BY <1>3, <1>4, <1>7, <2>1 DEF QueuedOrders
  <2> QED BY <1>4, <1>5, <2>1, <2>2
<1>8. new < rq[i].id /\ rq[i].id <= r.order_id
  BY <1>2, <1>3, <1>4 DEF QueuedOrders
<1> QED BY <1>6, <1>7, <1>8

(* The orders that stay live keep theirs, unless the command was their cancel. *)
LEMMA LiveTail ==
  ASSUME NEW q \in QuotesType, NEW r \in QuotesType, NEW hi \in Nat,
         NEW os, NEW ns, ns \subseteq os,
         r.id = q.id, r.price = q.price, q.link.queue # << >>,
         r.link.queue = Tail(q.link.queue), r.link.lost = q.link.lost,
         \A o \in ns : ~IsCancelOf(Head(q.link.queue), o.id), LiveOrders(q, os, hi)
  PROVE  LiveOrders(r, ns, hi)
<1> DEFINE rq == r.link.queue
           qq == q.link.queue
<1>1. q.link \in LinkType /\ r.link \in LinkType /\ qq \in Seq(Message)
  BY DEF QuotesType, LinkType
<1>2. /\ Len(qq) = Len(rq) + 1 /\ Len(rq) + 1 \in Nat
      /\ \A k \in DOMAIN rq : rq[k] = qq[k + 1] /\ k + 1 \in DOMAIN qq /\ k \in Nat
  BY <1>1
<1>3. SUFFICES ASSUME NEW o \in ns
               PROVE  /\ Holds(r, o) \/ Settled(r.link, o.id, 0, Len(rq) + 1)
                      /\ \A j \in DOMAIN rq :
                           IsInsert(rq[j]) /\ Book!Conflict(o, rq[j])
                             => Settled(r.link, o.id, 0, j)
  BY DEF LiveOrders
<1>4. ASSUME NEW j \in Nat, Settled(q.link, o.id, 0, j + 1)
      PROVE  Settled(r.link, o.id, 0, j)
  BY <1>1, <1>4, SettledTail
<1>5. Holds(r, o) \/ Settled(r.link, o.id, 0, Len(rq) + 1)
  <2>1. Holds(q, o) \/ Settled(q.link, o.id, 0, Len(qq) + 1)
    BY DEF LiveOrders
  <2>2. Holds(q, o) => Holds(r, o)
    BY DEF Holds
  <2> QED BY <1>2, <1>4, <2>1, <2>2
<1>6. ASSUME NEW j \in DOMAIN rq, IsInsert(rq[j]), Book!Conflict(o, rq[j])
      PROVE  Settled(r.link, o.id, 0, j)
  <2>1. Settled(q.link, o.id, 0, j + 1)
    BY <1>2, <1>6 DEF LiveOrders
  <2> QED BY <1>2, <1>4, <2>1
<1> QED BY <1>5, <1>6

(* The invariant sees an order's id, side and price only: a partial fill,   *)
(* or an order leaving, keeps it.                                           *)
LEMMA LiveReduced ==
  ASSUME NEW q, NEW os, NEW ns, NEW hi, LiveOrders(q, os, hi),
         \A o, p \in ns : o.id = p.id => o = p,
         \A o \in ns : \E p \in os : p.id = o.id /\ p.side = o.side /\ p.price = o.price
  PROVE  LiveOrders(q, ns, hi)
BY DEF LiveOrders, Holds, Book!Conflict, Book!Crosses

(* An insert that reaches the exchange: the new order is live.  What it     *)
(* conflicts with was settled before it, hence has left or was dropped.     *)
LEMMA LiveInserted ==
  ASSUME NEW q \in QuotesType, NEW r \in QuotesType, NEW hi \in Nat,
         NEW os, OrdersType(os), NEW o,
         r.id = q.id, r.price = q.price, q.link.queue # << >>,
         r.link.queue = Tail(q.link.queue), r.link.lost = q.link.lost,
         IsInsert(Head(q.link.queue)), o = AsOrder(Head(q.link.queue)),
         LiveOrders(q, os, hi), QueuedOrders(q, hi)
  PROVE  LiveOrders(r, os, o.id) /\ LiveOrders(r, os \cup {o}, o.id)
<1> DEFINE rq == r.link.queue
           qq == q.link.queue
           m  == Head(q.link.queue)
<1>1. q.link \in LinkType /\ r.link \in LinkType /\ qq \in Seq(Message)
  BY DEF QuotesType, LinkType
<1>2. /\ Len(qq) = Len(rq) + 1 /\ Len(rq) + 1 \in Nat
      /\ qq[1] = m /\ 1 \in DOMAIN qq
      /\ \A k \in DOMAIN rq : rq[k] = qq[k + 1] /\ k + 1 \in DOMAIN qq /\ k \in Nat /\ 1 < k + 1
  BY <1>1
<1>3. m.id \in Nat
  BY <1>1, <1>2, InsertHasSide
<1>4. o.id = m.id /\ o.side = m.side /\ o.price = m.price
  BY DEF AsOrder
<1>5. /\ hi < m.id
      /\ Holds(q, m) \/ Settled(q.link, m.id, 1, Len(qq) + 1)
      /\ \A j \in DOMAIN qq : 1 < j /\ IsInsert(qq[j]) /\ Book!Conflict(m, qq[j])
           => Settled(q.link, m.id, 1, j)
  BY <1>2 DEF QueuedOrders
<1>6. ASSUME NEW j \in Nat, Settled(q.link, m.id, 1, j + 1)
      PROVE  Settled(r.link, o.id, 0, j)
  <2>1. 0 \in Nat /\ 0 + 1 = 1
    OBVIOUS
  <2>2. Settled(q.link, m.id, 0 + 1, j + 1)
    BY <1>6
  <2> QED BY <1>1, <1>4, <2>1, <2>2, SettledTail
<1>7. LiveOrders(r, os, hi)
  <2>1. \A p \in os : ~IsCancelOf(m, p.id)
    BY DEF IsInsert, IsCancelOf, INSERT_MESSAGE_TYPE, CANCEL_MESSAGE_TYPE
  <2> QED BY <2>1, LiveTail
<1>8. LiveOrders(r, os, o.id)
  <2>1. \A p \in os : p.id <= hi => p.id <= o.id
    BY <1>3, <1>4, <1>5 DEF OrdersType
  <2> QED BY <1>7, <2>1 DEF LiveOrders
<1>9. Holds(r, o) \/ Settled(r.link, o.id, 0, Len(rq) + 1)
  <2>1. Holds(q, m) => Holds(r, o)
    BY <1>4 DEF Holds
  <2> QED BY <1>2, <1>5, <1>6, <2>1
<1>10. ASSUME NEW j \in DOMAIN rq, IsInsert(rq[j]), Book!Conflict(o, rq[j])
       PROVE  Settled(r.link, o.id, 0, j)
  <2>1. Book!Conflict(m, qq[j + 1])
    BY <1>2, <1>4, <1>10 DEF Book!Conflict, Book!Crosses
  <2>2. Settled(q.link, m.id, 1, j + 1)
    BY <1>2, <1>5, <1>10, <2>1
  <2> QED BY <1>2, <1>6, <2>2
<1>11. ASSUME NEW p \in os
       PROVE  /\ p.id \in Nat /\ p.id < o.id
              /\ Book!Conflict(p, o) => p.id \in r.link.lost
  <2>1. p.id \in Nat /\ p.id < o.id
    BY <1>3, <1>4, <1>5 DEF OrdersType, LiveOrders
  <2>2. ASSUME Book!Conflict(p, o)
        PROVE  p.id \in r.link.lost
    <3>1. Book!Conflict(p, m)
      BY <1>4, <2>2 DEF Book!Conflict, Book!Crosses
    <3>2. Settled(q.link, p.id, 0, 1)
      BY <1>2, <3>1 DEF LiveOrders
    <3>3. \A k \in DOMAIN qq : ~(0 < k /\ k < 1)
      BY <1>1
    <3> QED BY <3>2, <3>3 DEF Settled
  <2> QED BY <2>1, <2>2
<1>12. 0 < o.id /\ o.id \in Nat
  BY <1>3, <1>4, <1>5
<1> HIDE DEF rq, qq, m
<1>13. LiveOrders(r, os \cup {o}, o.id)
  <2> SUFFICES ASSUME NEW x \in os \cup {o}
               PROVE  /\ 0 < x.id /\ x.id <= o.id
                      /\ Holds(r, x) \/ Settled(r.link, x.id, 0, Len(r.link.queue) + 1)
                      /\ \A p \in os \cup {o} :
                           /\ x.id = p.id => x = p
                           /\ x.id < p.id /\ Book!Conflict(x, p) => x.id \in r.link.lost
                      /\ \A j \in DOMAIN r.link.queue :
                           IsInsert(r.link.queue[j]) /\ Book!Conflict(x, r.link.queue[j])
                             => Settled(r.link, x.id, 0, j)
    BY DEF LiveOrders
  <2>1. CASE x \in os
    BY <2>1, <1>8, <1>11, <1>12 DEF LiveOrders
  <2>2. CASE x = o
    BY <2>2, <1>9, <1>10, <1>11, <1>12 DEF rq
  <2> QED BY <2>1, <2>2
<1> QED BY <1>8, <1>13

-----------------------------------------------------------------------------
(* The theorems.                                                            *)

(* What TypeOK says of the trader's slots and of the link. *)
LEMMA TypeOKQuotes ==
  ASSUME TypeOK
  PROVE  Quotes \in QuotesType /\ OrdersType(orders) /\ highest_id \in Nat
BY TraderTypeQuotes DEF TypeOK, ExchangeTypeOK, OrdersType

(* The books of the information channel are such that the price is an int. *)
LEMMA BookStep ==
  ASSUME TypeOK, NEW book \in Books, onOrderBookUpdate(book)
  PROVE  /\ theo_price_' \in Int
         /\ \E ok \in SendOutcomes :
              /\ Requoted(theo_price_' - Edge, theo_price_' + Edge, ok) = Quotes'
              /\ order_id_' <= MaxOrderId
         /\ position_' = position_
         /\ TraderTypeOK'
<1>1. PricesAreInts(book) /\ TraderTypeOK
  BY BooksAssumption DEF PricesAreInts, TypeOK
<1> QED BY <1>1, BookHandled, BookHandledType

(* What the exchange sends is well-typed, and so is any part of it. *)
ExecMessage == [type : {ORDER_STATUS_UPDATE_TYPE}]
               \cup [type : {POSITION_UPDATE_TYPE}, etf_position : Int]

(* The exchange's three actions keep its own variables well-typed. *)
LEMMA ExchangeTypeStep ==
  ASSUME TypeOK, ExchangeNext
  PROVE  ExchangeTypeOK' /\ LinkTypeOK' /\ lost' = lost
<1> USE DEF TypeOK, TraderTypeOK, ExecutorTypeOK, LinkTypeOK
<1>1. CASE ReceiveInsert
  <2>1. Head(toExchange) \in Message /\ Tail(toExchange) \in Seq(Message)
    BY <1>1 DEF ReceiveInsert
  <2>2. IsInsert(Head(toExchange))
    BY <1>1 DEF ReceiveInsert
  <2>3. /\ Head(toExchange).id \in Nat /\ Head(toExchange).side \in Side
        /\ Head(toExchange).price \in Int /\ Head(toExchange).volume \in Nat \ {0}
    BY <2>1, <2>2 DEF Message, IsInsert, CANCEL_MESSAGE_TYPE, INSERT_MESSAGE_TYPE
  <2> QED BY <1>1, <2>1, <2>3 DEF ReceiveInsert, ExchangeTypeOK, AsOrder
<1>2. CASE ReceiveCancel
  BY <1>2 DEF ReceiveCancel, ExchangeTypeOK
<1>3. ASSUME NEW o \in orders, NEW volume \in 1 .. o.volume, Fill(o, volume)
      PROVE  ExchangeTypeOK' /\ LinkTypeOK' /\ lost' = lost
  <2> DEFINE pos == IF o.side = BUY THEN etf_position + volume ELSE etf_position - volume
  <2>1. o \in [id : Nat, side : Side, price : Int, volume : Nat \ {0}]
    BY DEF ExchangeTypeOK
  <2>2. volume \in Nat /\ volume <= o.volume /\ etf_position \in Int
    BY <2>1 DEF ExchangeTypeOK
  <2>3. pos \in Int
    BY <2>2
  <2>4. volume # o.volume =>
          Reduced(o, volume) \in [id : Nat, side : Side, price : Int, volume : Nat \ {0}]
    <3>1. volume # o.volume => o.volume - volume \in Nat \ {0}
      BY <2>1, <2>2
    <3> QED BY <2>1, <3>1 DEF Reduced
  <2>5. StatusUpdate \in ExecMessage /\ PositionUpdate(pos) \in ExecMessage
    BY <2>3 DEF StatusUpdate, PositionUpdate, ExecMessage
  <2> HIDE DEF pos
  <2>6. fromExchange \in Seq(ExecMessage)
    BY DEF ExchangeTypeOK, ExecMessage
  <2>7. fromExchange' \in Seq(ExecMessage)
    <3>1. /\ fromExchange \o <<StatusUpdate, PositionUpdate(pos)>> \in Seq(ExecMessage)
          /\ fromExchange \o <<PositionUpdate(pos), StatusUpdate>> \in Seq(ExecMessage)
      BY <2>5, <2>6
    <3> QED BY <1>3, <3>1 DEF Fill, pos
  <2>8. \A p \in orders' : p \in [id : Nat, side : Side, price : Int, volume : Nat \ {0}]
    BY <1>3, <2>4 DEF Fill, ExchangeTypeOK
  <2>9. /\ etf_position' = pos
        /\ UNCHANGED <<toExchange, lost, highest_id>>
    BY <1>3 DEF Fill, pos
  <2> QED BY <2>3, <2>7, <2>8, <2>9 DEF ExchangeTypeOK, ExecMessage
<1> QED BY <1>1, <1>2, <1>3 DEF ExchangeNext

(* What is left unread is well-typed. *)
LEMMA ConsumeType ==
  ASSUME TypeOK, NEW n \in Nat, Consume(n)
  PROVE  ExchangeTypeOK'
<1>1. fromExchange \in Seq(ExecMessage)
  BY DEF TypeOK, ExchangeTypeOK, ExecMessage
<1>2. fromExchange' \in Seq(ExecMessage)
  BY <1>1 DEF Consume
<1> QED BY <1>2 DEF Consume, ExecMessage, TypeOK, ExchangeTypeOK

(* Every step of the system keeps the types. *)
LEMMA TypeStep == TypeOK /\ [Next]_vars => TypeOK'
<1> SUFFICES ASSUME TypeOK, [Next]_vars
             PROVE  TypeOK'
  OBVIOUS
<1>1. ASSUME NEW book \in Books, ReadInfo(book)
      PROVE  TypeOK'
  BY <1>1, BookStep DEF ReadInfo, exchangeVars, TypeOK, ExchangeTypeOK
<1>2. CASE ReadExec
  <2>1. Head(fromExchange) \in ExecMessage
    BY <1>2 DEF ReadExec, TypeOK, ExchangeTypeOK, ExecMessage
  <2>2. TraderTypeOK'
    BY <1>2, <2>1, PositionType, StatusType
       DEF ReadExec, TypeOK, ExecMessage, ORDER_STATUS_UPDATE_TYPE, POSITION_UPDATE_TYPE
  <2>3. ExchangeTypeOK'
    <3>1. PICK n \in 1 .. MaxCoalesce : Consume(n)
      BY <1>2 DEF ReadExec
    <3>2. n \in Nat
      BY CoalesceAssumption
    <3> QED BY <3>1, <3>2, ConsumeType
  <2> QED BY <2>2, <2>3 DEF TypeOK
<1>3. CASE ReadTorn
  <2>1. TraderTypeOK'
    BY <1>3, PositionType, BookStep, StatusType, PositionsAssumption DEF ReadTorn, TypeOK
  <2>2. ExchangeTypeOK'
    <3>1. PICK n \in 0 .. MaxCoalesce : Consume(n)
      BY <1>3 DEF ReadTorn
    <3>2. n \in Nat
      BY CoalesceAssumption
    <3> QED BY <3>1, <3>2, ConsumeType
  <2> QED BY <2>1, <2>2 DEF TypeOK
<1>4. CASE ExchangeStep
  BY <1>4, ExchangeTypeStep DEF ExchangeStep, TypeOK, TraderTypeOK, ExecutorTypeOK
<1>5. CASE UNCHANGED vars
  BY <1>5 DEF vars, TypeOK, TraderTypeOK, ExecutorTypeOK, ExchangeTypeOK, LinkTypeOK
<1> QED BY <1>1, <1>2, <1>3, <1>4, <1>5 DEF Next

(* Every variable of the trader, of the link and of the exchange keeps its  *)
(* type whatever is sent, dropped, filled and read, for all books, limits   *)
(* and queue lengths.                                                       *)
THEOREM TypeCorrect == Spec => []TypeOK
<1>1. Init => TypeOK
  BY ExecutorAssumption DEF Init, TraderInit, PricingInit, ExecutorInit, LinkInit, ExchangeInit,
       TypeOK, TraderTypeOK, ExecutorTypeOK, ExchangeTypeOK, LinkTypeOK
<1> QED BY <1>1, TypeStep, PTL DEF Spec

-----------------------------------------------------------------------------
(* Whatever a read returns and however torn it is, it either has a book     *)
(* handled or leaves price, slots and link alone.                           *)
HandlesBook(book) == onOrderBookUpdate(book) /\ UNCHANGED <<orders, highest_id>>

LeavesQuotes ==
  UNCHANGED <<theo_price_, id_, price_, order_id_, toExchange, lost, orders, highest_id>>

(* The three kinds of steps. *)
LEMMA StepKinds ==
  ASSUME [Next]_vars
  PROVE  (\E book \in Books : HandlesBook(book)) \/ LeavesQuotes \/ ExchangeStep
<1>1. CASE \E book \in Books : ReadInfo(book)
  BY <1>1 DEF ReadInfo, exchangeVars, HandlesBook
<1>2. CASE ReadExec
  BY <1>2 DEF ReadExec, Consume, onPositionUpdate, onOrderStatusUpdate,
              executor_onPositionUpdate, traderVars, LeavesQuotes
<1>3. CASE ReadTorn
  <2>1. UNCHANGED <<orders, highest_id>>
    BY <1>3 DEF ReadTorn, Consume
  <2>2. CASE \E pos \in Positions : onPositionUpdate(pos)
    BY <2>1, <2>2 DEF onPositionUpdate, executor_onPositionUpdate, LeavesQuotes
  <2>3. CASE \E book \in Books : onOrderBookUpdate(book)
    BY <2>1, <2>3 DEF HandlesBook
  <2>4. CASE onOrderStatusUpdate
    BY <2>1, <2>4 DEF onOrderStatusUpdate, traderVars, LeavesQuotes
  <2> QED BY <1>3, <2>2, <2>3, <2>4 DEF ReadTorn
<1>4. CASE UNCHANGED vars
  BY <1>4 DEF vars, LeavesQuotes
<1> QED BY <1>1, <1>2, <1>3, <1>4 DEF Next

-----------------------------------------------------------------------------
(* The steps of the exchange keep OrdersAccountedFor.                       *)

(* Accepting or refusing the insert at the head of the stream.               *)
LEMMA ReceiveInsertInv ==
  ASSUME TypeOK, TypeOK', OrdersAccountedFor, ReceiveInsert,
         UNCHANGED <<id_, price_, order_id_>>
  PROVE  OrdersAccountedFor'
<1> DEFINE m == Head(toExchange)
<1>1. /\ Quotes \in QuotesType /\ Quotes' \in QuotesType /\ OrdersType(orders)
      /\ highest_id \in Nat /\ highest_id' \in Nat
  BY TypeOKQuotes DEF TypeOK, ExchangeTypeOK, TraderTypeOK, ExecutorTypeOK, LinkTypeOK, Quotes,
       QuotesType, CurrentLink, LinkType
<1>2. /\ Quotes'.id = Quotes.id /\ Quotes'.price = Quotes.price
      /\ Quotes'.order_id = Quotes.order_id
      /\ Quotes.link.queue = toExchange /\ Quotes'.link.queue = Tail(Quotes.link.queue)
      /\ Quotes'.link.lost = Quotes.link.lost
      /\ Quotes.link.queue # << >>
  BY DEF ReceiveInsert, Quotes, CurrentLink
<1>3. /\ IsInsert(m) /\ highest_id' = m.id
      /\ orders' = orders \/ orders' = orders \cup {AsOrder(m)}
      /\ AsOrder(m).id = m.id
  BY DEF ReceiveInsert, AsOrder
<1>4. /\ LiveOrders(Quotes, orders, highest_id) /\ QueuedOrders(Quotes, highest_id)
  BY DEF OrdersAccountedFor, QuoteInv
<1>5. LiveOrders(Quotes', orders', highest_id')
  <2>1. IsInsert(Head(Quotes.link.queue)) /\ AsOrder(m) = AsOrder(Head(Quotes.link.queue))
    BY <1>2, <1>3
  <2>2. /\ LiveOrders(Quotes', orders, AsOrder(m).id)
        /\ LiveOrders(Quotes', orders \cup {AsOrder(m)}, AsOrder(m).id)
    BY <1>1, <1>2, <1>4, <2>1, LiveInserted
  <2> QED BY <1>3, <2>2
<1>6. /\ 1 \in DOMAIN toExchange /\ m = toExchange[1]
      /\ \A j \in DOMAIN toExchange : j # 1 => 1 < j
  BY <1>1, <1>2 DEF QuotesType, LinkType
<1>7. /\ m.id <= Quotes.order_id
      /\ \A j \in DOMAIN toExchange : j # 1 /\ IsInsert(toExchange[j]) => m.id < toExchange[j].id
  BY <1>2, <1>3, <1>4, <1>6 DEF QueuedOrders
<1>8. QueuedOrders(Quotes', highest_id')
  BY <1>1, <1>2, <1>3, <1>4, <1>7, QueuedTail
<1> QED BY <1>2, <1>3, <1>5, <1>7, <1>8 DEF OrdersAccountedFor, QuoteInv

(* Taking the order of a cancel off the book.                                *)
LEMMA ReceiveCancelInv ==
  ASSUME TypeOK, TypeOK', OrdersAccountedFor, ReceiveCancel,
         UNCHANGED <<id_, price_, order_id_>>
  PROVE  OrdersAccountedFor'
<1> DEFINE m == Head(toExchange)
<1>1. Quotes \in QuotesType /\ Quotes' \in QuotesType /\ highest_id \in Nat
  BY TypeOKQuotes DEF TypeOK, ExchangeTypeOK, TraderTypeOK, ExecutorTypeOK, LinkTypeOK, Quotes,
       QuotesType, CurrentLink, LinkType
<1>2. /\ Quotes'.id = Quotes.id /\ Quotes'.price = Quotes.price
      /\ Quotes'.order_id = Quotes.order_id
      /\ Quotes.link.queue = toExchange /\ Quotes'.link.queue = Tail(Quotes.link.queue)
      /\ Quotes'.link.lost = Quotes.link.lost
      /\ Quotes.link.queue # << >>
  BY DEF ReceiveCancel, Quotes, CurrentLink
<1>3. /\ highest_id' = highest_id
      /\ orders' \subseteq orders
      /\ \A o \in orders' : ~IsCancelOf(Head(Quotes.link.queue), o.id)
  BY <1>2 DEF ReceiveCancel, IsCancelOf
<1>4. /\ LiveOrders(Quotes, orders, highest_id) /\ QueuedOrders(Quotes, highest_id)
      /\ highest_id <= Quotes.order_id
  BY DEF OrdersAccountedFor, QuoteInv
<1>5. LiveOrders(Quotes', orders', highest_id)
  BY <1>1, <1>2, <1>3, <1>4, LiveTail
<1>6. \A j \in DOMAIN Quotes.link.queue :
        j # 1 /\ IsInsert(Quotes.link.queue[j]) => highest_id < Quotes.link.queue[j].id
  BY <1>4 DEF QueuedOrders
<1>7. QueuedOrders(Quotes', highest_id)
  BY <1>1, <1>2, <1>4, <1>6, QueuedTail
<1> QED BY <1>2, <1>3, <1>4, <1>5, <1>7 DEF OrdersAccountedFor, QuoteInv

(* A fill shrinks or removes one order and touches nothing else.             *)
LEMMA FillInv ==
  ASSUME TypeOK, OrdersAccountedFor, UNCHANGED <<id_, price_, order_id_>>,
         NEW o \in orders, NEW volume, Fill(o, volume)
  PROVE  OrdersAccountedFor'
<1>1. Quotes' = Quotes /\ highest_id' = highest_id
  BY DEF Fill, Quotes, CurrentLink
<1>2. /\ LiveOrders(Quotes, orders, highest_id) /\ QueuedOrders(Quotes, highest_id)
      /\ highest_id <= Quotes.order_id
  BY DEF OrdersAccountedFor, QuoteInv
<1>3. orders' \subseteq (orders \ {o}) \cup {Reduced(o, volume)}
  BY DEF Fill
<1>4. /\ Reduced(o, volume).id = o.id /\ Reduced(o, volume).side = o.side
      /\ Reduced(o, volume).price = o.price
  BY DEF Reduced
<1>5. \A x, y \in orders : x.id = y.id => x = y
  BY <1>2 DEF LiveOrders
<1>6. \A x, y \in orders' : x.id = y.id => x = y
  BY <1>3, <1>4, <1>5
<1>7. \A x \in orders' : \E y \in orders : y.id = x.id /\ y.side = x.side /\ y.price = x.price
  BY <1>3, <1>4
<1>8. LiveOrders(Quotes, orders', highest_id)
  BY <1>2, <1>6, <1>7, LiveReduced
<1> QED BY <1>1, <1>2, <1>8 DEF OrdersAccountedFor, QuoteInv

(* Every step of the system keeps OrdersAccountedFor. *)
LEMMA AccountedStep == TypeOK /\ TypeOK' /\ OrdersAccountedFor /\ [Next]_vars
                         => OrdersAccountedFor'
<1> SUFFICES ASSUME TypeOK, TypeOK', OrdersAccountedFor, [Next]_vars
             PROVE  OrdersAccountedFor'
  OBVIOUS
<1>1. ASSUME NEW book \in Books, HandlesBook(book)
      PROVE  OrdersAccountedFor'
  <2>1. PICK ok \in SendOutcomes :
          Requoted(theo_price_' - Edge, theo_price_' + Edge, ok) = Quotes'
    BY <1>1, BookStep DEF HandlesBook
  <2>2. /\ theo_price_' - Edge \in Int /\ theo_price_' + Edge \in Int
        /\ theo_price_' - Edge < theo_price_' + Edge
    BY <1>1, BookStep, EdgeAssumption DEF HandlesBook
  <2>3. orders' = orders /\ highest_id' = highest_id
    BY <1>1 DEF HandlesBook
  <2>4. QuoteInv(Quotes', orders, highest_id)
    BY <2>1, <2>2, TypeOKQuotes, RequotedInv
  <2> QED BY <2>3, <2>4 DEF OrdersAccountedFor
<1>2. CASE LeavesQuotes
  BY <1>2 DEF LeavesQuotes, OrdersAccountedFor, Quotes, CurrentLink
<1>3. CASE ExchangeStep
  BY <1>3, ReceiveInsertInv, ReceiveCancelInv, FillInv DEF ExchangeStep, ExchangeNext
<1> QED BY <1>1, <1>2, <1>3, StepKinds

(* Whatever is sent, dropped, filled and read, every order of the trader at *)
(* the exchange or on its way is the one its slot of SimpleExecutor holds,  *)
(* or its cancel lies behind it or was dropped by send(); and of two orders *)
(* on one side, or at crossing prices, the older one's cancel comes first.  *)
THEOREM AllOrdersAccountedFor == Spec => []OrdersAccountedFor
<1>1. Init => OrdersAccountedFor
  <2> SUFFICES ASSUME Init PROVE OrdersAccountedFor
    OBVIOUS
  <2>1. /\ orders = {} /\ highest_id = 0 /\ Quotes.order_id = 1
        /\ Quotes.link.queue = << >>
    BY DEF Init, TraderInit, ExecutorInit, LinkInit, ExchangeInit, Quotes, CurrentLink
  <2> QED BY <2>1 DEF OrdersAccountedFor, QuoteInv, LiveOrders, QueuedOrders
<1> QED BY <1>1, TypeCorrect, AccountedStep, PTL DEF Spec

(* The exchange never holds two live orders of the trader on one side, but  *)
(* for orders whose cancel send() dropped.                                  *)
THEOREM OneQuotePerSideHolds == Spec => []OneQuotePerSide
<1>1. OrdersAccountedFor => OneQuotePerSide
  BY DEF OrdersAccountedFor, QuoteInv, LiveOrders, OneQuotePerSide, Book!Conflict, Quotes,
         CurrentLink
<1> QED BY <1>1, AllOrdersAccountedFor, PTL

(* The trader's live orders never cross, but for orders whose cancel send() *)
(* dropped.                                                                 *)
THEOREM NoSelfCrossHolds == Spec => []NoSelfCross
<1>1. OrdersAccountedFor => NoSelfCross
  BY DEF OrdersAccountedFor, QuoteInv, LiveOrders, NoSelfCross, Book!Conflict, Quotes,
         CurrentLink
<1> QED BY <1>1, AllOrdersAccountedFor, PTL

-----------------------------------------------------------------------------
(* The quotes follow the theoretical price.                                 *)

SlotsAtTheo == \A s \in Side : id_[s] # 0 => price_[s] = Quoted(s)

(* Every step keeps the slots at the theoretical price. *)
LEMMA SlotsStep == TypeOK /\ SlotsAtTheo /\ [Next]_vars => SlotsAtTheo'
<1> SUFFICES ASSUME TypeOK, SlotsAtTheo, [Next]_vars
             PROVE  SlotsAtTheo'
  OBVIOUS
<1>1. ASSUME NEW book \in Books, HandlesBook(book)
      PROVE  SlotsAtTheo'
  <2>1. PICK ok \in SendOutcomes :
          Requoted(theo_price_' - Edge, theo_price_' + Edge, ok) = Quotes'
    BY <1>1, BookStep DEF HandlesBook
  <2>2. theo_price_' - Edge \in Int /\ theo_price_' + Edge \in Int
    BY <1>1, BookStep, EdgeAssumption DEF HandlesBook
  <2>3. /\ Quotes'.id[BUY] # 0 => Quotes'.price[BUY] = theo_price_' - Edge
        /\ Quotes'.id[SELL] # 0 => Quotes'.price[SELL] = theo_price_' + Edge
    BY <2>1, <2>2, TypeOKQuotes, RequotedSlots DEF AtRest
  <2> QED BY <2>3 DEF SlotsAtTheo, Quoted, Quotes, Side, BUY, SELL
<1>2. CASE LeavesQuotes
  BY <1>2 DEF LeavesQuotes, SlotsAtTheo, Quoted
<1>3. CASE ExchangeStep
  BY <1>3 DEF ExchangeStep, SlotsAtTheo, Quoted
<1> QED BY <1>1, <1>2, <1>3, StepKinds

(* Every live order is at the current theoretical price less or plus the    *)
(* edge, unless its cancel is on the way or was dropped by send(); and a    *)
(* slot of SimpleExecutor never holds a price that is out of date.          *)
THEOREM QuotesAlwaysFollowTheo == Spec => []QuotesFollowTheo
<1>1. Init => SlotsAtTheo
  BY DEF Init, TraderInit, ExecutorInit, SlotsAtTheo
<1>2. Spec => []SlotsAtTheo
  BY <1>1, TypeCorrect, SlotsStep, PTL DEF Spec
<1>3. TypeOK /\ OrdersAccountedFor /\ SlotsAtTheo => QuotesFollowTheo
  <2> SUFFICES ASSUME TypeOK, OrdersAccountedFor, SlotsAtTheo
               PROVE  QuotesFollowTheo
    OBVIOUS
  <2>1. ASSUME NEW o \in orders
        PROVE  o.price = Quoted(o.side) \/ Settled(CurrentLink, o.id, 0, Len(toExchange) + 1)
    <3>1. /\ 0 < o.id /\ o.id \in Nat /\ o.side \in Side
          /\ Holds(Quotes, o) \/ Settled(CurrentLink, o.id, 0, Len(toExchange) + 1)
      BY DEF OrdersAccountedFor, QuoteInv, LiveOrders, Quotes, CurrentLink, TypeOK,
             ExchangeTypeOK
    <3> QED BY <3>1 DEF Holds, Quotes, SlotsAtTheo
  <2> QED BY <2>1 DEF SlotsAtTheo, QuotesFollowTheo
<1> QED BY <1>2, <1>3, TypeCorrect, AllOrdersAccountedFor, PTL

-----------------------------------------------------------------------------
(* Trading implements QuoteBook.                                            *)

(* Each step of the system is a step of QuoteBook or leaves it unchanged. *)
LEMMA QuoteBookStep ==
  ASSUME TypeOK, TypeOK', OrdersAccountedFor, OrdersAccountedFor', [Next]_vars
  PROVE  [Book!Next]_(Book!bookVars)
<1>1. /\ \A o, p \in orders : o.id = p.id => o = p
      /\ \A o \in orders : o.id \in Nat /\ o.id <= highest_id
      /\ \A o, p \in orders' : o.id < p.id /\ Book!Conflict(o, p) => o.id \in lost'
      /\ highest_id \in Nat
  BY DEF TypeOK, ExchangeTypeOK, OrdersAccountedFor, QuoteInv, LiveOrders, Quotes, CurrentLink
<1>2. ASSUME NEW book \in Books, HandlesBook(book)
      PROVE  Book!Abandon
  <2>1. PICK ok \in SendOutcomes :
          Requoted(theo_price_' - Edge, theo_price_' + Edge, ok) = Quotes'
    BY <1>2, BookStep DEF HandlesBook
  <2>2. theo_price_' - Edge \in Int /\ theo_price_' + Edge \in Int
    BY <1>2, BookStep, EdgeAssumption DEF HandlesBook
  <2>3. Quotes.link.lost \subseteq Quotes'.link.lost
    BY <2>1, <2>2, TypeOKQuotes, LostGrows
  <2> QED BY <1>2, <2>3 DEF Book!Abandon, HandlesBook, Quotes, CurrentLink
<1>3. CASE LeavesQuotes
  BY <1>3 DEF LeavesQuotes, Book!bookVars
<1>4. CASE ReceiveInsert
  <2> DEFINE m == Head(toExchange)
             o == AsOrder(m)
  <2>1. highest_id < m.id /\ m.id \in Nat
    <3>1. 1 \in DOMAIN toExchange /\ m = toExchange[1] /\ IsInsert(m)
      BY <1>4 DEF ReceiveInsert, TypeOK, TraderTypeOK, ExecutorTypeOK, LinkTypeOK
    <3>2. m.id \in Nat
      BY <3>1, InsertHasSide DEF TypeOK, TraderTypeOK, ExecutorTypeOK, LinkTypeOK
    <3> QED BY <3>1, <3>2 DEF OrdersAccountedFor, QuoteInv, QueuedOrders, Quotes, CurrentLink
  <2>2. highest_id' = o.id /\ lost' = lost /\ o.id = m.id
    BY <1>4 DEF ReceiveInsert, AsOrder
  <2>3. CASE orders' = orders
    BY <2>1, <2>2, <2>3 DEF Book!Refuse, Book!Next
  <2>4. CASE orders' = orders \cup {o}
    <3>1. o \in orders' \ orders /\ o.id > highest_id
      BY <1>1, <2>1, <2>2, <2>4
    <3>2. \A p \in orders : Book!Conflict(p, o) => p.id \in lost
      BY <1>1, <2>1, <2>2, <2>4
    <3>3. Book!Place(o)
      BY <2>2, <2>4, <3>1, <3>2 DEF Book!Place
    <3> QED BY <3>1, <3>3 DEF Book!Next
  <2> QED BY <1>4, <2>3, <2>4 DEF ReceiveInsert
<1>5. CASE ReceiveCancel
  <2> DEFINE m == Head(toExchange)
  <2>1. orders' = {o \in orders : o.id # m.id} /\ UNCHANGED <<highest_id, lost>>
    BY <1>5 DEF ReceiveCancel
  <2>2. CASE \E o \in orders : o.id = m.id
    <3>1. PICK o \in orders : o.id = m.id
      BY <2>2
    <3>2. orders' = orders \ {o}
      BY <1>1, <2>1, <3>1
    <3> QED BY <2>1, <3>2 DEF Book!Withdraw, Book!Next
  <2>3. CASE \A o \in orders : o.id # m.id
    BY <2>1, <2>3 DEF Book!bookVars
  <2> QED BY <2>2, <2>3
<1>6. ASSUME NEW o \in orders, NEW volume \in 1 .. o.volume, Fill(o, volume)
      PROVE  Book!Next
  <2>1. o.volume \in Nat /\ UNCHANGED <<highest_id, lost>>
    BY <1>6 DEF TypeOK, ExchangeTypeOK, Fill
  <2>2. CASE volume = o.volume
    <3>1. orders' = orders \ {o}
      BY <1>6, <2>2 DEF Fill
    <3> QED BY <2>1, <3>1 DEF Book!Withdraw, Book!Next
  <2>3. CASE volume # o.volume
    <3> DEFINE p == Reduced(o, volume)
    <3>1. orders' = (orders \ {o}) \cup {p}
      BY <1>6, <2>3 DEF Fill
    <3>2. p.volume < o.volume /\ p.id = o.id /\ p.side = o.side /\ p.price = o.price
      BY <2>1 DEF Reduced
    <3> HIDE DEF p
    <3>3. Book!Reduce(o, p) /\ p \in orders'
      BY <2>1, <3>1, <3>2 DEF Book!Reduce
    <3> QED BY <3>3 DEF Book!Next
  <2> QED BY <2>2, <2>3
<1> QED BY <1>2, <1>3, <1>4, <1>5, <1>6, StepKinds DEF ExchangeStep, ExchangeNext, Book!Next

(* Seen from the exchange, the trader is the disciplined quoter QuoteBook   *)
(* describes: its ids grow and no new order conflicts with a live one, but  *)
(* for orders whose cancel send() dropped.                                  *)
THEOREM Refinement == Spec => ImplementsQuoteBook
<1>1. Init => Book!Init
  BY DEF Init, TraderInit, ExecutorInit, LinkInit, ExchangeInit, Book!Init
<1>2. TypeOK /\ TypeOK' /\ OrdersAccountedFor /\ OrdersAccountedFor' /\ [Next]_vars
        => [Book!Next]_(Book!bookVars)
  BY QuoteBookStep
<1> QED BY <1>1, <1>2, TypeCorrect, AllOrdersAccountedFor, PTL
        DEF Spec, ImplementsQuoteBook, Book!Spec
=============================================================================

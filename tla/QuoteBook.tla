------------------------------ MODULE QuoteBook ------------------------------
(***************************************************************************)
(* What the executor promises, seen from the exchange's side only: the     *)
(* trader's live orders as they may evolve under a disciplined two-sided   *)
(* quoter.  A new order has a larger id than any before it and conflicts   *)
(* with no live order, except orders whose cancel was dropped on the way   *)
(* (lost).  Live orders otherwise only shrink or go away.                  *)
(***************************************************************************)
EXTENDS Integers

VARIABLES orders, highest_id, lost

bookVars == <<orders, highest_id, lost>>

(* Two live orders conflict when they are on the same side or would trade   *)
(* with each other.                                                         *)
Crosses(o, p) == o.side = "BUY" /\ p.side = "SELL" /\ o.price >= p.price

Conflict(o, p) == o.side = p.side \/ Crosses(o, p) \/ Crosses(p, o)

Init == orders = {} /\ highest_id = 0 /\ lost = {}

Place(o) ==
  /\ o.id > highest_id
  /\ \A p \in orders : Conflict(p, o) => p.id \in lost
  /\ orders' = orders \cup {o}
  /\ highest_id' = o.id
  /\ UNCHANGED lost

Refuse == highest_id' > highest_id /\ UNCHANGED <<orders, lost>>

Withdraw(o) == orders' = orders \ {o} /\ UNCHANGED <<highest_id, lost>>

Reduce(o, p) ==
  /\ p.volume < o.volume
  /\ p.id = o.id /\ p.side = o.side /\ p.price = o.price
  /\ orders' = (orders \ {o}) \cup {p}
  /\ UNCHANGED <<highest_id, lost>>

Abandon == lost \subseteq lost' /\ UNCHANGED <<orders, highest_id>>

Next ==
  \/ \E o \in orders' \ orders : Place(o)
  \/ Refuse
  \/ \E o \in orders : Withdraw(o)
  \/ \E o \in orders, p \in orders' : Reduce(o, p)
  \/ Abandon

Spec == Init /\ [][Next]_bookVars
=============================================================================

---------------------------- MODULE OrderChannel ----------------------------
(***************************************************************************)
(* OrderLink on its own, driven by anybody: the channel that Trading takes *)
(* for granted.  A command arrives as it was sent and in the order it was  *)
(* sent, or not at all.                                                    *)
(***************************************************************************)
EXTENDS OrderLink

CONSTANT Commands   \* what may be sent

Send(m, ok) ==
  LET link == IF IsInsert(m)
              THEN insertOrder(CurrentLink, m.id, m.side, m.price, m.volume, ok)
              ELSE cancelOrder(CurrentLink, m.id, ok)
  IN  toExchange' = link.queue /\ lost' = link.lost

Receive ==
  /\ toExchange # << >>
  /\ toExchange' = Tail(toExchange)
  /\ UNCHANGED lost

Next == Receive \/ \E m \in Commands : \E ok \in BOOLEAN : Send(m, ok)

Spec == LinkInit /\ [][Next]_<<toExchange, lost>>
=============================================================================

------------------------------ MODULE Delivery ------------------------------
(***************************************************************************)
(* What the execution channel gives the trader when messages arrive whole: *)
(* they are handled unchanged and in order, but one read() may take up to  *)
(* MaxCoalesce of them, and only the first of these is handled.  Trading   *)
(* takes this for granted of every read that is not torn.                  *)
(***************************************************************************)
EXTENDS Naturals, Sequences

CONSTANTS ExecMessages, MaxCoalesce

VARIABLES unread, handled

Init == unread = << >> /\ handled = << >>

Send == \E m \in ExecMessages : unread' = Append(unread, m) /\ UNCHANGED handled

Read ==
  /\ unread # << >>
  /\ handled' = Append(handled, Head(unread))
  /\ \E n \in 1 .. MaxCoalesce :
       n <= Len(unread) /\ unread' = SubSeq(unread, n + 1, Len(unread))

(* A reset loses the messages that are under way. *)
Reset ==
  /\ \E n \in 0 .. Len(unread) : unread' = SubSeq(unread, 1, n)
  /\ UNCHANGED handled

Next == Send \/ Read \/ Reset

Spec == Init /\ [][Next]_<<unread, handled>>
=============================================================================

------------------------------ MODULE Exposure ------------------------------
(***************************************************************************)
(* How far the trader's position can run when position_ is out of date.    *)
(* executeTrades checks position_ against the limit, and position_ knows   *)
(* nothing of orders resting or on their way, nor of fills not yet read;   *)
(* a read() that takes several messages drops reports, a torn one makes    *)
(* them up, and a cancel send() drops leaves its order in the market.      *)
(*                                                                         *)
(* Trading with all of that, history variables and an assumption on        *)
(* timing: at most MaxLag book updates send new quotes between two moments *)
(* at which the trader and the exchange are in step.                       *)
(***************************************************************************)
EXTENDS Trading

CONSTANT MaxLag

ASSUME LagAssumption == MaxLag \in Nat \ {0}

VARIABLES
  source,   \* position_ is from the "current" report, from an earlier one (a
            \* later one was "missed"), or the bytes of a "torn" read
  lag,      \* book updates that inserted since the two were last in step
  strayed   \* has a torn position_ been traded on?

exposureVars == <<vars, source, lag, strayed>>

IsReport(m) == m.type = POSITION_UPDATE_TYPE

(* The source of position_ once the messages from the i-th on that this     *)
(* step takes are dropped unhandled.                                        *)
Skips(i, s) ==
  IF s = "current" /\ \E k \in i .. Len(fromExchange) - Len(fromExchange') :
                         IsReport(fromExchange[k])
  THEN "missed" ELSE s

Heard == IF IsReport(Head(fromExchange)) THEN "current" ELSE source

(* Nothing is under way, the trader has heard the last report and no order  *)
(* is live whose cancel was dropped.                                        *)
InStep ==
  /\ toExchange = << >> /\ fromExchange = << >> /\ source = "current"
  /\ \A o \in orders : o.id \notin lost

Inserts == order_id_' # order_id_

ExposureInit == Init /\ source = "current" /\ lag = 0 /\ strayed = FALSE

Step ==
  \/ (\E book \in Books : ReadInfo(book)) /\ source' = source
  \/ ReadExec /\ source' = Skips(2, Heard)
  \/ ReadTorn /\ source' = IF position_' # position_ THEN "torn" ELSE Skips(1, source)
  \/ ExchangeStep /\ source' = source

ExposureNext ==
  /\ Step
  /\ Inserts => lag < MaxLag
  /\ lag' = IF InStep' THEN 0 ELSE IF Inserts THEN lag + 1 ELSE lag
  /\ strayed' = (strayed \/ (source = "torn" /\ Inserts))

ExposureSpec == ExposureInit /\ [][ExposureNext]_exposureVars

-----------------------------------------------------------------------------
(* The trader's open orders: the live ones and the inserts the exchange has *)
(* not read.  No two have the same id, see OrdersAccountedFor.              *)
Queued(queue) ==
  {AsOrder(queue[i]) : i \in {j \in DOMAIN queue : IsInsert(queue[j])}}

Open == orders \cup Queued(toExchange)

VolumeIn(found) == IF found = {} THEN 0 ELSE (CHOOSE o \in found : TRUE).volume

Volume(os, side, id) == VolumeIn({o \in os : o.side = side /\ o.id = id})

Volumes(os, side) == [id \in 1 .. MaxOrderId |-> Volume(os, side, id)]

Total(volumes) ==
  LET total[n \in 0 .. MaxOrderId] ==
        IF n = 0 THEN 0 ELSE total[n - 1] + volumes[n]
  IN  total[MaxOrderId]

(* The volume the trader has at stake on a side. *)
AtStake(side) == Total(Volumes(Open, side))

(* The position should every order at stake on one side be filled. *)
Highest == etf_position + AtStake(BUY)
Lowest  == etf_position - AtStake(SELL)

Lots(n) == LotSize * (n + 1)

Reports == {i \in DOMAIN fromExchange : IsReport(fromExchange[i])}

(* A fill is never unreported: the last position update under way carries   *)
(* the true position, and if none is under way the executor has it already, *)
(* unless a read dropped it or was torn.                                    *)
PositionReported ==
  /\ Reports = {} /\ source = "current" => position_ = etf_position
  /\ \A i \in Reports :
       (\A j \in Reports : j <= i) => fromExchange[i].etf_position = etf_position

(* The position the executor goes by, if no torn read made it up, and every *)
(* one it is about to be told are out by no more than one lot for each      *)
(* update handled blindly and one for the quote resting before: that is all *)
(* the trader has at stake, and all it may have bought or sold since.       *)
StaleByLag ==
  LET known == IF source = "torn" THEN {} ELSE {position_}
  IN  /\ AtStake(BUY) <= Lots(lag) /\ AtStake(SELL) <= Lots(lag)
      /\ \A pos \in known \cup {fromExchange[i].etf_position : i \in Reports} :
           Highest <= pos + Lots(lag) /\ Lowest >= pos - Lots(lag)

(* Should every order at stake be filled, the position still stays within   *)
(* the executor's limit plus one lot for each update handled blindly and    *)
(* one for the quote resting at the time, unless the executor has traded on *)
(* the position of a torn read: with the code's 80 and 10 and one update at *)
(* a time, within 99.  A report dropped by a coalesced read and a cancel    *)
(* dropped by send() cost nothing more, as long as the trader is in step    *)
(* again before MaxLag further updates.                                     *)
PositionBounded ==
  LET slack == PositionLimit - 1 + Lots(MaxLag)
  IN  strayed \/ (Highest <= slack /\ Lowest >= -slack)
=============================================================================

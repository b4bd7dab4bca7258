----------------------------- MODULE MarketLink -----------------------------
(***************************************************************************)
(* The process: main's start-up and the polling loop of MarketLink, byte   *)
(* by byte on the two sockets, with AutoTrader's handlers called from it.  *)
(*                                                                         *)
(* readNextMessage reads into one Message, reused for ever: a read returns *)
(* whatever bytes have arrived, up to sizeof(Message), and leaves the rest *)
(* of the old message in place.  An incoming message is a header and words *)
(* of WordBytes bytes; in an order book update one instrument byte comes   *)
(* before the words.  Nothing reads the size, so its two bytes are carried *)
(* as zero.                                                                *)
(***************************************************************************)
EXTENDS AutoTrader, Wire

CONSTANTS
  Depth,          \* price levels in an order book update: 5 in the code
  Arrival,        \* how TCP delivers exec messages; it promises "any":
                  \*   "single" each arrives whole and is read before the next
                  \*   "whole"  each arrives whole, and the backlog fits a read
                  \*   "any"    the stream is cut anywhere
  ExecMessages,   \* what the exchange may send on the execution channel
  Datagrams,      \* and on the information channel
  MaxCoalesce,    \* messages one read may return if they arrive whole
  MaxSent,        \* bound: exec messages the exchange sends
  MaxPublished    \* bound: datagrams that arrive

ASSUME LinkAssumption ==
  /\ Depth \in Nat \ {0} /\ Arrival \in {"single", "whole", "any"}
  /\ MaxInt = 128 * 256^(WordBytes - 1) - 1

(* The words of an execution message, by its type. *)
WordCount(type) ==
  IF type = POSITION_UPDATE_TYPE THEN 2
  ELSE IF type = ORDER_STATUS_UPDATE_TYPE THEN 4 ELSE 0

(* The exchange sends the messages of messages.h, and others without words  *)
(* as far as the program is concerned; books come by datagram only.         *)
ASSUME ExecAssumption ==
  \A m \in ExecMessages :
    /\ m \in [type : Byte \ {ORDER_BOOK_UPDATE_MESSAGE_TYPE}, words : Seq(Int)]
    /\ Len(m.words) = WordCount(m.type)
    /\ \A k \in DOMAIN m.words : FitsWord(m.words[k])

BookWords == 1 + 4 * Depth   \* sequence_no, prices

(* A book has its levels from the best to the worst, or none at an index. *)
ASSUME BookAssumption ==
  \A d \in Datagrams :
    /\ d \in [instrument : Byte, words : Seq(Int)]
    /\ Len(d.words) = BookWords
    /\ \A k \in DOMAIN d.words : FitsWord(d.words[k])
    /\ \A i, j \in 1 .. Depth :
         /\ i < j /\ d.words[1 + i] # 0 /\ d.words[1 + j] # 0
              => d.words[1 + i] <= d.words[1 + j]
         /\ i < j /\ d.words[1 + 2 * Depth + i] # 0 /\ d.words[1 + 2 * Depth + j] # 0
              => d.words[1 + 2 * Depth + i] >= d.words[1 + 2 * Depth + j]

VARIABLES
  phase,       \* how far main has come
  poll,        \* the socket readNextMessage tries next
  buffer,      \* msg of runLoop
  got,         \* what the last return of readNextMessage had received (history)
  handled,     \* the exec messages the handlers were given (history)
  sent,        \* the exec messages the exchange sent (history)
  wire,        \* bytes of these that have not arrived
  rcv,         \* bytes in the receive buffer of exec_sock_
  conn,        \* the execution connection: open, closed by the exchange, reset
  info,        \* datagrams in the receive buffer of info_sock_
  published    \* how many datagrams arrived so far

processVars == <<phase, poll, buffer, got, handled>>
networkVars == <<sent, wire, rcv, conn, info, published>>
vars        == <<traderVars, processVars, networkVars>>

-----------------------------------------------------------------------------
(* messages.h *)

WordAt(k)   == HeaderBytes + (k - 1) * WordBytes + 1   \* where word k starts
BufferBytes == HeaderBytes + 1 + BookWords * WordBytes \* sizeof(Message)

Type(b) == b[HeaderBytes]

(* What the exchange puts on the wire for a message and for a book. *)
WordsToBytes(words) ==
  LET bytes[k \in 0 .. Len(words)] ==
        IF k = 0 THEN << >> ELSE bytes[k - 1] \o ToBytes(words[k])
  IN  bytes[Len(words)]

Encode(m) == <<0, 0, m.type>> \o WordsToBytes(m.words)

EncodeBook(d) ==
  <<0, 0, ORDER_BOOK_UPDATE_MESSAGE_TYPE, d.instrument>> \o WordsToBytes(d.words)

-----------------------------------------------------------------------------
(* The handlers copy the part of msg they convert: msg itself stays as read. *)

Level(b, which, i) == Word(b, WordAt(1 + which * Depth + i) + 1)

(* Mutant: empty levels are kept. *)
LevelsKeepZeros(b, which) == [i \in 1 .. Depth |-> Level(b, which, i)]

(* One of the four vectors of handleOrderBookUpdate; a zero is "no level". *)
Levels(b, which) ==
  LET kept[i \in 0 .. Depth] ==
        IF i = 0 THEN << >>
        ELSE IF Level(b, which, i) = 0 THEN kept[i - 1]
        ELSE Append(kept[i - 1], Level(b, which, i))
  IN  kept[Depth]

OrderBook(b) ==
  [instrument |-> IF b[HeaderBytes + 1] = 0 THEN FUTURE ELSE ETF,
   ask_prices |-> Levels(b, 0),
   bid_prices |-> Levels(b, 2)]

(* Mutant: the positions are passed in the wrong order. *)
handleFuturePosition(b) == onPositionUpdate(Word(b, WordAt(1)))

handleOrderBookUpdate(b)   == onOrderBookUpdate(OrderBook(b))
handlePositionUpdate(b)    == onPositionUpdate(Word(b, WordAt(2)))
handleOrderStatusUpdate(b) == onOrderStatusUpdate

Dispatch(b) ==
  \/ Type(b) = ORDER_BOOK_UPDATE_MESSAGE_TYPE /\ handleOrderBookUpdate(b)
  \/ Type(b) = ORDER_STATUS_UPDATE_TYPE /\ handleOrderStatusUpdate(b)
  \/ Type(b) = POSITION_UPDATE_TYPE /\ handlePositionUpdate(b)
  \/ /\ Type(b) \notin {ORDER_BOOK_UPDATE_MESSAGE_TYPE, ORDER_STATUS_UPDATE_TYPE,
                        POSITION_UPDATE_TYPE}
     /\ UNCHANGED traderVars

(* The words the handler for b's type is given. *)
Decoded(b) ==
  [type |-> Type(b), words |-> [k \in 1 .. WordCount(Type(b)) |-> Word(b, WordAt(k))]]

-----------------------------------------------------------------------------
Init ==
  /\ TraderInit
  /\ phase = "start" /\ poll = "exec" /\ got = "none"
  /\ buffer = [k \in 1 .. BufferBytes |-> 0]
  /\ handled = << >> /\ sent = << >> /\ wire = << >> /\ rcv = << >>
  /\ conn = "none" /\ info = << >> /\ published = 0

(* A failing call throws, and main returns 1. *)
createExecutionSocket ==
  /\ phase = "start"
  /\ \/ phase' = "execution" /\ conn' = "open"
     \/ phase' = "exited" /\ conn' = conn
  /\ UNCHANGED <<traderVars, poll, buffer, got, handled, sent, wire, rcv, info, published>>

createInformationSocket ==
  /\ phase = "execution"
  /\ phase' \in {"initialised", "exited"}
  /\ UNCHANGED <<traderVars, poll, buffer, got, handled, networkVars>>

(* Sends the login.  A reset connection returns its error to one send and   *)
(* raises SIGPIPE on the next; this is the first.                           *)
registerTrader ==
  /\ phase = "initialised"
  /\ phase' = "registered"
  /\ conn' = IF conn = "reset" THEN "closed" ELSE conn
  /\ UNCHANGED <<traderVars, poll, buffer, got, handled, sent, wire, rcv, info, published>>

(* AutoTrader is given the link only now; messages that came in since the   *)
(* login wait in the sockets.                                               *)
registerMarketLink ==
  /\ phase = "registered"
  /\ phase' = "running"
  /\ UNCHANGED <<traderVars, poll, buffer, got, handled, networkVars>>

(* What the handler's sends do to the connection: whatever is sent changes  *)
(* id_.  On a connection that was reset the first send swallows the error,  *)
(* after which the socket reads end of file, and a second one raises        *)
(* SIGPIPE; so may one on a connection the exchange has closed.             *)
AfterSends ==
  IF id_' # id_ /\ conn \in {"closed", "reset"}
  THEN conn' = "closed" /\ phase' \in {"running", "killed"}
  ELSE UNCHANGED <<conn, phase>>

(* readNextMessage, the execution socket: data ... *)
ReadExec ==
  LET n   == IF Len(rcv) < BufferBytes THEN Len(rcv) ELSE BufferBytes
      msg == Put(buffer, 1, SubSeq(rcv, 1, n))
  IN  /\ phase = "running" /\ poll = "exec" /\ rcv # << >>
      /\ buffer' = msg
      /\ rcv' = SubSeq(rcv, n + 1, Len(rcv))
      /\ Dispatch(msg)
      /\ handled' = Append(handled, Decoded(msg))
      /\ got' = "exec"
      /\ AfterSends
      /\ UNCHANGED <<poll, sent, wire, info, published>>

(* ... end of file, which the test ret >= 0 takes for a message ... *)
ReadExecEof ==
  /\ phase = "running" /\ poll = "exec" /\ rcv = << >> /\ conn = "closed"
  /\ Dispatch(buffer)
  /\ got' = "nothing"
  /\ UNCHANGED <<phase, poll, buffer, handled, networkVars>>

(* ... an error, which ends the program ... *)
ReadExecError ==
  /\ phase = "running" /\ poll = "exec" /\ rcv = << >> /\ conn = "reset"
  /\ phase' = "exited"
  /\ UNCHANGED <<traderVars, poll, buffer, got, handled, networkVars>>

(* Mutant: the information socket is tried without waiting for EWOULDBLOCK. *)
SkipExec ==
  /\ phase = "running" /\ poll = "exec" /\ conn = "open"
  /\ poll' = "info"
  /\ UNCHANGED <<traderVars, phase, buffer, got, handled, networkVars>>

(* ... or EWOULDBLOCK. *)
ReadExecWouldBlock ==
  /\ phase = "running" /\ poll = "exec" /\ rcv = << >> /\ conn = "open"
  /\ poll' = "info"
  /\ UNCHANGED <<traderVars, phase, buffer, got, handled, networkVars>>

(* The information socket. *)
ReadInfo ==
  LET msg == Put(buffer, 1, Head(info))
  IN  /\ phase = "running" /\ poll = "info" /\ info # << >>
      /\ buffer' = msg
      /\ info' = Tail(info)
      /\ poll' = "exec"
      /\ got' = "info"
      /\ Dispatch(msg)
      /\ AfterSends
      /\ UNCHANGED <<handled, sent, wire, rcv, published>>

ReadInfoWouldBlock ==
  /\ phase = "running" /\ poll = "info" /\ info = << >>
  /\ poll' = "exec"
  /\ UNCHANGED <<traderVars, phase, buffer, got, handled, networkVars>>

ReadInfoError ==
  /\ phase = "running" /\ poll = "info"
  /\ phase' = "exited"
  /\ UNCHANGED <<traderVars, poll, buffer, got, handled, networkVars>>

runLoop ==
  \/ ReadExec \/ ReadExecEof \/ ReadExecError \/ ReadExecWouldBlock
  \/ ReadInfo \/ ReadInfoWouldBlock \/ ReadInfoError

initConnection == createExecutionSocket \/ createInformationSocket

main == initConnection \/ registerTrader \/ registerMarketLink \/ runLoop

-----------------------------------------------------------------------------
(* EXTERNAL: the exchange, which talks to a trader once it has logged in,   *)
(* and the network.                                                         *)

Transmit(m) ==
  /\ conn = "open" /\ phase \in {"registered", "running"} /\ Len(sent) < MaxSent
  /\ Arrival = "single" => wire = << >> /\ rcv = << >>
  /\ Arrival = "whole" => Len(rcv \o wire \o Encode(m)) <= BufferBytes
  /\ sent' = Append(sent, m)
  /\ wire' = wire \o Encode(m)
  /\ UNCHANGED <<rcv, conn, info, published>>

Arrive(n) ==
  /\ conn = "open"
  /\ Arrival # "any" => n = Len(wire)
  /\ rcv' = rcv \o SubSeq(wire, 1, n)
  /\ wire' = SubSeq(wire, n + 1, Len(wire))
  /\ UNCHANGED <<sent, conn, info, published>>

Publish(d) ==
  /\ phase \notin {"start", "execution"} /\ published < MaxPublished
  /\ info' = Append(info, EncodeBook(d))
  /\ published' = published + 1
  /\ UNCHANGED <<sent, wire, rcv, conn>>

(* The exchange closes the connection once everything has arrived, or it is *)
(* reset with bytes under way.                                              *)
Disconnect ==
  /\ conn = "open"
  /\ \/ conn' = "closed" /\ wire = << >>
     \/ conn' = "reset"
  /\ UNCHANGED <<sent, wire, rcv, info, published>>

Network ==
  /\ \/ \E m \in ExecMessages : Transmit(m)
     \/ \E n \in 1 .. Len(wire) : Arrive(n)
     \/ \E d \in Datagrams : Publish(d)
     \/ Disconnect
  /\ UNCHANGED <<traderVars, processVars>>

Next == main \/ Network

(* The program never sleeps: its loop runs as long as the process lives. *)
Spec == Init /\ [][Next]_vars /\ WF_vars(runLoop)

-----------------------------------------------------------------------------
TypeOK ==
  /\ TraderTypeOK
  /\ phase \in {"start", "execution", "initialised", "registered", "running", "exited", "killed"}
  /\ poll \in {"exec", "info"}
  /\ got \in {"none", "exec", "info", "nothing"}
  /\ buffer \in [1 .. BufferBytes -> Byte]
  /\ conn \in {"none", "open", "closed", "reset"}
  /\ info \in Seq([1 .. BufferBytes -> Byte])
  /\ wire \in Seq(Byte) /\ rcv \in Seq(Byte)
  /\ sent \in Seq(ExecMessages) /\ handled \in Seq([type : Byte, words : Seq(Int)])

Stopped == phase \in {"exited", "killed"}

(* "Attempts to read the next message": the handlers are given the messages *)
(* of the exchange, whole, each once and in order.                          *)
ReadsNextMessage == IsPrefix(handled, sent)

(* The position the executor is given is the etf_position of the last       *)
(* position update a handler had, or zero: the right field of it, neither   *)
(* lost nor made up when the buffer is read over or replayed at end of      *)
(* file.                                                                    *)
PositionFromMessage ==
  LET updates == {i \in DOMAIN handled : handled[i].type = POSITION_UPDATE_TYPE}
  IN  /\ updates = {} => position_ = 0
      /\ \A i \in updates :
           (\A j \in updates : j <= i) => position_ = handled[i].words[2]

(* The messages whose bytes are still to be read, once they arrive. *)
Unread ==
  LET bytes == rcv \o (IF conn = "open" THEN wire ELSE << >>)
      parts == {SubSeq(sent, i, j) : i \in 1 .. Len(sent) + 1, j \in 0 .. Len(sent)}
  IN  CHOOSE part \in parts :
        FlattenSeq([k \in DOMAIN part |-> Encode(part[k])]) = bytes

Delivered == INSTANCE Delivery WITH unread <- Unread

(* If messages arrive whole, a read that takes several of them hands the    *)
(* first to its handler, drops the others and stays in frame.  This is what *)
(* Trading makes of a read.                                                 *)
ImplementsDelivery == Delivered!Spec

(* "Blocks until a message is received from either socket": readNextMessage *)
(* does not return to the loop with nothing received.                       *)
BlocksUntilMessage == got # "nothing"

(* The theoretical price comes from the lowest ask and the highest bid of   *)
(* one FUTURE book that was published, however full its levels are and      *)
(* whatever message was in the buffer before it.                            *)
TheoFromBooks ==
  LET prices(d, which) ==
        {d.words[1 + which * Depth + i] : i \in 1 .. Depth} \ {0}
  IN  \/ theo_price_ = 0
      \/ \E d \in Datagrams :
           /\ d.instrument = 0
           /\ \E ask \in prices(d, 0), bid \in prices(d, 2) :
                /\ \A p \in prices(d, 0) : ask <= p
                /\ \A p \in prices(d, 2) : bid >= p
                /\ theo_price_ = Midpoint(ask, bid)

(* At end of file the loop spins on the message left in msg.  Handling it   *)
(* again must not trade: no handler's effect is repeated, so the trader's   *)
(* state and what it has sent stay as they are.                             *)
ReplayIsSilent ==
  [][ (phase = "running" /\ poll = "exec" /\ rcv = << >> /\ conn = "closed")
        => UNCHANGED traderVars ]_vars

Stage ==
  IF phase = "running" THEN "running" ELSE IF Stopped THEN "stopped" ELSE "starting"

Polled == INSTANCE Polling WITH
  MessageBytes <- BufferBytes, Backlogs <- Nat,
  stage <- Stage, exec <- Len(rcv), info <- Len(info)

(* The loop polls its two sockets the way Polling says, from the start-up   *)
(* to the end of the process, also when the connection is lost between a    *)
(* poll and a handler's sends: what Polling promises for traffic that never *)
(* ends holds of this loop.                                                 *)
ImplementsPolling == Polled!SafeSpec
=============================================================================

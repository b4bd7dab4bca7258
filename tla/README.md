# Formal model of the autotrader

TLA+ specifications, TLC configurations and TLAPS proofs for the trading
program in `src/src/`: a single-threaded process that reads order books and
execution messages from an exchange over two sockets and keeps one bid and one
ask in the market.

## The system

| Part | State | Operations | Module |
|---|---|---|---|
| `main` (`main.cpp`) | how far start-up has come | construct, connect, log in, loop; any exception ends the program | `MarketLink` |
| `MarketLink` (`market_link.cpp`), incoming | the two sockets, one `Message` reused for every read | `createExecutionSocket`, `createInformationSocket`, `registerTrader`, `runLoop`, `readNextMessage`, `handle*` | `MarketLink`; `Polling` for `readNextMessage` under endless traffic |
| `MarketLink`, outgoing | what was written to `exec_sock_` | `registerTrader`, `cancelOrder`, `insertOrder` | `OrderLink` (commands), `CommandStream` (bytes) |
| `AutoTrader` (`autotrader.cpp`) | the link, given to it before the loop starts; name and secret | `registerMarketLink`, `onOrderBookUpdate`, `onOrderStatusUpdate` (empty), `onPositionUpdate` | `AutoTrader`; `registerMarketLink` in `MarketLink` |
| `FutureMidpoint` (`future_midpoint.cpp`) | `theo_price_` | `onOrderBookUpdate`, `calculateTheoPrice` | `FutureMidpoint` |
| `SimpleExecutor` (`simple_executor.cpp`) | `bid_id_`, `ask_id_`, `bid_price_`, `ask_price_`, `order_id_`, `position_` | `executeTrades`, `onPositionUpdate` | `SimpleExecutor` |
| `messages.h`, `types.h` | -- | packed structs, message types, byte order | `Messages`, `Wire`, `MarketLink`, `CommandStream` |
| the exchange | not in the repository | reads commands, fills orders, reports | `Exchange` (external) |

Everything happens in one thread: `runLoop` reads one message and calls one
handler of `AutoTrader`, which updates the price through the pricing model and
then lets the executor send commands back through `MarketLink`. The concurrency
is with the outside: commands travel to the exchange while fills, order books
and a disconnect travel the other way, and nothing in the program waits for an
answer.

What is hard here, and what should nevertheless hold:

* *Executor.* It forgets an order the moment it sends the cancel and inserts
  the replacement in the same call. The exchange sees these commands later,
  interleaved with fills. Never two orders on a side, never a bid through the
  trader's own ask; a forgotten order does leave the market; `position_` is
  stale when it is compared with the limit, so how far can the position run?
* *Outgoing link.* The socket is non-blocking and the result of `send()` is
  ignored: a command can vanish, or its end can. Otherwise sizes, packing and
  byte order must let the exchange read what was meant.
* *Incoming link.* A TCP read is taken for a message, end of file is taken for
  a message, one buffer is reused, the second socket is polled only when the
  first would block, errors throw, and a reset may come between a poll and a
  send.
* *Pricing.* `int` arithmetic on prices from the network: overflow, truncating
  division, levels that are zero.

`PROJECT.json` lists these hazards line by line with the properties that
address them.

## Modules

```
Messages <- OrderLink <- SimpleExecutor --+
                         FutureMidpoint --+-> AutoTrader --+-> Trading -> Exposure
            OrderLink <- Exchange ------------------------+      |
FutureMidpoint <- Pricing                                        INSTANCE QuoteBook
Messages <- Wire;  AutoTrader, Wire <- MarketLink,       INSTANCE Delivery, Polling
                               Wire <- CommandStream,    INSTANCE OrderChannel
                          OrderLink <- OrderChannel

AutoTrader <- ExecutorProofs;  RecursionLemmas;  Wire, RecursionLemmas <- WireProofs
Trading, ExecutorProofs <- TradingProofs;  Pricing <- PricingProofs
Exposure, TradingProofs, RecursionLemmas <- ExposureProofs
MarketLink, ExecutorProofs, WireProofs <- MarketLinkProofs
CommandStream, WireProofs <- CommandStreamProofs
MCTrading, MCExposure, MCPricing, MCMarketLink, MCCommandStream: values for TLC
```

The system is described at two levels. `Trading` works message by message.
`MarketLink` and `CommandStream` work byte by byte, one for each direction of the
execution channel, and implement the message level: `Delivery` is what `Trading`
assumes of a read and `OrderChannel` what it assumes of a send. `Polling` is
`readNextMessage` with the messages reduced to their number, small enough to ask
what happens when traffic never ends; `MarketLink` implements it too. Every
safety property of a passing run is proved as well as checked, except
`ReadsNextMessage`, which needs messages to arrive one by one.

**Messages** -- the message types and the commands as records.

**Wire** -- words of `WordBytes` bytes in network order and how they are put into
and taken out of a buffer (`ToBytes`, `Word`, `Put`).

**OrderLink** -- `toExchange` is the sequence of commands the exchange has not
read, `lost` a history variable: the ids whose cancel `send()` did not take.
`LossySends` says whether a send may fail; it may, in the code as it stands. A
"link" is the pair of both variables, so that one handler can hand it several
commands in the order the code does.

**SimpleExecutor** -- `bid_id_`/`ask_id_` and `bid_price_`/`ask_price_` are
functions `id_` and `price_` of the side. `executeTrades` is the composition
(`Requoted`) of the code's four `if` statements, in their order: cancel a stale
bid, cancel a stale ask, insert a missing bid, insert a missing ask
(`CancelStale`, `PlaceMissing`). `ok` carries the outcome of each send. 80 and
10 are the constants `PositionLimit` and `LotSize`. The fields start at zero
because `main` value-initialises the object (`SimpleExecutor()`), `order_id_`
at 1.

**FutureMidpoint** -- `theo_price_` and the midpoint with C++ semantics: the
sum wraps (`WrapSum`), division truncates towards zero (`TruncDiv`). The width
of an int is the constant `MaxInt`.

**AutoTrader** -- the handlers, each a conjunction of the two components'
operators.

**Exchange** (external) -- live orders, the true position and the messages to
the trader. An insert rests or is rejected; a cancel of an order that is gone
does nothing; a fill, partial or full, is reported by a status and a position
update in either order.

**Trading** -- the composition. `ReadInfo(book)` is a pass of the loop that
handles an order book: any book of `Books` at any time, since multicast
datagrams may be lost, repeated and late and the code ignores `sequence_no`.
`ReadExec` is a pass that handles an exec message: one `read()` can return up
to `MaxCoalesce` messages, of which the first is handled and the others are
lost. `ReadTorn` is a pass whose read was cut inside a message: the buffer then
mixes old and new bytes, so any handler may run with any book of `Books` or any
position of `Positions`; with `Positions` empty all reads are whole.
`ExchangeStep` is the exchange.

**QuoteBook** -- the abstract specification: what a disciplined quoter looks
like from the exchange, over the live orders, the highest id and `lost` only.
Ids grow; a new order conflicts (same side, or crossing prices) with no live
order unless that order's cancel was dropped; live orders otherwise shrink or
go.

**Exposure** -- `Trading`, with all its losses, and three history variables.
`source` says whether `position_` is from the last report taken off the channel
(`"current"`), from an earlier one because a read dropped a later one
(`"missed"`), or made up by a torn read (`"torn"`). `lag` counts the
book updates that inserted orders since the trader and the exchange were last in
step (`InStep`: nothing under way, no report missed, no live order whose cancel
was dropped). `strayed` says that the executor has traded on a torn position.
The one assumption is on timing: at most `MaxLag` such updates between two
moments at which they are in step. Without one there is no bound: the code never
waits for the exchange.

**Pricing** -- `FutureMidpoint` and the two prices `onOrderBookUpdate` computes,
with the market they came from as a history variable.

**MarketLink** -- the process byte by byte. `phase` is how far `main` has come
(`start`, `execution`, `initialised`, `registered`, `running`, `exited`, or
`killed` by SIGPIPE), `poll` the socket `readNextMessage` tries next, `buffer` the `Message`
of `runLoop`. Each outcome of each `read()` is an action: `ReadExec`,
`ReadExecEof`, `ReadExecError`, `ReadExecWouldBlock`, `ReadInfo`,
`ReadInfoWouldBlock`, `ReadInfoError`; the first three that return include the
dispatch and the whole handler. The layout is that of `messages.h`, with the
size of a word (`WordBytes`) and the number of levels (`Depth`) as constants;
the size field, which nothing reads, is carried as zero. The network
(external) delivers the byte stream as `Arrival` says -- each message on its own
(`"single"`), whole messages of which several fit one read (`"whole"`), or cut
anywhere (`"any"`), which is all TCP promises -- and closes or resets the
connection. The exchange talks to the trader from the login on, so messages may
wait in the sockets before `registerMarketLink` has run. After a reset the first
`send()` returns the error -- which the code ignores -- and the socket then reads
end of file; a second `send()` raises SIGPIPE, and so may one on a connection the
exchange has closed. `AfterSends` is what that makes of `phase` and `conn` after
every read whose handler sends, from either socket. `sent`, `handled` and `got`
are histories; `handled` has the words of each message as a handler is given
them, and `PositionFromMessage` ties it to what the executor receives.

**Polling** -- `readNextMessage` alone: how many bytes and datagrams wait, which
socket is next, and the state of the connection. Both sockets may receive for
ever. `ImplementsPolling` maps `MarketLink` to it, so that its run need not be
repeated byte by byte; every step of `runLoop` but the replay at end of file is a
step of Polling's `readNextMessage` and is possible when that is, so the fairness
of the loop carries over.

**Delivery** -- the abstract specification of the incoming direction: messages
are handled unchanged and in order, but a read takes up to `MaxCoalesce` of them
and only the first is handled; a reset loses what is under way.
`ImplementsDelivery` maps its `unread` to the messages whose encodings make up
the unread bytes (`Unread`); a stream out of frame has no such messages.

**CommandStream** -- the outgoing direction. `LoginBytes`, `CancelBytes` and
`InsertBytes` are the bytes handed to `send()`, which takes all, none, or a part
(`Cuts`) of them, of the login too. The exchange (external) cuts the stream at the size fields.
`name` and `secret` are strings as byte sequences, since the login's fixed
fields and the NULs `snprintf` writes are the point of one property.

**OrderChannel** -- `OrderLink` driven by anybody. `ImplementsOrderChannel` maps
its queue to what the exchange will read from the bytes in the stream, if the
login was taken and up to the first short write (`cut` otherwise).

Definitions named "Mutant" are faulty variants of the definition that follows
them; each shows that a property notices the fault.

## Runs

| Run | Asks | Instance | Distinct states |
|---|---|---|---|
| `trading_lossy` | `TypeOK`, `OrdersAccountedFor`, `OneQuotePerSide`, `NoSelfCross`, `QuotesFollowTheo`, `ImplementsQuoteBook` with failing sends, coalesced and torn reads | 5 ids, lots of 1, 3 books, 2 unread messages, 2 torn positions | 111,751 |
| `trading_reliable` | `PositionConverges`, `ForgottenOrdersLeave`, `ImplementsQuoteBook` with partial fills | 6 ids, lots of 2, 4 books, 4 unread messages | 50,260 |
| `exposure_lossy` | `StaleByLag`, `PositionBounded` with failing sends and reads that drop reports | 7 ids, limit 1, lots of 1, 4 unread messages, 2 a read, `MaxLag` 1 | 238,353 |
| `exposure_torn` | `PositionReported`, `StaleByLag`, `PositionBounded` with reads that drop reports or make them up | 7 ids, limit 2, lots of 2, 4 unread messages, 2 a read, 2 torn positions, `MaxLag` 1 | 559,173 |
| `pricing` | `QuotesFitInt`, `QuotesStayOutside` | every pair of 5-bit prices, tick 3 | 1,024 |
| `marketlink_prompt` | `TypeOK`, `ReadsNextMessage`, `TheoFromBooks` when messages arrive one by one | 2-byte words, 2 levels, 2 exec messages, 2 datagrams | 55,464 |
| `marketlink_whole` | `ImplementsDelivery` when whole messages queue up | 2-byte words, 2 levels, 3 exec messages, 1 datagram, `MaxCoalesce` 7 | 119,903 |
| `marketlink_stream` | `PositionFromMessage`, `ReplayIsSilent`, `ImplementsPolling` with the stream cut anywhere and failing sends | 1-byte words, 1 level, 1 exec message, 2 datagrams | 382,672 |
| `polling` | `ExecHandled`, `DatagramsHandled`, `ResetStops` with traffic that never ends | reads of 3 bytes, up to 7 bytes and 7 datagrams waiting | 984 |
| `commandstream` | `TypeOK`, `LoginIntact`, `ImplementsOrderChannel` | the code's sizes and 4-byte words, names and secrets short and filling their field, 3 commands, cuts after 1, 4 and 16 bytes | 56,154 |
| `marketlink_torn` | `ReadsNextMessage` with the stream cut anywhere: **violated** | | |
| `marketlink_eof` | `BlocksUntilMessage`: **violated** | | |

What they show:

* Whatever the interleaving, the trader's orders at the exchange are one per
  side and uncrossed, with one exception: orders whose cancel `send()` dropped.
  These stay in the market for good, and they are the only damage a dropped
  cancel does. Torn reads, which can call any handler with wrong data, do not
  weaken this.
* Every live order is at the current theoretical price less or plus the edge, or
  on its way out (`QuotesFollowTheo`). So neither the quotes around zero that an
  ETF book before the first FUTURE book causes, nor a slot that
  `onOrderStatusUpdate` does not free, outlasts a price.
* If sends succeed, every order the executor has forgotten leaves the market.
* No fill goes unreported: the last position update under way carries the true
  position, and once all are read `position_` is the true one, unless a read
  dropped the last report or was torn (`PositionReported`). Both happen in the
  code as it is: a status update swallows the position update that arrived behind
  it. If messages are read one by one, the position does converge
  (`PositionConverges`, which is why `trading_reliable` has `MaxCoalesce = 1`).
* What the executor believes of its position, and what it is about to be told, is
  out by at most one lot for each book update handled blindly and one for the
  quote resting before (`StaleByLag`), unless a torn read made it up.
  With one book update per round trip, the position plus everything at stake
  stays within `PositionLimit - 1 + 2 * LotSize`: 99 with the code's 80 and 10.
  The bound is reached, so it cannot be improved. A report that a coalesced read
  drops and a cancel that `send()` drops do not loosen it; what they do is put
  trader and exchange out of step, and the assumption on timing counts updates
  until they are in step again. What does break it is an insert on a position
  that no report carried.
* The quoted prices never overflow and never cross the market they come from,
  unless `ask + bid` itself overflows.
* The decoding and the one reused buffer are right as long as each message
  arrives on its own. If whole messages queue up, all that goes wrong is that a
  read drops the ones behind the first; the stream stays in frame as long as the
  backlog fits the buffer.
* The login, the cancels and the inserts are read by the exchange as they were
  meant, and a command `send()` refuses as a whole leaves no trace. A short write
  ends that: the size fields then cut the stream at the wrong places, a garbled
  frame may even look like a second login, and nothing is claimed of what follows.
* At end of file the loop spins for ever on the last message, and that is
  harmless: a replayed message changes nothing and sends nothing. From then on
  the trader is frozen with its last quotes in the market.
* However the stream is cut, `position_` is the `etf_position` field of the last
  position update a handler was given (`PositionFromMessage`).
* A reset stops the trading, however much is still to be read (`ResetStops`).
* The execution channel comes first. Book updates, however many, cannot keep the
  loop from it (`ExecHandled`). Execution messages can keep the loop from the
  book updates: as long as `read(exec_sock_)` finds something every time, and for
  ever after end of file, no book update is read, and the quotes stay as they
  are. What holds is that a pause is enough: if execution messages stop coming on
  an open connection, the backlog is read and the waiting datagrams are handled,
  all of them (`DatagramsHandled`).

The two violations are disagreements between the comment on `readNextMessage`
("Attempts to read the next message ... Blocks until a message is received from
either socket.") and its code; see `findings` in `PROJECT.json`.

*Bounds.* Ids: each book update uses at most two, so 5 to 7 ids are two to three
generations of quotes, enough for an old order, its replacement and the
replacement of that one to coexist as live, queued and cancelled. Books: two
futures two edges apart, so that the new bid equals the old ask, an ETF book and
a one-sided one, which leave the price alone. Four unread messages are two
fills unreported. In `MarketLink` two books and one or two exec messages of
each kind are enough for every overlay of a message on another; narrow words
only shorten the messages that can be cut. `marketlink_stream` uses one-byte
words because a message of *n* bytes can be cut in 2^(n-1) ways. `MaxOrderId`
is never reached in the `MarketLink` runs. In `commandstream` a write may be cut
inside the header, inside a word and before the last byte, and three commands
are enough for one before and one behind such a cut. In the `exposure` runs 7 ids
are three updates of two orders, which it takes to reach the bound; two messages
a read are what a fill sends at once. In `polling` 7 bytes are two reads and a
rest. Deadlock is not checked in these
runs: with all ids used and the exchange quiet, or after exit, nothing is left
to do; after end of file `Polling` stands still, though the loop spins. It is
checked in `pricing`.

*Fairness.* `FairSpec` of `Trading`: the exchange keeps reading what was sent to
it, and the trader's loop, which never sleeps and tries `exec_sock_` first, what
comes back. `Spec` of `MarketLink` and of `Polling`: the polling loop, which never
sleeps, keeps running. Nothing is assumed of the network, of fills or of start-up.

## Proofs

Each theorem holds for every value of the constants -- any number of orders,
books, prices, messages, levels, sizes of a word -- that satisfies the named
`ASSUME`s and what the table says.

| Theorem | States | Assumes besides |
|---|---|---|
| `TypeCorrect`, `AllOrdersAccountedFor`, `OneQuotePerSideHolds`, `NoSelfCrossHolds`, `QuotesAlwaysFollowTheo` (`TradingProofs`) | `Spec => []` of the properties of `trading_lossy` | |
| `Refinement` (`TradingProofs`) | `Spec => ImplementsQuoteBook` | |
| `PositionAlwaysReported`, `StaleByLagAtMost`, `PositionAlwaysBounded` (`ExposureProofs`) | `ExposureSpec => []` of `PositionReported`, `StaleByLag`, `PositionBounded` | |
| `QuotesAlwaysFit`, `QuotesAlwaysOutside` (`PricingProofs`) | the two properties of `Pricing` | |
| `WordRoundTrip` (`WireProofs`) | a word put in network order is read back as the same number | |
| `LinkTypes`, `ReplaysAreSilent` (`MarketLinkProofs`) | `Spec => []TypeOK`, `Spec => ReplayIsSilent` | |
| `PositionFromLastUpdate` (`MarketLinkProofs`) | `Spec => []PositionFromMessage` | |
| `LinkIsPolling` (`MarketLinkProofs`) | `Spec => ImplementsPolling` | |
| `PriceFromOneBook` (`MarketLinkProofs`) | `Spec => []TheoFromBooks` | messages arrive whole: `Arrival # "any"` |
| `LinkIsDelivery` (`MarketLinkProofs`) | `Spec => ImplementsDelivery` | the same, and a read holds at most `MaxCoalesce` headers: `BufferBytes < HeaderBytes * (MaxCoalesce + 1)` |
| `StreamTypes`, `LoginAlwaysIntact`, `StreamIsOrderChannel` (`CommandStreamProofs`) | `Spec => []TypeOK`, `Spec => []LoginIntact`, `Spec => ImplementsOrderChannel` | |

TCP promises `Arrival = "any"` only; that messages arrive whole is what the code
relies on, and what `PriceFromOneBook` and `LinkIsDelivery` need: torn bytes can
be taken for a book, and leave the stream out of frame (`marketlink_torn`).
`BufferBytes` is 88 in the code, so a read holds at most 29 headers; the run
`marketlink_whole` satisfies the condition with 22 bytes and `MaxCoalesce = 7`.

*Orders (`TradingProofs`).* That no two live orders conflict is not
inductive: it depends on what is still in the queue. `OrdersAccountedFor` looks
at live orders (place 0) and queued inserts (place *i* of the queue) alike. An
order is *settled* between two places if its cancel lies between them or was
dropped. The invariant says that an order is held by its slot of the executor,
with the same id and price, or settled before the end of the queue; that of two
conflicting orders the earlier is settled before the later; and that ids grow
along the queue. The invariant is an operator of the executor's intermediate
state (`QuoteInv(q, ...)`), so each of the four statements of `executeTrades`
has its own lemma (`CancelStaleInv`, `PlaceMissingInv`): after the two cancels
each occupied slot holds an order at the price about to be quoted, which is what
keeps the inserts from conflicting. On the exchange's side a read moves all
places up by one (`SettledTail`, `QueuedTail`, `LiveTail`); an insert that
arrives finds every conflicting order settled between place 0 and place 1, that
is, dropped. The refinement needs the same invariant for `Place` and the
uniqueness of ids for `Withdraw`. A torn read is no case of its own: whatever it
does to the exec channel, it handles a book, a position or nothing, and
`BookStep` holds of a book from wherever it comes.

`QuotesFollowTheo` speaks of live orders; what has to be carried along is that
an occupied slot of the executor holds the price now quoted, which is
re-established by every book (`RequotedSlots`) and left alone by every other
step (`StepKinds`, `SlotsStep`). With `OrdersAccountedFor` -- a live order is held
by its slot or settled -- the claim about orders follows.

*Position (`ExposureProofs`).* `PositionReported` is inductive: a fill and its
report are one step of the exchange, and a read that takes the last report either
hands it on or leaves `source` other than `"current"`. The bounds are proved with
`ExposureInv`: every order is at most a lot, and both `StaleByLag` and
`PositionBounded`. The bound alone is not inductive, since an insert is decided
on `position_`, not on the true position; `StaleByLag` bounds the difference, and
for all reports under way, so that it survives their delivery. A side is inserted
only below the limit, hence one more lot keeps the bound (`WithinSlack`); a fill
moves volume from the orders to the position and leaves `Highest` or `Lowest` as
it is; a report that is dropped leaves an older position, which `StaleByLag`
bounds as well. When trader and exchange are in step `lag` is reset, which is
justified because then only the slot's own order is left on a side
(`OrdersAccountedFor`, with no dropped cancel among the live orders) and
`position_` is the true one (`PositionReported`). Most of the module is about
`Total`: what one changed volume does to a sum.

*Pricing (`PricingProofs`).* `theo_price_` is the midpoint of the remembered
market; truncation loses less than a tick and moves towards zero, so the
midpoint is at most half an int from zero.

*Recursion (`RecursionLemmas`, `WireProofs`).* The loops of the model are
recursive functions. A non-empty set of natural numbers has a least element
(`Least`), so the least counterexample gives induction over a set that is named
(`Induction`), and a loop from 1 to *n* has exactly one result (`LoopExists`,
`LoopUnique`). From these follow what `ToBytes`, `Word`, `WordsToBytes`,
`Levels`, `Total`, `Frames` and `FlattenSeq` compute.

*Incoming bytes (`MarketLinkProofs`).*
 - `ReplayIsSilent`: `Absorbed` says that the handler for what is in the buffer
   has nothing left to do -- the price is the book's and both slots are as
   `executeTrades` would leave them (`AtRest`), or `position_` is the message's.
   A dispatch establishes it for the message it was given and a handler that runs
   again changes nothing, whatever the bytes mean. While the buffer is new it
   holds no message.
 - `PositionFromMessage`: a position update gives the executor the second word it
   decodes, any other message leaves `position_` alone (`DispatchPosition`); what
   waits on the information channel is books (`BooksWait`); and a replay at end of
   file finds its message `Absorbed`.
 - `ImplementsPolling`: one lemma per kind of step. The invariant needed is small,
   `Unconnected`: no connection before `createExecutionSocket`.
 - `TheoFromBooks`: a backlog starts with the header of an execution message and
   fits the buffer (`InFrame`), so nothing read from that socket is dispatched
   as a book; a datagram overwrites the whole buffer; and the first level kept
   is the best, because a book's levels are in order.
 - `ImplementsDelivery`: what is in the receive buffer and what is under way are
   the encodings of whole messages, the last ones sent (`Backlog`). The mapping
   chooses the messages that have the unread bytes as encoding; it chooses
   *these* because a message's type gives its length, so that bytes can be the
   encoding of one sequence of messages only (`FirstMessage`, `WireUnique`). A
   read then takes all of the receive buffer; its first message is decoded
   unchanged though others follow it and older bytes are behind
   (`FirstDecoded`); and it holds no more messages than headers (`WireLength`).

*Outgoing bytes (`CommandStreamProofs`).* If the login was taken, up to the first
short write the stream
is the concatenation of frames (`Split`), the first of them the login until it
is read, the others commands (`StreamInv`, `Carries`). Each frame's size field
is its length, so the exchange cuts the stream where `send()` put it together
(`FramesAre`), an append adds a frame at the end (`SplitAppend`) and a read takes
one away (`SplitTail`). That each frame is read as what was meant is `CommandRead`
and `LoginRead`, the latter with the NULs that `snprintf` writes over the
neighbouring field.

*Assumptions.* Positive lot, edge, tick and `MaxOrderId`, integer prices in
priced books; `2 * Edge < MaxInt`, `Tick <= Edge` in `Pricing`. `ExecAssumption`
and `BookAssumption`: the exchange sends what `messages.h` describes, and a
book's levels run from best to worst. `StreamAssumption`: names and secrets fit
their fields and have no NUL, as `main`'s literals do; ids, prices and volumes
are ints. TLC evaluates them in every run of the modules that make them.

*Only model-checked.* The liveness properties `PositionConverges`,
`ForgottenOrdersLeave`, `ExecHandled`, `DatagramsHandled` and `ResetStops`, which
are out of the prover's reach, as is the fairness that `MarketLink` shares with
`Polling`; and `ReadsNextMessage`, whose assumption on arrival the code cannot
count on. The two violations are counterexamples and need no proof.

## Not modelled

* The vendored libraries under `libs/` (abseil, range-v3). They are all
  but some 700 of the repository's lines, but no file of the program includes
  one of them: nothing the program does depends on them. What the program
  itself does, `src/src/`, is modelled as a whole.
* What the exchange reads after a short write: garbage, by size fields that are
  no size fields. The trader cannot tell and does not react.
* Order ids beyond 2^31: the model stops numbering at `MaxOrderId`.
* What the exchange does beyond being the other end of two sockets: matching,
  limits, penalties. Of the calls that set up a socket the model keeps only
  whether they succeed.
* A `%` in the name or the secret, which `registerTrader` uses as the format of
  `snprintf`: `main` gives literals without one.
* Log output, host names; the lifespan, the same for all orders; volumes in order
  books, which nobody reads.
* The build files.

## Plan

1. (done) Executor, link, pricing, exchange and their composition; the abstract
   quoter; the process with its two sockets; proofs about `Trading` and
   `Pricing`.
2. (done) The outgoing bytes with short writes; both directions of the byte level
   checked against what `Trading` assumes; torn reads in `Trading`; that the
   quotes follow the price, with its proof; that the position converges.
3. (done) Proofs of the safety properties of the runs and of all refinements;
   the bounds on the position with dropped sends, dropped reports and torn reads;
   the polling of the two sockets under endless traffic.
4. `PriceFromOneBook` rests on messages arriving whole; what a torn stream can
   still do to the price, and for how long, is open, as is a bound on the
   position once the executor has traded on a torn report.

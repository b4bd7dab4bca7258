--------------------------- MODULE FutureMidpoint ---------------------------
(***************************************************************************)
(* The pricing model: the theoretical price is the midpoint of the best    *)
(* FUTURE ask and bid, rounded to a tick with C++ integer division.        *)
(*                                                                         *)
(* An order book update is [instrument, ask_prices, bid_prices]; its       *)
(* volumes and its sequence number reach this class and nobody reads them. *)
(***************************************************************************)
EXTENDS Integers, Sequences

CONSTANTS
  Tick,    \* 100 in the code
  MaxInt   \* 2^31 - 1 in the code: an int is in -MaxInt-1 .. MaxInt

ASSUME PricingAssumption == Tick \in Nat \ {0} /\ MaxInt \in Nat \ {0}

VARIABLE theo_price_

FUTURE == "FUTURE"
ETF    == "ETF"

CInt == -MaxInt - 1 .. MaxInt

(* Signed overflow is undefined; the sum of two ints the build computes is  *)
(* the two's complement one.                                                *)
WrapSum(n) ==
  IF n > MaxInt THEN n - 2 * (MaxInt + 1)
  ELSE IF n < -MaxInt - 1 THEN n + 2 * (MaxInt + 1) ELSE n

(* C++ division truncates towards zero, \div rounds down. *)
TruncDiv(n, d) == IF n >= 0 THEN n \div d ELSE -((-n) \div d)

(* Mutant: the division by two is missing. *)
MidpointUnhalved(ask, bid) == TruncDiv(WrapSum(ask + bid), Tick) * Tick

(* Mutant: the parentheses around the sum are missing. *)
MidpointPrecedence(ask, bid) ==
  TruncDiv(WrapSum(ask + TruncDiv(bid, 2)), Tick) * Tick

Midpoint(ask, bid) == TruncDiv(TruncDiv(WrapSum(ask + bid), 2), Tick) * Tick

IsPriced(book) ==
  /\ book.instrument = FUTURE
  /\ book.ask_prices # << >>
  /\ book.bid_prices # << >>

(* FutureMidpoint() in main.cpp value-initialises the object, and its       *)
(* constructor is not user-provided: theo_price_ starts at zero.            *)
PricingInit == theo_price_ = 0

model_onOrderBookUpdate(book) ==
  theo_price_' = IF IsPriced(book)
                 THEN Midpoint(book.ask_prices[1], book.bid_prices[1])
                 ELSE theo_price_
=============================================================================

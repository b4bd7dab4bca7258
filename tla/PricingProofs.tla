---------------------------- MODULE PricingProofs ----------------------------
(***************************************************************************)
(* Proofs about Pricing for every tick, edge and width of int.             *)
(***************************************************************************)
EXTENDS Pricing, TLAPS

(* C++ division rounds towards zero and loses less than the divisor. *)
LEMMA TruncDivBounds ==
  ASSUME NEW n \in Int, NEW d \in Nat \ {0}
  PROVE  /\ TruncDiv(n, d) \in Int
         /\ n >= 0 => /\ 0 <= TruncDiv(n, d) * d /\ TruncDiv(n, d) * d <= n
                      /\ n < TruncDiv(n, d) * d + d
         /\ n < 0  => /\ n <= TruncDiv(n, d) * d /\ TruncDiv(n, d) * d <= 0
                      /\ TruncDiv(n, d) * d - d < n
<1>1. \A m \in Nat : /\ m \div d \in Nat /\ (m \div d) * d <= m /\ m < (m \div d) * d + d
                     /\ 0 <= (m \div d) * d
  OBVIOUS
<1>2. CASE n >= 0
  BY <1>1, <1>2 DEF TruncDiv
<1>3. CASE n < 0
  <2> DEFINE k == (-n) \div d
  <2>1. k \in Nat /\ k * d <= -n /\ -n < k * d + d /\ 0 <= k * d
    BY <1>1, <1>3
  <2>2. TruncDiv(n, d) = -k
    BY <1>3 DEF TruncDiv
  <2> HIDE DEF k
  <2>3. (-k) * d = -(k * d) /\ k * d \in Int
    BY <2>1
  <2> QED BY <1>3, <2>1, <2>2, <2>3
<1> QED BY <1>2, <1>3

(* The sum the build computes is an int again. *)
LEMMA WrapSumRange ==
  ASSUME NEW a \in CInt, NEW b \in CInt
  PROVE  /\ WrapSum(a + b) \in CInt
         /\ a + b \in CInt => WrapSum(a + b) = a + b
BY PricingAssumption DEF CInt, WrapSum

(* Where the midpoint lies, s being the sum as computed: at most half of it *)
(* from zero, and less than a tick away from the exact half.                *)
LEMMA MidpointBounds ==
  ASSUME NEW ask \in CInt, NEW bid \in CInt
  PROVE  LET s == WrapSum(ask + bid)
             m == Midpoint(ask, bid)
         IN  /\ m \in Int
             /\ s >= 0 => 0 <= m /\ 2 * m <= s /\ s < 2 * m + 2 * Tick
             /\ s < 0  => m <= 0 /\ s <= 2 * m /\ 2 * m - 2 * Tick < s
<1> DEFINE s == WrapSum(ask + bid)
           h == TruncDiv(s, 2)
           t == TruncDiv(h, Tick)
<1>1. s \in Int
  BY WrapSumRange, PricingAssumption DEF CInt
<1>2. Tick \in Nat \ {0} /\ 2 \in Nat \ {0}
  BY PricingAssumption
<1> HIDE DEF s
<1>3. /\ h \in Int
      /\ s >= 0 => 0 <= h * 2 /\ h * 2 <= s /\ s < h * 2 + 2
      /\ s < 0  => s <= h * 2 /\ h * 2 <= 0 /\ h * 2 - 2 < s
  BY <1>1, <1>2, TruncDivBounds
<1> HIDE DEF h
<1>4. /\ t \in Int
      /\ h >= 0 => 0 <= t * Tick /\ t * Tick <= h /\ h < t * Tick + Tick
      /\ h < 0  => h <= t * Tick /\ t * Tick <= 0 /\ t * Tick - Tick < h
  BY <1>2, <1>3, TruncDivBounds
<1> HIDE DEF t
<1>5. t * Tick \in Int
  BY <1>2, <1>4
<1>6. Midpoint(ask, bid) = t * Tick
  BY DEF Midpoint, s, h, t
<1> DEFINE m == t * Tick
<1> HIDE DEF m
<1>7. /\ m \in Int
      /\ h >= 0 => 0 <= m /\ m <= h /\ h < m + Tick
      /\ h < 0  => h <= m /\ m <= 0 /\ m - Tick < h
  BY <1>4, <1>5 DEF m
<1>8. /\ s >= 0 => 0 <= m /\ 2 * m <= s /\ s < 2 * m + 2 * Tick
      /\ s < 0  => m <= 0 /\ s <= 2 * m /\ 2 * m - 2 * Tick < s
  BY <1>1, <1>2, <1>3, <1>7
<1> QED BY <1>6, <1>7, <1>8 DEF m, s

(* The theoretical price is the midpoint of the market it was computed from. *)
TheoIsMidpoint == market \in [ask : CInt, bid : CInt]
                  /\ theo_price_ = Midpoint(market.ask, market.bid)

(* Every message that moves the market recomputes the theoretical price from it. *)
LEMMA AlwaysMidpoint == Spec => []TheoIsMidpoint
<1>1. Init => TheoIsMidpoint
  <2> SUFFICES ASSUME Init PROVE TheoIsMidpoint
    OBVIOUS
  <2>1. 0 \in CInt
    BY PricingAssumption DEF CInt
  <2>2. WrapSum(0 + 0) = 0
    BY <2>1, WrapSumRange
  <2>3. Midpoint(0, 0) \in Int /\ 0 <= Midpoint(0, 0) /\ 2 * Midpoint(0, 0) <= 0
    BY <2>1, <2>2, MidpointBounds
  <2> QED BY <2>1, <2>3 DEF Init, PricingInit, NoMarket, TheoIsMidpoint
<1>2. TheoIsMidpoint /\ [Next]_vars => TheoIsMidpoint'
  <2> SUFFICES ASSUME TheoIsMidpoint, [Next]_vars PROVE TheoIsMidpoint'
    OBVIOUS
  <2>1. ASSUME NEW book \in Books, Update(book) PROVE TheoIsMidpoint'
    <3>1. CASE IsPriced(book)
      BY <2>1, <3>1, QuotingAssumption DEF Update, model_onOrderBookUpdate, TheoIsMidpoint
    <3>2. CASE ~IsPriced(book)
      BY <2>1, <3>2 DEF Update, model_onOrderBookUpdate, TheoIsMidpoint
    <3> QED BY <3>1, <3>2
  <2>2. CASE UNCHANGED vars
    BY <2>2 DEF vars, TheoIsMidpoint
  <2> QED BY <2>1, <2>2 DEF Next
<1> QED BY <1>1, <1>2, PTL DEF Spec

(* For every width of int, tick and edge with 2 * Edge < MaxInt: the prices *)
(* AutoTrader quotes never overflow, whatever the books hold.               *)
THEOREM QuotesAlwaysFit == Spec => []QuotesFitInt
<1>1. TheoIsMidpoint => QuotesFitInt
  <2> SUFFICES ASSUME TheoIsMidpoint PROVE QuotesFitInt
    OBVIOUS
  <2> DEFINE s == WrapSum(market.ask + market.bid)
  <2>1. /\ market.ask \in CInt /\ market.bid \in CInt
        /\ theo_price_ = Midpoint(market.ask, market.bid)
    BY DEF TheoIsMidpoint
  <2>2. /\ s \in CInt /\ theo_price_ \in Int
        /\ s >= 0 => 0 <= theo_price_ /\ 2 * theo_price_ <= s
        /\ s < 0  => theo_price_ <= 0 /\ s <= 2 * theo_price_
    BY <2>1, WrapSumRange, MidpointBounds
  <2> HIDE DEF s
  <2> QED BY <2>2, PricingAssumption, QuotingAssumption
          DEF CInt, QuotesFitInt, bid_price, ask_price
<1> QED BY <1>1, AlwaysMidpoint, PTL

(* As long as ask + bid does not overflow, an edge of at least a tick keeps *)
(* both quotes outside the market they were computed from.                  *)
THEOREM QuotesAlwaysOutside == Spec => []QuotesStayOutside
<1>1. TheoIsMidpoint => QuotesStayOutside
  <2> SUFFICES ASSUME TheoIsMidpoint, market.bid <= market.ask,
                      market.ask + market.bid \in CInt
               PROVE  bid_price < market.ask /\ ask_price > market.bid
    BY DEF QuotesStayOutside
  <2> DEFINE s == market.ask + market.bid
  <2>1. /\ market.ask \in CInt /\ market.bid \in CInt
        /\ theo_price_ = Midpoint(market.ask, market.bid)
    BY DEF TheoIsMidpoint
  <2>2. WrapSum(s) = s
    BY <2>1, WrapSumRange
  <2>3. /\ theo_price_ \in Int
        /\ s >= 0 => 2 * theo_price_ <= s /\ s < 2 * theo_price_ + 2 * Tick
        /\ s < 0  => s <= 2 * theo_price_ /\ 2 * theo_price_ - 2 * Tick < s
    BY <2>1, <2>2, MidpointBounds
  <2>4. market.ask \in Int /\ market.bid \in Int
    BY <2>1, PricingAssumption DEF CInt
  <2> QED BY <2>3, <2>4, PricingAssumption, QuotingAssumption DEF bid_price, ask_price
<1> QED BY <1>1, AlwaysMidpoint, PTL
=============================================================================

------------------------ MODULE OrderPlanningProofs ------------------------
(* Theorems about the arithmetic of OrderPlanning, for all prices,         *)
(* quantities, increments and limits.                                      *)
EXTENDS OrderPlanning, TLAPS

-----------------------------------------------------------------------------
(* Rounding *)

LEMMA FloorRounds ==
    ASSUME NEW v \in Int, NEW s \in Nat \ {0}
    PROVE  /\ FloorTo(v, s) \in Int
           /\ FloorTo(v, s) <= v
           /\ v < FloorTo(v, s) + s
           /\ \E k \in Int : FloorTo(v, s) = k * s
<1>1. v \div s \in Int
    OBVIOUS
<1>2. (v \div s) * s <= v /\ v < (v \div s) * s + s
    OBVIOUS
<1> DEFINE k == v \div s
<1>3. k * s \in Int
    BY <1>1
<1>4. FloorTo(v, s) = k * s
    BY DEF FloorTo
<1>5. k \in Int /\ k * s <= v /\ v < k * s + s
    BY <1>1, <1>2
<1> HIDE DEF k
<1> QED
    BY <1>3, <1>4, <1>5

LEMMA CeilRounds ==
    ASSUME NEW v \in Int, NEW s \in Nat \ {0}
    PROVE  /\ CeilTo(v, s) \in Int
           /\ v <= CeilTo(v, s)
           /\ CeilTo(v, s) < v + s
           /\ \E k \in Int : CeilTo(v, s) = k * s
<1> DEFINE w == v + s - 1
<1>1. FloorTo(w, s) = CeilTo(v, s)
    BY DEF FloorTo, CeilTo
<1>2. w \in Int
    OBVIOUS
<1>3. /\ FloorTo(w, s) \in Int
      /\ FloorTo(w, s) <= w
      /\ w < FloorTo(w, s) + s
      /\ \E k \in Int : FloorTo(w, s) = k * s
    BY <1>2, FloorRounds
<1> QED
    BY <1>1, <1>3

LEMMA MultiplesAreOnTheGrid ==
    ASSUME NEW k \in Int, NEW s \in Nat \ {0}
    PROVE  (k * s) % s = 0
OBVIOUS

-----------------------------------------------------------------------------
(* The maker's price *)

\* A two-sided book of integer levels, as OrderBookSnapshot accepts it.
BookType(b) ==
    /\ b.bids \in Seq([price : Nat \ {0}, quantity : Nat])
    /\ b.asks \in Seq([price : Nat \ {0}, quantity : Nat])
    /\ TwoSided(b)
    /\ ValidBook(b)

LEMMA BestPrices ==
    ASSUME NEW b, BookType(b)
    PROVE  /\ BestBid(b).price \in Nat \ {0} /\ BestBid(b).quantity \in Nat
           /\ BestAsk(b).price \in Nat \ {0} /\ BestAsk(b).quantity \in Nat
           /\ BestBid(b).price < BestAsk(b).price
<1> DEFINE Level == [price : Nat \ {0}, quantity : Nat]
<1>1. \A s \in Seq(Level) : s # <<>> => s[1] \in Level
    <2> HIDE DEF Level
    <2> QED
        OBVIOUS
<1>2. b.bids[1] \in Level
    BY <1>1 DEF BookType, TwoSided
<1>3. b.asks[1] \in Level
    BY <1>1 DEF BookType, TwoSided
<1>4. b.bids[1].price < b.asks[1].price
    BY DEF BookType, TwoSided, ValidBook
<1> QED
    BY <1>2, <1>3, <1>4 DEF BestBid, BestAsk

(* A post-only price is on the grid, never on the other side's best price, *)
(* and rounding only moves it away from there (SymbolNormalizer.maker_price).*)
THEOREM MakerPriceRests ==
    ASSUME NEW desired \in Int, NEW side \in Sides, NEW book, BookType(book),
           NEW rules, rules.priceIncrement \in Nat \ {0}
    PROVE  LET price == MakerPrice(desired, side, book, rules)
           IN /\ price \in Int
              /\ price % rules.priceIncrement = 0
              /\ side = "BUY" => price < BestAsk(book).price /\ price <= desired
              /\ side = "SELL" => price > BestBid(book).price /\ price >= desired
<1> DEFINE tick == rules.priceIncrement
           ask == BestAsk(book).price
           bid == BestBid(book).price
<1>1. bid \in Int /\ ask \in Int /\ tick \in Nat \ {0}
    BY BestPrices
<1> HIDE DEF tick, ask, bid
<1>2. CASE side = "BUY"
    <2> DEFINE a == FloorTo(desired, tick)
               b == FloorTo(ask - tick, tick)
    <2>1. ask - tick \in Int
        BY <1>1
    <2>2. a \in Int /\ a <= desired /\ \E k \in Int : a = k * tick
        BY <1>1, FloorRounds
    <2>3. b \in Int /\ b <= ask - tick /\ \E k \in Int : b = k * tick
        BY <1>1, <2>1, FloorRounds
    <2>4. MakerPrice(desired, side, book, rules) = Least(a, b)
        BY <1>2 DEF MakerPrice, tick, ask
    <2>5. a % tick = 0 /\ b % tick = 0
        BY <1>1, <2>2, <2>3, MultiplesAreOnTheGrid
    <2> HIDE DEF a, b
    <2>6. Least(a, b) \in {a, b} /\ Least(a, b) <= a /\ Least(a, b) <= b
        BY <2>2, <2>3 DEF Least
    <2>7. Least(a, b) <= desired /\ Least(a, b) < ask
        BY <1>1, <2>2, <2>3, <2>6
    <2> QED
        BY <1>2, <2>2, <2>3, <2>4, <2>5, <2>6, <2>7 DEF tick, ask
<1>3. CASE side = "SELL"
    <2> DEFINE a == CeilTo(desired, tick)
               b == CeilTo(bid + tick, tick)
    <2>1. bid + tick \in Int
        BY <1>1
    <2>2. a \in Int /\ desired <= a /\ \E k \in Int : a = k * tick
        BY <1>1, CeilRounds
    <2>3. b \in Int /\ bid + tick <= b /\ \E k \in Int : b = k * tick
        BY <1>1, <2>1, CeilRounds
    <2>4. MakerPrice(desired, side, book, rules) = Greatest(a, b)
        BY <1>3 DEF MakerPrice, tick, bid
    <2>5. a % tick = 0 /\ b % tick = 0
        BY <1>1, <2>2, <2>3, MultiplesAreOnTheGrid
    <2> HIDE DEF a, b
    <2>6. Greatest(a, b) \in {a, b} /\ Greatest(a, b) >= a /\ Greatest(a, b) >= b
        BY <2>2, <2>3 DEF Greatest
    <2>7. Greatest(a, b) >= desired /\ Greatest(a, b) > bid
        BY <1>1, <2>2, <2>3, <2>6
    <2> QED
        BY <1>3, <2>2, <2>3, <2>4, <2>5, <2>6, <2>7 DEF tick, bid
<1> QED
    BY <1>2, <1>3 DEF Sides

-----------------------------------------------------------------------------
(* The maker's fair value *)

LEMMA MicropriceIsInside ==
    ASSUME NEW book, BookType(book)
    PROVE  LET fair == Microprice(book)
           IN /\ fair.n \in Nat /\ fair.d \in Nat \ {0}
              /\ BestBid(book).price * fair.d <= fair.n
              /\ fair.n <= BestAsk(book).price * fair.d
<1> DEFINE bid == BestBid(book).price  bq == BestBid(book).quantity
           ask == BestAsk(book).price  aq == BestAsk(book).quantity
           fair == Microprice(book)
<1>1. bid \in Nat \ {0} /\ ask \in Nat \ {0} /\ bid < ask /\ bq \in Nat /\ aq \in Nat
    BY BestPrices
<1>2. CASE bq + aq = 0
    <2>1. fair.n = bid + ask /\ fair.d = 2
        BY <1>2 DEF Microprice, Ratio
    <2> HIDE DEF bid, ask, bq, aq, fair
    <2> QED
        BY <1>1, <2>1 DEF bid, ask, fair
<1>3. CASE bq + aq # 0
    <2>1. fair.n = ask * bq + bid * aq /\ fair.d = bq + aq
        BY <1>3 DEF Microprice, Ratio
    <2> HIDE DEF bid, ask, bq, aq, fair
    <2>2. /\ ask * bq \in Nat /\ bid * aq \in Nat /\ bid * bq \in Nat /\ ask * aq \in Nat
          /\ bid * (bq + aq) = bid * bq + bid * aq
          /\ ask * (bq + aq) = ask * bq + ask * aq
        BY <1>1
    <2>3. bid * bq <= ask * bq /\ bid * aq <= ask * aq
        BY <1>1
    <2>4. /\ fair.n \in Nat /\ fair.d \in Nat \ {0}
          /\ bid * fair.d <= fair.n /\ fair.n <= ask * fair.d
        BY <1>1, <1>3, <2>1, <2>2, <2>3
    <2> QED
        BY <2>4 DEF bid, ask, fair
<1> QED
    BY <1>2, <1>3

\* Whole steps of size s below a distance do not exceed it.
LEMMA StepsFitDistance ==
    ASSUME NEW distance \in Int, NEW s \in Nat \ {0}, NEW t \in Int,
           distance >= 0, t <= distance \div s
    PROVE  t * s <= distance
<1>1. distance \div s \in Int /\ (distance \div s) * s <= distance
    OBVIOUS
<1>2. \A a, b \in Int : a <= b => a * s <= b * s
    OBVIOUS
<1> QED
    BY <1>1, <1>2

LEMMA AppliedTicksAreBounded ==
    ASSUME NEW book, BookType(book), NEW side \in Sides,
           NEW tick \in Nat \ {0}, NEW requested \in Int
    PROVE  LET fair == Microprice(book)
               distance == IF side = "BUY" THEN fair.n - BestBid(book).price * fair.d
                                           ELSE BestAsk(book).price * fair.d - fair.n
               ticks == AppliedTicks(requested, book, side, tick)
           IN /\ ticks \in Int
              /\ distance \in Nat
              /\ ticks * (fair.d * tick) <= distance
<1> DEFINE fair == Microprice(book)
           bid == BestBid(book).price
           ask == BestAsk(book).price
           distance == IF side = "BUY" THEN fair.n - bid * fair.d ELSE ask * fair.d - fair.n
           ticks == AppliedTicks(requested, book, side, tick)
           available == AvailableTicks(book, tick)
           limit == FairValueTicks(book, side, tick, fair)
           step == fair.d * tick
<1>1. /\ fair.n \in Nat /\ fair.d \in Nat \ {0} /\ bid * fair.d <= fair.n /\ fair.n <= ask * fair.d
      /\ bid \in Nat \ {0} /\ ask \in Nat \ {0}
    BY BestPrices, MicropriceIsInside
<1>2. ticks = Least(requested, Least(available, limit))
    BY DEF AppliedTicks
<1>3. available \in Int
    <2>1. ask - bid + tick - 1 \in Int
        BY <1>1
    <2>2. (ask - bid + tick - 1) \div tick \in Int
        BY <2>1
    <2>3. available = Greatest(0, ((ask - bid + tick - 1) \div tick) - 1)
        BY DEF AvailableTicks
    <2> QED
        BY <2>2, <2>3 DEF Greatest
<1>4. limit = IF distance <= 0 THEN 0 ELSE distance \div step
    BY DEF FairValueTicks
<1> HIDE DEF bid, ask, available, limit
<1>5. distance \in Nat
    <2> HIDE DEF fair
    <2>1. bid * fair.d \in Nat /\ ask * fair.d \in Nat
        BY <1>1
    <2> QED
        BY <1>1, <2>1
<1>6. step \in Nat \ {0}
    <2> HIDE DEF fair
    <2> QED
        BY <1>1
<1> HIDE DEF fair, distance, step, ticks
<1>7. limit \in Int /\ limit <= distance \div step
    <2>1. CASE distance = 0
        <3>1. limit = 0 /\ distance \div step = 0
            BY <2>1, <1>4, <1>6
        <3> QED
            BY <3>1
    <2>2. CASE distance > 0
        BY <2>2, <1>4, <1>5, <1>6
    <2> QED
        BY <1>5, <2>1, <2>2
<1>8. ticks \in Int /\ ticks <= limit
    BY <1>2, <1>3, <1>7 DEF Least
<1>9. distance \div step \in Int
    BY <1>5, <1>6
<1>10. ticks <= distance \div step
    BY <1>7, <1>8, <1>9
<1>11. ticks * step <= distance
    BY <1>5, <1>6, <1>8, <1>10, StepsFitDistance
<1> QED
    BY <1>5, <1>8, <1>11 DEF fair, distance, step, ticks, bid, ask

(* Whatever the pressure of the book asks for, a quote never crosses the   *)
(* fair value between the queues (MakerPricePolicy.quote).                 *)
THEOREM QuoteKeepsFairValue ==
    ASSUME NEW book, BookType(book), NEW side \in Sides,
           NEW tick \in Nat \ {0}, NEW requested \in Int
    PROVE  LET fair == Microprice(book)
               quote == QuotedPrice(AppliedTicks(requested, book, side, tick), book, side, tick)
           IN /\ quote \in Int
              /\ side = "BUY" => quote * fair.d <= fair.n
              /\ side = "SELL" => quote * fair.d >= fair.n
<1> DEFINE fair == Microprice(book)
           ticks == AppliedTicks(requested, book, side, tick)
           bid == BestBid(book).price
           ask == BestAsk(book).price
           d == fair.d
           n == fair.n
<1>1. ticks \in Int /\ bid \in Int /\ ask \in Int /\ d \in Nat \ {0} /\ n \in Nat
    BY BestPrices, MicropriceIsInside, AppliedTicksAreBounded
<1>2. CASE side = "BUY"
    <2>1. QuotedPrice(ticks, book, side, tick) = bid + tick * ticks
        BY <1>2 DEF QuotedPrice
    <2>2. ticks * (d * tick) <= n - bid * d
        BY <1>2, AppliedTicksAreBounded
    <2> HIDE DEF fair, ticks, bid, ask, d, n
    <2>3. (bid + tick * ticks) * d = bid * d + ticks * (d * tick)
        BY <1>1
    <2>4. bid * d \in Int /\ ticks * (d * tick) \in Int /\ bid + tick * ticks \in Int
        BY <1>1
    <2>5. (bid + tick * ticks) * d <= n
        BY <1>1, <2>2, <2>3, <2>4
    <2> QED
        BY <1>2, <2>1, <2>4, <2>5 DEF fair, ticks, d, n
<1>3. CASE side = "SELL"
    <2>1. QuotedPrice(ticks, book, side, tick) = ask - tick * ticks
        BY <1>3 DEF QuotedPrice
    <2>2. ticks * (d * tick) <= ask * d - n
        BY <1>3, AppliedTicksAreBounded
    <2> HIDE DEF fair, ticks, bid, ask, d, n
    <2>3. (ask - tick * ticks) * d = ask * d - ticks * (d * tick)
        BY <1>1
    <2>4. ask * d \in Int /\ ticks * (d * tick) \in Int /\ ask - tick * ticks \in Int
        BY <1>1
    <2>5. (ask - tick * ticks) * d >= n
        BY <1>1, <2>2, <2>3, <2>4
    <2> QED
        BY <1>3, <2>1, <2>4, <2>5 DEF fair, ticks, d, n
<1> QED
    BY <1>2, <1>3 DEF Sides

(* The price that is sent: the normalized quote rests on the book, on the  *)
(* grid, and has not crossed the fair value.                               *)
THEOREM MakerIsSafe ==
    ASSUME NEW book, BookType(book), NEW side \in Sides, NEW requested \in Int,
           NEW rules, rules.priceIncrement \in Nat \ {0}
    PROVE  LET fair == Microprice(book)
               quote == QuotedPrice(AppliedTicks(requested, book, side, rules.priceIncrement),
                                    book, side, rules.priceIncrement)
               price == MakerPrice(quote, side, book, rules)
           IN /\ price \in Int
              /\ price % rules.priceIncrement = 0
              /\ side = "BUY" => price < BestAsk(book).price /\ price * fair.d <= fair.n
              /\ side = "SELL" => price > BestBid(book).price /\ price * fair.d >= fair.n
<1> DEFINE fair == Microprice(book)
           quote == QuotedPrice(AppliedTicks(requested, book, side, rules.priceIncrement),
                                book, side, rules.priceIncrement)
           price == MakerPrice(quote, side, book, rules)
<1>1. /\ quote \in Int
      /\ side = "BUY" => quote * fair.d <= fair.n
      /\ side = "SELL" => quote * fair.d >= fair.n
    BY QuoteKeepsFairValue
<1>2. fair.n \in Nat /\ fair.d \in Nat \ {0}
    BY MicropriceIsInside
<1> HIDE DEF quote, fair
<1>3. /\ price \in Int
      /\ price % rules.priceIncrement = 0
      /\ side = "BUY" => price < BestAsk(book).price /\ price <= quote
      /\ side = "SELL" => price > BestBid(book).price /\ price >= quote
    BY <1>1, MakerPriceRests
<1> HIDE DEF price
<1>4. \A a, b \in Int, d \in Nat \ {0} : a <= b => a * d <= b * d
    OBVIOUS
<1>5. price * fair.d \in Int /\ quote * fair.d \in Int
    BY <1>1, <1>2, <1>3
<1>6. side = "BUY" => price * fair.d <= fair.n
    <2>1. price <= quote => price * fair.d <= quote * fair.d
        BY <1>1, <1>2, <1>3, <1>4
    <2> QED
        BY <1>1, <1>2, <1>3, <1>5, <2>1
<1>7. side = "SELL" => price * fair.d >= fair.n
    <2>1. quote <= price => quote * fair.d <= price * fair.d
        BY <1>1, <1>2, <1>3, <1>4
    <2> QED
        BY <1>1, <1>2, <1>3, <1>5, <2>1
<1> QED
    BY <1>3, <1>6, <1>7 DEF fair, quote, price

-----------------------------------------------------------------------------
(* Quantities and capital *)

\* A raw quantity, and the filters of a market.
RawType(raw) == raw.n \in Int /\ raw.d \in Nat \ {0}

(* An accepted quantity is a positive multiple of the increment, between   *)
(* the market's limits, and never more than was asked for                  *)
(* (SymbolNormalizer.limit_quantity and market_quantity).                  *)
THEOREM QuantityKeepsFilters ==
    ASSUME NEW raw, RawType(raw), NEW increment \in Nat \ {0}, NEW minimum \in Nat,
           NEW maximum \in Nat \cup {None},
           QuantityAccepted(raw, increment, minimum, maximum)
    PROVE  LET q == Quantity(raw, increment, maximum)
           IN /\ q \in Nat \ {0}
              /\ q % increment = 0
              /\ minimum <= q
              /\ maximum # None => q <= maximum
              /\ q * raw.d <= raw.n
<1> DEFINE step == raw.d * increment
           cut == (raw.n \div step) * increment
           top == FloorTo(maximum, increment)
           q == Quantity(raw, increment, maximum)
<1>1. raw.n \in Nat \ {0} /\ raw.d \in Nat \ {0} /\ step \in Nat \ {0}
    BY DEF RawType, QuantityAccepted
<1>2. q > 0 /\ q >= minimum
    BY DEF QuantityAccepted
<1>3. q = IF maximum = None THEN cut ELSE Least(cut, top)
    BY DEF Quantity
<1>4. cut \in Int /\ cut % increment = 0 /\ cut * raw.d <= raw.n
    <2> DEFINE k == raw.n \div step
    <2>1. k \in Int /\ k * step <= raw.n
        <3> HIDE DEF step
        <3> QED
            BY <1>1
    <2> HIDE DEF k
    <2>2. (k * increment) * raw.d = k * step /\ k * increment \in Int
        BY <1>1, <2>1
    <2>3. (k * increment) % increment = 0
        BY <2>1, MultiplesAreOnTheGrid
    <2> QED
        BY <2>1, <2>2, <2>3 DEF k
<1> HIDE DEF cut, q, step, top
<1>5. CASE maximum = None
    BY <1>2, <1>3, <1>4, <1>5 DEF q
<1>6. CASE maximum # None
    <2>1. maximum \in Int
        BY <1>6
    <2>2. top \in Int /\ top <= maximum /\ \E k \in Int : top = k * increment
        BY <2>1, FloorRounds DEF top
    <2>3. top % increment = 0
        BY <2>2, MultiplesAreOnTheGrid
    <2>4. q \in {cut, top} /\ q <= cut /\ q <= top
        BY <1>3, <1>4, <1>6, <2>2 DEF Least
    <2>5. q \in Int /\ q % increment = 0 /\ q <= maximum
        BY <1>4, <2>1, <2>2, <2>3, <2>4
    <2>6. q * raw.d <= raw.n
        <3>1. \A a, b \in Int, d \in Nat \ {0} : a <= b => a * d <= b * d
            OBVIOUS
        <3>2. q * raw.d <= cut * raw.d
            BY <1>1, <1>4, <2>4, <2>5, <3>1
        <3>3. q * raw.d \in Int /\ cut * raw.d \in Int
            BY <1>1, <1>4, <2>5
        <3> QED
            BY <1>1, <1>4, <3>2, <3>3
    <2> QED
        BY <1>2, <2>5, <2>6 DEF q
<1> QED
    BY <1>5, <1>6

(* An accepted base quantity fits the capital of the allocation: bought at *)
(* the ask and margined at the bid over the leverage it costs no more than *)
(* was deployed (FundingCapitalAllocator, both order kinds).               *)
THEOREM LegsFitCapital ==
    ASSUME NEW capital \in Nat \ {0}, NEW leverage \in Nat \ {0},
           NEW spotAsk \in Nat \ {0}, NEW perpetualBid \in Nat \ {0},
           NEW increment \in Nat \ {0}, NEW minimum \in Nat, NEW maximum \in Nat \cup {None},
           QuantityAccepted(BaseQuantity(capital, leverage, spotAsk, perpetualBid),
                            increment, minimum, maximum)
    PROVE  LET q == Quantity(BaseQuantity(capital, leverage, spotAsk, perpetualBid),
                             increment, maximum)
           IN /\ q \in Nat \ {0}
              /\ q * (spotAsk * leverage + perpetualBid) <= capital * leverage
<1> DEFINE raw == BaseQuantity(capital, leverage, spotAsk, perpetualBid)
<1>1. raw.n = capital * leverage /\ raw.d = spotAsk * leverage + perpetualBid
    BY DEF BaseQuantity, Ratio
<1>2. RawType(raw)
    BY <1>1 DEF RawType
<1> HIDE DEF raw
<1>3. QuantityAccepted(raw, increment, minimum, maximum)
    BY DEF raw
<1>4. /\ Quantity(raw, increment, maximum) \in Nat \ {0}
      /\ Quantity(raw, increment, maximum) * raw.d <= raw.n
    BY <1>2, <1>3, QuantityKeepsFilters
<1> QED
    BY <1>1, <1>4 DEF raw

\* A request as OrderPlanner.plan gets it.
RequestType(r) ==
    /\ BookType(r.book)
    /\ r.side \in Sides
    /\ r.rules.priceIncrement \in Nat \ {0}
    /\ r.rules.quantityIncrement \in Nat \ {0}
    /\ r.rules.minQuantity \in Nat
    /\ r.rules.maxQuantity \in Nat \cup {None}
    /\ r.available \in Nat
    /\ r.budget.requested \in Nat /\ r.budget.reserve \in Nat
    /\ r.budget.fraction.n \in Nat /\ r.budget.fraction.d \in Nat
    /\ ValidBudget(r.budget)
    /\ RequestedTicks(r.book, r.side, r.parameters) \in Int

LEMMA ApprovedCapitalIsLimited ==
    ASSUME NEW available \in Nat, NEW budget,
           budget.requested \in Nat, budget.reserve \in Nat,
           budget.fraction.n \in Nat, budget.fraction.d \in Nat, ValidBudget(budget)
    PROVE  LET c == ApprovedCapital(available, budget)
           IN /\ c.n \in Nat /\ c.d \in Nat \ {0} /\ c.d = budget.fraction.d
              /\ c.n <= budget.requested * c.d
              /\ c.n <= Spendable(available, budget) * budget.fraction.n
<1> DEFINE d == budget.fraction.d
           m == budget.fraction.n
           s == Spendable(available, budget)
           a == budget.requested * d
           b == s * m
<1>1. d \in Nat \ {0} /\ m \in Nat /\ s \in Nat
    BY DEF ValidBudget, Spendable, Greatest
<1>2. ApprovedCapital(available, budget) = [n |-> Least(a, b), d |-> d]
    BY DEF ApprovedCapital, Ratio
<1> HIDE DEF d, m, s
<1>3. a \in Nat /\ b \in Nat
    BY <1>1
<1> HIDE DEF a, b
<1>4. Least(a, b) \in Nat /\ Least(a, b) <= a /\ Least(a, b) <= b
    BY <1>3 DEF Least
<1> QED
    BY <1>1, <1>2, <1>4 DEF a, b, d, m, s

(* An accepted plan rests on the book and keeps to the budget: its value is *)
(* no more than the requested capital, and no more than the given fraction *)
(* of what the account can spend above its reserve (OrderPlanner.plan).    *)
THEOREM PlanFitsBudget ==
    ASSUME NEW r, RequestType(r), PlanAccepted(r)
    PROVE  LET value == PlannedPrice(r) * PlannedQuantity(r)
               m == r.budget.fraction.n
               d == r.budget.fraction.d
           IN /\ PlannedPrice(r) \in Nat \ {0} /\ PlannedQuantity(r) \in Nat \ {0}
              /\ value * d <= r.budget.requested * d
              /\ value * d <= Spendable(r.available, r.budget) * m
<1> DEFINE c == ApprovedCapital(r.available, r.budget)
           desired == Quote(r.book, r.side, r.rules, r.parameters)
           price == PlannedPrice(r)
           raw == Ratio(c.n, c.d * price)
           q == PlannedQuantity(r)
           d == r.budget.fraction.d
           limit == Spendable(r.available, r.budget) * r.budget.fraction.n
<1>1. /\ c.n \in Nat /\ c.d \in Nat \ {0} /\ c.d = d
      /\ c.n <= r.budget.requested * d /\ c.n <= limit
    BY ApprovedCapitalIsLimited DEF RequestType
<1>2. price \in Nat \ {0}
    <2> DEFINE ticks == RequestedTicks(r.book, r.side, r.parameters)
               tick == r.rules.priceIncrement
    <2>1. desired = QuotedPrice(AppliedTicks(ticks, r.book, r.side, tick), r.book, r.side, tick)
        BY DEF Quote
    <2>2. desired \in Int
        <3> HIDE DEF desired, ticks, tick
        <3>1. BookType(r.book) /\ r.side \in Sides /\ tick \in Nat \ {0} /\ ticks \in Int
            BY DEF RequestType, ticks, tick
        <3> QED
            BY <2>1, <3>1, QuoteKeepsFairValue
    <2> HIDE DEF desired
    <2>3. /\ price \in Int
          /\ r.side = "SELL" => price > BestBid(r.book).price
        BY <2>2, MakerPriceRests DEF RequestType, PlannedPrice, desired
    <2>4. r.side = "BUY" => price > 0
        BY DEF PlanAccepted, MakerPriceAccepted, PlannedPrice
    <2>5. BestBid(r.book).price \in Nat
        BY BestPrices DEF RequestType
    <2>6. r.side \in {"BUY", "SELL"}
        BY DEF RequestType, Sides
    <2> HIDE DEF price
    <2> QED
        BY <2>3, <2>4, <2>5, <2>6
<1>3. c.n > 0 /\ LimitQuantityAccepted(raw, r.rules)
    BY DEF PlanAccepted
<1>4. q = Quantity(raw, r.rules.quantityIncrement, r.rules.maxQuantity)
    BY DEF PlannedQuantity, LimitQuantity
<1>5. raw.n = c.n /\ raw.d = c.d * price
    BY DEF Ratio
<1> HIDE DEF c, price, raw, desired, d, limit, q
<1>6. RawType(raw)
    BY <1>1, <1>2, <1>5 DEF RawType
<1>7. q \in Nat \ {0} /\ q * raw.d <= raw.n
    <2>1. QuantityAccepted(raw, r.rules.quantityIncrement, r.rules.minQuantity,
                           r.rules.maxQuantity)
        BY <1>3 DEF LimitQuantityAccepted
    <2> QED
        BY <1>4, <1>6, <2>1, QuantityKeepsFilters DEF RequestType
<1>8. (price * q) * d <= c.n
    <2>1. (price * q) * d = q * (d * price)
        BY <1>1, <1>2, <1>7
    <2> QED
        BY <1>1, <1>5, <1>7, <2>1
<1>9. (price * q) * d \in Int /\ r.budget.requested * d \in Int /\ limit \in Int
    <2>1. r.budget.requested \in Nat /\ r.budget.fraction.n \in Nat
        BY DEF RequestType
    <2>2. Spendable(r.available, r.budget) \in Nat
        BY DEF RequestType, Spendable, Greatest
    <2> QED
        BY <1>1, <1>2, <1>7, <2>1, <2>2 DEF limit
<1> QED
    BY <1>1, <1>2, <1>7, <1>8, <1>9 DEF price, q, d, limit

-----------------------------------------------------------------------------
(* The risk check *)

(* An approved entry keeps to every limit: no part of the check shadows    *)
(* another, and what it takes from the account leaves the reserve.         *)
(* (PreTradeRiskCheck.evaluate, for an order that increases exposure.)     *)
THEOREM ApprovedEntryKeepsLimits ==
    ASSUME NEW notional \in Nat, NEW market, NEW context, NEW limits,
           context.increases = TRUE, context.gross \in Nat, context.instrument \in Nat,
           context.available \in Nat,
           context.required \in [n : Nat, d : Nat \ {0}], context.required # None,
           limits.maxOrder \in Nat \cup {None}, limits.maxGross \in Nat \cup {None},
           limits.maxInstrument \in Nat \cup {None},
           limits.minRemaining \in Nat,
           RiskApproved([notional |-> notional, market |-> market], context, limits)
    PROVE  LET used == context.required
           IN /\ limits.maxOrder # None => notional <= limits.maxOrder
              /\ limits.maxGross # None => context.gross + notional <= limits.maxGross
              /\ limits.maxInstrument # None =>
                     context.instrument + notional <= limits.maxInstrument
              /\ used.n + limits.minRemaining * used.d <= context.available * used.d
<1> DEFINE order == [notional |-> notional, market |-> market]
           used == context.required
<1>1. RequiredCapital(order, context) = used
    BY DEF RequiredCapital
<1>2. /\ Exposure(order, context, context.gross) = context.gross + notional
      /\ Exposure(order, context, context.instrument) = context.instrument + notional
    BY DEF Exposure, Greatest
<1>3. /\ WithinOrderNotional(order, limits)
      /\ WithinExposure(order, context, limits)
      /\ KeepsReserve(order, context, limits)
    BY DEF RiskApproved
<1>4. used.n \in Nat /\ used.d \in Nat
    OBVIOUS
<1>5. context.available * used.d - used.n >= limits.minRemaining * used.d
    BY <1>1, <1>3 DEF KeepsReserve
<1>6. context.available * used.d \in Nat /\ limits.minRemaining * used.d \in Nat
    BY <1>4
<1> HIDE DEF used
<1>7. used.n + limits.minRemaining * used.d <= context.available * used.d
    BY <1>4, <1>5, <1>6
<1> QED
    BY <1>2, <1>3, <1>7 DEF WithinOrderNotional, WithinExposure, used
=============================================================================

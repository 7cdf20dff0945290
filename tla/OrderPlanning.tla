--------------------------- MODULE OrderPlanning ---------------------------
(* The pure arithmetic between a strategy's capital and one order:         *)
(* engine/planning, engine/risk, the market data types of engine/domain    *)
(* and the funding strategy's allocation.  Every decimal of the code is an *)
(* integer count of one smallest unit, and a quotient the code keeps as a  *)
(* Decimal is a ratio [n, d] of such counts, so nothing is rounded that    *)
(* the code does not round.                                                *)
EXTENDS Integers, Sequences, SequencesExt

CONSTANT None   \* a limit the venue or the caller does not set

ASSUME NoneAssumption == None \notin Int

Ratio(n, d) == [n |-> n, d |-> d]

Least(a, b) == IF a <= b THEN a ELSE b

Greatest(a, b) == IF a >= b THEN a ELSE b

-----------------------------------------------------------------------------
(* Market data and symbol rules *)

Sides == {"BUY", "SELL"}

\* What OrderBookLevel and OrderBookSnapshot accept.
ValidLevel(l) == l.price > 0 /\ l.quantity >= 0

ValidBook(b) ==
    /\ \A i \in DOMAIN b.bids : ValidLevel(b.bids[i])
    /\ \A i \in DOMAIN b.asks : ValidLevel(b.asks[i])
    /\ \A i \in DOMAIN b.bids : i > 1 => b.bids[i].price <= b.bids[i - 1].price
    /\ \A i \in DOMAIN b.asks : i > 1 => b.asks[i].price >= b.asks[i - 1].price
    /\ (b.bids # <<>> /\ b.asks # <<>>) => b.bids[1].price < b.asks[1].price

TwoSided(b) == b.bids # <<>> /\ b.asks # <<>>

BestBid(b) == b.bids[1]

BestAsk(b) == b.asks[1]

\* The market order's own limits, which fall back to the general ones.
MarketIncrement(r) == IF r.marketIncrement = None THEN r.quantityIncrement
                                                  ELSE r.marketIncrement

MarketMinimum(r) == IF r.marketMinimum = None THEN r.minQuantity ELSE r.marketMinimum

MarketMaximum(r) == IF r.marketMaximum = None THEN r.maxQuantity ELSE r.marketMaximum

\* What SymbolRules accepts.
ValidRules(r) ==
    /\ r.priceIncrement > 0 /\ r.quantityIncrement > 0
    /\ r.minQuantity >= 0 /\ r.minNotional >= 0
    /\ r.maxQuantity # None => r.maxQuantity >= r.minQuantity
    /\ r.marketIncrement # None => r.marketIncrement > 0
    /\ r.marketMinimum # None => r.marketMinimum >= 0
    /\ MarketMaximum(r) # None => MarketMaximum(r) >= MarketMinimum(r)
    /\ r.maxNotional # None => r.maxNotional >= r.minNotional

-----------------------------------------------------------------------------
(* SymbolNormalizer *)

FloorTo(value, increment) == (value \div increment) * increment

CeilTo(value, increment) == ((value + increment - 1) \div increment) * increment

\* Mutant: rounded down for both sides.
MakerPriceFloored(desired, side, book, rules) == FloorTo(desired, rules.priceIncrement)

\* The post-only price nearest to the desired one: rounded away from the
\* other side of the book, and never on it.
MakerPrice(desired, side, book, rules) ==
    LET tick == rules.priceIncrement
    IN IF side = "BUY"
       THEN Least(FloorTo(desired, tick), FloorTo(BestAsk(book).price - tick, tick))
       ELSE Greatest(CeilTo(desired, tick), CeilTo(BestBid(book).price + tick, tick))

MakerPriceAccepted(desired, side, book, rules) ==
    /\ rules.tradingEnabled
    /\ desired > 0
    /\ TwoSided(book)
    /\ IF side = "BUY"
       THEN /\ MakerPrice(desired, side, book, rules) > 0
            /\ MakerPrice(desired, side, book, rules) < BestAsk(book).price
       ELSE MakerPrice(desired, side, book, rules) > BestBid(book).price

\* A raw quantity (a ratio) capped at the maximum and cut to the increment.
Quantity(raw, increment, maximum) ==
    LET cut == (raw.n \div (raw.d * increment)) * increment
    IN IF maximum = None THEN cut ELSE Least(cut, FloorTo(maximum, increment))

QuantityAccepted(raw, increment, minimum, maximum) ==
    /\ raw.n > 0
    /\ Quantity(raw, increment, maximum) > 0
    /\ Quantity(raw, increment, maximum) >= minimum

LimitQuantity(raw, r) == Quantity(raw, r.quantityIncrement, r.maxQuantity)

LimitQuantityAccepted(raw, r) ==
    r.tradingEnabled /\ QuantityAccepted(raw, r.quantityIncrement, r.minQuantity, r.maxQuantity)

MarketQuantity(raw, r) == Quantity(raw, MarketIncrement(r), MarketMaximum(r))

MarketQuantityAccepted(raw, r) ==
    r.tradingEnabled /\ QuantityAccepted(raw, MarketIncrement(r), MarketMinimum(r), MarketMaximum(r))

NotionalAccepted(notional, r) ==
    /\ notional >= r.minNotional
    /\ r.maxNotional # None => notional <= r.maxNotional

-----------------------------------------------------------------------------
(* MakerPricePolicy *)

\* Half way between the best prices, drawn to the side with the shorter queue.
Microprice(b) ==
    LET bid == BestBid(b)  ask == BestAsk(b)  total == bid.quantity + ask.quantity
    IN IF total = 0 THEN Ratio(bid.price + ask.price, 2)
       ELSE Ratio(ask.price * bid.quantity + bid.price * ask.quantity, total)

Depth(levels, limit) == IF limit = None THEN levels ELSE SubSeq(levels, 1, Least(limit, Len(levels)))

\* The sum of decay^i times quantity (or value) of level i, over a common
\* denominator decay.d^span.
Weight(decay, i, span) == decay.n ^ (i - 1) * decay.d ^ (span - i)

WeightedSum(levels, decay, span, useNotional) ==
    LET term(i) == Weight(decay, i, span) * levels[i].quantity
                       * (IF useNotional THEN levels[i].price ELSE 1)
    IN FoldLeft(LAMBDA sum, i : sum + term(i), 0, [i \in DOMAIN levels |-> i])

Imbalance(bids, asks, decay, useNotional) ==
    LET span == Greatest(Len(bids), Len(asks))
        bid == WeightedSum(bids, decay, span, useNotional)
        ask == WeightedSum(asks, decay, span, useNotional)
    IN IF bid + ask = 0 THEN Ratio(0, 1) ELSE Ratio(bid - ask, bid + ask)

CombinedImbalance(obi, obiv, wq, wv) ==
    Ratio(obi.n * obiv.d * wq + obiv.n * obi.d * wv, obi.d * obiv.d * (wq + wv))

\* Pressure beyond the deadband, mapped onto [0, 1].
PressureRatio(p, threshold) ==
    IF p.n * threshold.d <= threshold.n * p.d \/ threshold.n = threshold.d
    THEN Ratio(0, 1)
    ELSE LET excess == Ratio(p.n * threshold.d - threshold.n * p.d,
                             p.d * (threshold.d - threshold.n))
         IN IF excess.n >= excess.d THEN Ratio(1, 1) ELSE excess

PressureTicks(maximum, ratio) == (maximum * ratio.n + ratio.d - 1) \div ratio.d

AvailableTicks(b, tick) ==
    Greatest(0, ((BestAsk(b).price - BestBid(b).price + tick - 1) \div tick) - 1)

\* Whole ticks between the near side and the fair value.
FairValueTicks(b, side, tick, fair) ==
    LET distance == IF side = "BUY" THEN fair.n - BestBid(b).price * fair.d
                                    ELSE BestAsk(b).price * fair.d - fair.n
    IN IF distance <= 0 THEN 0 ELSE distance \div (fair.d * tick)

\* The ticks asked for, cut to what the spread and the fair value leave.
AppliedTicks(requested, b, side, tick) ==
    Least(requested, Least(AvailableTicks(b, tick), FairValueTicks(b, side, tick, Microprice(b))))

QuotedPrice(ticks, b, side, tick) ==
    IF side = "BUY" THEN BestBid(b).price + tick * ticks
                    ELSE BestAsk(b).price - tick * ticks

RequestedTicks(b, side, p) ==
    LET bids == Depth(b.bids, p.depthLevels)
        asks == Depth(b.asks, p.depthLevels)
        combined == CombinedImbalance(Imbalance(bids, asks, p.depthDecay, FALSE),
                                      Imbalance(bids, asks, p.depthDecay, TRUE),
                                      p.quantityWeight, p.valueWeight)
        pressure == IF side = "BUY" THEN combined ELSE Ratio(-combined.n, combined.d)
    IN p.improveTicks + PressureTicks(p.pressureTicks, PressureRatio(pressure, p.threshold))

Quote(b, side, rules, p) ==
    QuotedPrice(AppliedTicks(RequestedTicks(b, side, p), b, side, rules.priceIncrement),
                b, side, rules.priceIncrement)

\* What MakerPriceParameters() is made of when no argument is given.
DefaultParameters ==
    [improveTicks |-> 0, pressureTicks |-> 1, threshold |-> Ratio(1, 10),
     depthLevels |-> None, depthDecay |-> Ratio(1, 1),
     quantityWeight |-> 1, valueWeight |-> 1]

-----------------------------------------------------------------------------
(* Capital: CapitalSizer, FundingCapitalAllocator, OrderPlanner *)

\* What CapitalBudget accepts.
ValidBudget(b) ==
    /\ b.requested > 0 /\ b.reserve >= 0
    /\ 0 < b.fraction.n /\ b.fraction.n <= b.fraction.d

Spendable(available, budget) == Greatest(0, available - budget.reserve)

ApprovedCapital(available, budget) ==
    Ratio(Least(budget.requested * budget.fraction.d,
                Spendable(available, budget) * budget.fraction.n),
          budget.fraction.d)

\* The base quantity C / (Ps + Pf / L) of both legs of a funding position.
BaseQuantity(capital, leverage, spotAsk, perpetualBid) ==
    Ratio(capital * leverage, spotAsk * leverage + perpetualBid)

\* OrderPlanner.plan: the exact post-only order for a request, if one exists.
PlannedPrice(q) == MakerPrice(Quote(q.book, q.side, q.rules, q.parameters), q.side, q.book, q.rules)

PlannedQuantity(q) ==
    LET approved == ApprovedCapital(q.available, q.budget)
    IN LimitQuantity(Ratio(approved.n, approved.d * PlannedPrice(q)), q.rules)

PlanAccepted(q) ==
    LET approved == ApprovedCapital(q.available, q.budget)
    IN /\ q.rules.tradingEnabled
       /\ approved.n > 0
       /\ MakerPriceAccepted(Quote(q.book, q.side, q.rules, q.parameters), q.side, q.book, q.rules)
       /\ LimitQuantityAccepted(Ratio(approved.n, approved.d * PlannedPrice(q)), q.rules)
       /\ NotionalAccepted(PlannedPrice(q) * PlannedQuantity(q), q.rules)

\* What a market buy of the visible asks would cost; None when they do not
\* cover it.
MarketBuyCost(asks, quantity) ==
    LET take(left, i) == Least(left, asks[i].quantity)
        walk == FoldLeft(LAMBDA acc, i :
                             [left |-> acc.left - take(acc.left, i),
                              cost |-> acc.cost + take(acc.left, i) * asks[i].price],
                         [left |-> quantity, cost |-> 0],
                         [i \in DOMAIN asks |-> i])
    IN IF walk.left = 0 THEN walk.cost ELSE None

-----------------------------------------------------------------------------
(* PreTradeRiskCheck: one predicate per violation it can report.           *)
(* order: [notional, market], context: [gross, instrument, required,       *)
(* available, increases], limits as RiskLimits.                            *)

RequiredCapital(order, context) ==
    IF ~context.increases THEN Ratio(0, 1)
    ELSE IF context.required = None THEN Ratio(order.notional, 1) ELSE context.required

Exposure(order, context, current) ==
    Greatest(0, current + (IF context.increases THEN order.notional ELSE -order.notional))

HasReferencePrice(order) == order.notional > 0

MarketAllowed(order, limits) == limits.markets # {} => order.market \in limits.markets

WithinOrderNotional(order, limits) ==
    limits.maxOrder # None => order.notional <= limits.maxOrder

WithinExposure(order, context, limits) ==
    /\ limits.maxGross # None => Exposure(order, context, context.gross) <= limits.maxGross
    /\ limits.maxInstrument # None =>
           Exposure(order, context, context.instrument) <= limits.maxInstrument

WithinCapitalFraction(order, context, limits) ==
    LET required == RequiredCapital(order, context)
    IN required.n * limits.fraction.d <= context.available * limits.fraction.n * required.d

KeepsReserve(order, context, limits) ==
    LET required == RequiredCapital(order, context)
    IN context.available * required.d - required.n >= limits.minRemaining * required.d

RiskApproved(order, context, limits) ==
    /\ HasReferencePrice(order)
    /\ MarketAllowed(order, limits)
    /\ WithinOrderNotional(order, limits)
    /\ WithinExposure(order, context, limits)
    /\ WithinCapitalFraction(order, context, limits)
    /\ KeepsReserve(order, context, limits)
=============================================================================

----------------------------- MODULE OrderWire -----------------------------
(***************************************************************************)
(* How an order of the exchange reaches the engine: the payloads of the    *)
(* order endpoints, the trade history and the two account streams, their   *)
(* parsers, and the mapping of the gateways and of the stream to order     *)
(* records and order events.  A native order is [status, trades]; the      *)
(* position of a trade is its id, its price is its position too, its fee is*)
(* one unit of its fee asset per lot, upTo and paid are sums so far.  A     *)
(* price is exact: what was paid, and for how much.  All frames carry the  *)
(* same millisecond, the worst case for the ids built from them.           *)
(***************************************************************************)
EXTENDS OrderStateMachine, Sequences, SequencesExt

Market == {"MARGIN", "USD_M_FUTURES"}

FeeAsset == {"BASE", "OTHER"}

NoValue == NoQuantity

NoPrice == [paid |-> 0, for |-> 0]

NoOrder == [status |-> "ABSENT", trades |-> <<>>]

TradeAfter(trades, quantity, asset) ==
    LET before == IF trades = <<>> THEN [upTo |-> 0, paid |-> 0]
                  ELSE trades[Len(trades)]
    IN  [quantity |-> quantity, asset |-> asset,
         upTo |-> before.upTo + quantity,
         paid |-> before.paid + (Len(trades) + 1) * quantity]

Executed(trades) == IF trades = <<>> THEN 0 ELSE trades[Len(trades)].upTo

Paid(trades) == IF trades = <<>> THEN 0 ELSE trades[Len(trades)].paid

AverageOf(trades) ==
    IF trades = <<>> THEN NoPrice
    ELSE [paid |-> Paid(trades), for |-> Executed(trades)]

-----------------------------------------------------------------------------
(* REST.  Margin payloads carry the quote sum, USD-M payloads the average; *)
(* the answer to a MARKET order may carry neither.                         *)

OrderPayload(market, order, priced) ==
    [status      |-> order.status,
     executedQty |-> Executed(order.trades),
     cumQuote    |-> IF priced THEN Paid(order.trades) ELSE 0,
     avgPrice    |-> IF priced /\ market = "USD_M_FUTURES"
                     THEN AverageOf(order.trades) ELSE NoPrice]

AveragePrice(payload) ==
    IF payload.avgPrice.paid > 0 THEN payload.avgPrice
    ELSE IF payload.executedQty > 0 /\ payload.cumQuote > 0
    THEN [paid |-> payload.cumQuote, for |-> payload.executedQty]
    ELSE NoPrice

ParseOrder(payload) ==
    [status  |-> payload.status,
     cum     |-> payload.executedQty,
     average |-> AveragePrice(payload)]

(* The tables of the trading gateways and of the stream.                   *)
CommonState(status) ==
    IF status = "CANCELLED" THEN "CANCELED"
    ELSE IF status = "EXPIRED_IN_MATCH" THEN "EXPIRED"
    ELSE status

GatewayState(status) ==
    IF CommonState(status) \in ReconcilableState THEN CommonState(status)
    ELSE IF status = "PENDING_NEW" THEN "SUBMITTING"
    ELSE "UNKNOWN"

StreamState(status) ==
    IF CommonState(status) \in ReconcilableState THEN CommonState(status)
    ELSE LocalEvent("ACKNOWLEDGED").to

OrderRecord(snapshot) ==
    [state   |-> GatewayState(snapshot.status),
     cum     |-> snapshot.cum,
     average |-> snapshot.average]

(* The trade history, as far as it is visible.                             *)
OrderFills(order, visible) ==
    {[trade |-> k, quantity |-> order.trades[k].quantity,
      fee |-> order.trades[k].quantity, asset |-> order.trades[k].asset] :
        k \in 1 .. visible}

-----------------------------------------------------------------------------
(* The account streams.  A frame is emitted for the order as it has just   *)
(* become; a TRADE frame is about its last trade.  Margin frames carry the *)
(* quote sum Z, USD-M frames the average ap.                               *)

Frame(market, execution, order) ==
    LET last == Len(order.trades)
        isTrade == execution = "TRADE"
    IN  [e |-> market, x |-> execution, X |-> order.status,
         z |-> Executed(order.trades),
         Z |-> IF market = "MARGIN" THEN Paid(order.trades) ELSE 0,
         ap |-> IF market = "MARGIN" THEN NoPrice ELSE AverageOf(order.trades),
         l |-> IF isTrade THEN order.trades[last].quantity ELSE NoValue,
         t |-> IF isTrade THEN last ELSE NoValue,
         n |-> IF isTrade THEN order.trades[last].quantity ELSE NoValue,
         N |-> IF isTrade THEN order.trades[last].asset ELSE "NONE"]

(* Mutant: the average price is what the last trade paid.                  *)
ParsedLastPrice(frame) ==
    IF frame.t = NoValue THEN NoPrice
    ELSE [paid |-> frame.t * frame.l, for |-> frame.l]

ParsedAverage(frame) ==
    IF frame.e # "MARGIN" THEN frame.ap
    ELSE IF frame.z > 0 THEN [paid |-> frame.Z, for |-> frame.z]
    ELSE NoPrice

ParseOrderEvent(frame) ==
    [execution |-> frame.x, status |-> frame.X, cum |-> frame.z,
     average |-> ParsedAverage(frame), last |-> frame.l, trade |-> frame.t,
     fee |-> frame.n, asset |-> frame.N]

(* Mutant: an order that is over was canceled.                             *)
EventKindOfAnEnd(native) ==
    IF native.execution = "TRADE" THEN "TRADE"
    ELSE IF native.status \in TerminalOrderState THEN "CANCELED"
    ELSE "ACKNOWLEDGED"

EventKind(native) ==
    IF native.execution = "TRADE" THEN "TRADE"
    ELSE IF native.status \in {"CANCELED", "CANCELLED"} THEN "CANCELED"
    ELSE IF native.status = "REJECTED" THEN "REJECTED"
    ELSE IF native.status \in {"EXPIRED", "EXPIRED_IN_MATCH"} THEN "EXPIRED"
    ELSE "ACKNOWLEDGED"

(* Market, symbol, order and times are the same in every frame of an order *)
(* and are left out of its id.                                             *)
StreamId(native) ==
    [from |-> "stream", trade |-> native.trade, execution |-> native.execution]

ToDomain(native) ==
    [kind |-> EventKind(native), cum |-> native.cum, to |-> StreamState(native.status),
     id |-> StreamId(native), average |-> native.average, last |-> native.last,
     trade |-> native.trade, fee |-> native.fee, asset |-> native.asset]

-----------------------------------------------------------------------------
(* Events the engine builds itself: requests and reconciliations have no   *)
(* id; a trade found in the history has one of its own.                    *)

LocalId == [from |-> "local", trade |-> NoValue, execution |-> "NONE"]

HistoryId(fill) ==
    [from |-> "rest-fill", trade |-> fill.trade, execution |-> "NONE"]

Unpriced(event) ==
    [kind |-> event.kind, cum |-> event.cum, to |-> event.to, id |-> LocalId,
     average |-> NoPrice, last |-> NoValue, trade |-> NoValue, fee |-> NoValue,
     asset |-> "NONE"]

RequestEvent(kind) == Unpriced(LocalEvent(kind))

SnapshotEvent(record) ==
    [Unpriced(Reconciliation(record)) EXCEPT !.average = record.average]

HistoryEvent(fill) ==
    [Unpriced(LocalEvent("TRADE")) EXCEPT
        !.id = HistoryId(fill), !.last = fill.quantity, !.trade = fill.trade,
        !.fee = fill.fee, !.asset = fill.asset]

IsExchangeNews(event) == event.id.from = "stream" \/ event.kind = "RECONCILED"

(* OrderStateMachine.apply on a row with its exchange order id and average *)
(* price.                                                                  *)
ApplyEvent(quantity, row, event) ==
    LET order == Apply(quantity, row, event)
        fills == event.kind \in {"TRADE", "CANCELED", "EXPIRED", "RECONCILED"}
    IN  [state |-> order.state, cum |-> order.cum,
         known |-> row.known \/ IsExchangeNews(event),
         average |-> IF fills /\ event.average # NoPrice
                     THEN event.average ELSE row.average]

-----------------------------------------------------------------------------
(* What the funding worker computes from the journal of a hedge.           *)

(* The sum of the quantities of a set of <<identity, quantity>> pairs.     *)
TotalOf(pairs) == FoldSet(LAMBDA pair, sum : pair[2] + sum, 0, pairs)

HasFee(event) == event.fee # NoValue /\ event.asset # "NONE"

(* Executions are told apart by trade id; every trade has one.             *)
Executions(journal) == {e \in journal : e.kind = "TRADE" /\ e.last # NoValue}

KnownTrades(journal) == {e.trade : e \in {f \in journal : f.kind = "TRADE" /\ HasFee(f)}}

(* Mutant: the trades of the journal are taken for all there are.          *)
FillHistoryHasFees(journal, cum) ==
    LET trades == {<<e.trade, e.last>> : e \in Executions(journal)}
    IN  \A t \in trades : t[1] \in KnownTrades(journal)

FillHistoryIsComplete(journal, cum) ==
    \/ cum <= 0
    \/ LET trades == {<<e.trade, e.last>> : e \in Executions(journal)}
       IN  /\ \A t \in trades : t[1] \in KnownTrades(journal)
           /\ TotalOf(trades) >= cum

(* Mutant: deliveries are told apart by event id.                          *)
BaseCommissionPerEvent(journal) ==
    LET fees == {<<e.id, e.fee>> : e \in
                    {f \in journal : f.kind = "TRADE" /\ f.asset = "BASE"}}
    IN  TotalOf(fees)

BaseCommission(journal) ==
    LET fees == {<<e.trade, e.fee>> : e \in
                    {f \in journal : f.kind = "TRADE" /\ f.asset = "BASE"}}
    IN  TotalOf(fees)
=============================================================================

---------------------------- MODULE AccountView ----------------------------
(* What the strategy sees of a symbol and of the account: the parsers of   *)
(* adapters/binance/parsers, the market data and account gateways over     *)
(* them, the account and position types of engine/domain, and the          *)
(* preflight.  A payload is a record of the fields the code reads, with    *)
(* None for a field that is absent or empty.                               *)
EXTENDS OrderPlanning

Given(v, default) == IF v = None THEN default ELSE v

-----------------------------------------------------------------------------
(* Symbol rules *)

\* Binance publishes zero for an optional filter that is disabled.
Enabled(v) == IF v = 0 THEN None ELSE v

\* An exchangeInfo entry as engine.domain.instrument.SymbolRules: min_notional
\* is named differently on the two markets, and None there is zero here.
SymbolRules(info) ==
    [priceIncrement |-> info.tickSize,
     quantityIncrement |-> info.lot.stepSize,
     minQuantity |-> info.lot.minQty,
     maxQuantity |-> info.lot.maxQty,
     marketIncrement |-> Enabled(info.marketLot.stepSize),
     marketMinimum |-> Enabled(info.marketLot.minQty),
     marketMaximum |-> Enabled(info.marketLot.maxQty),
     minNotional |-> Given(info.minNotional, Given(info.notional, 0)),
     maxNotional |-> info.maxNotional,
     tradingEnabled |-> info.status = "TRADING"]

\* The executor trades pairs against QUOTE_ASSET only, and SymbolRules raises
\* on filters that contradict each other.
RulesUsable(info) == info.quoteAsset = "USDT" /\ ValidRules(SymbolRules(info))

-----------------------------------------------------------------------------
(* Balances, margin and positions *)

\* The engine's balance of an asset: interest is part of what is borrowed.
Balance(item) ==
    [asset |-> item.asset, total |-> item.totalWalletBalance,
     available |-> item.crossMarginFree, locked |-> item.crossMarginLocked,
     borrowed |-> item.crossMarginBorrowed + item.crossMarginInterest]

\* get_account_snapshot raises when an asset or a symbol comes twice (the two
\* sides of a symbol in hedge mode) or an amount that cannot be negative is.
SnapshotReadable(acct) ==
    /\ \A a, b \in acct.balances : a.asset = b.asset => a = b
    /\ \A a, b \in acct.positions : a.symbol = b.symbol => a = b
    /\ \A item \in acct.balances :
          Balance(item).locked >= 0 /\ Balance(item).borrowed >= 0

\* What the Spot leg may spend: the free balance, not the wallet's total.
AvailableQuote(acct) ==
    LET held == {item \in acct.balances : item.asset = "USDT"}
    IN IF held = {} THEN 0 ELSE Balance(CHOOSE item \in held : TRUE).available

\* BalanceSnapshot.net: a borrowed asset that was sold leaves it negative.
NetBalance(acct, asset) ==
    LET held == {item \in acct.balances : item.asset = asset}
    IN IF held = {} THEN 0
       ELSE LET balance == Balance(CHOOSE item \in held : TRUE)
            IN balance.total - balance.borrowed

\* What the maker may take as margin.  An absent field is parsed as zero, so
\* the fallback to the quote balance is never taken.
AvailableMargin(acct) ==
    Given(acct.totalAvailableBalance, Given(acct.availableBalance, 0))

\* get_position_snapshot: the one-way position of a symbol, or none.
PositionQuantity(acct, symbol) ==
    LET oneWay == {item \in acct.positions : item.symbol = symbol /\ item.side = "BOTH"}
    IN IF oneWay = {} THEN 0 ELSE (CHOOSE item \in oneWay : TRUE).quantity

-----------------------------------------------------------------------------
(* Preflight *)

\* The account types the adapter knows, and the mode of each.
AccountTypes == {"PM_1", "PM_2", "PM_3"}

ModeOf(accountType) ==
    IF accountType = "PM_2" THEN "CLASSIC_PORTFOLIO_MARGIN" ELSE "PORTFOLIO_MARGIN_PRO"

\* Mutant: the position mode is not looked at.
PreflightOfTheModeOnly(acct) ==
    acct.type \in AccountTypes /\ ModeOf(acct.type) = "CLASSIC_PORTFOLIO_MARGIN"

\* The container is only built for Classic Portfolio Margin, the account has
\* to be of that mode, and its position mode has to be one-way.
PreflightPasses(acct) ==
    /\ acct.type \in AccountTypes
    /\ ModeOf(acct.type) = "CLASSIC_PORTFOLIO_MARGIN"
    /\ ~acct.dualSidePosition
=============================================================================

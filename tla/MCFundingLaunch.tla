-------------------------- MODULE MCFundingLaunch --------------------------
(* Instances of FundingLaunch for TLC: the market of one scan, the books   *)
(* and the filters of one symbol, in the smallest units of each.           *)
EXTENDS FundingLaunch, TLC

CONSTANTS A, B

Listing(contract) == [status |-> "TRADING", quoteAsset |-> "USDT", contractType |-> contract]

\* Every symbol is traded on both markets.
AllListed ==
    {[spot |-> [s \in Symbols |-> Listing(None)], perpetual |-> [s \in Symbols |-> Listing("PERPETUAL")]]}

Row(rate, interval, volume) == [rate |-> rate, interval |-> interval, volume |-> volume]

\* A pays more per year although its rate is lower.
ShorterIntervalWins == {(A :> Row(3, 4, 9) @@ B :> Row(4, 8, 9))}

AlwaysA == {(A :> Row(3, 4, 9))}

SomeAnswer == {{A, B}, {}}

AnswerA == {{A}}

OnePrice == {[spotAsk |-> 10, perpetualBid |-> 10]}

TwoPrices == OnePrice \cup {[spotAsk |-> 12, perpetualBid |-> 11]}

OwnSettings == {Own}

\* A monitor may still have the capital from before it was lowered.
OldAndNewSettings == {Own, [Own EXCEPT !.capital = 150]}

Level(price, quantity) == [price |-> price, quantity |-> quantity]

\* One tick off the grid with heavy bids, and a book so high that the maker
\* would pass the notional limit.
TwoBooks ==
    {[bids |-> <<Level(7, 9), Level(5, 9)>>, asks |-> <<Level(9, 1)>>],
     [bids |-> <<Level(20, 1)>>, asks |-> <<Level(26, 9), Level(28, 9)>>]}

OneBook == {[bids |-> <<Level(10, 1)>>, asks |-> <<Level(12, 9)>>]}

\* Asks that cover the Spot leg within the capital, and asks that do not.
TwoDepths ==
    {[bids |-> <<>>, asks |-> <<Level(10, 5), Level(12, 9)>>],
     [bids |-> <<>>, asks |-> <<Level(10, 3)>>]}

DeepSpot == {[bids |-> <<>>, asks |-> <<Level(10, 20)>>]}

\* The Spot filters as Binance publishes them, with a disabled market step,
\* and the perpetual's, where the smallest notional has its other name.
Info(tick, step, marketStep, minNotional, notional) ==
    [status |-> "TRADING", baseAsset |-> "BASE", quoteAsset |-> "USDT", tickSize |-> tick,
     lot |-> [stepSize |-> step, minQty |-> step, maxQty |-> None],
     marketLot |-> [stepSize |-> marketStep, minQty |-> 0, maxQty |-> 12],
     minNotional |-> minNotional, notional |-> notional, maxNotional |-> None]

EvenTicks == Info(2, 2, None, None, 10)

SpotSteps == Info(1, 1, 0, 10, None)

Usdt ==
    [asset |-> "USDT", totalWalletBalance |-> 120, crossMarginFree |-> 100,
     crossMarginLocked |-> 20, crossMarginBorrowed |-> 0, crossMarginInterest |-> 0]

Position(symbol, side, quantity) == [symbol |-> symbol, side |-> side, quantity |-> quantity]

AccountWith(type, dual, positions) ==
    [type |-> type, dualSidePosition |-> dual, balances |-> {Usdt}, positions |-> positions,
     totalAvailableBalance |-> None, availableBalance |-> 100]

FreshAccount == AccountWith("PM_2", FALSE, {Position(A, "BOTH", 0), Position(B, "BOTH", 0)})

\* Four of the base asset are borrowed, and one is held.
Debt ==
    [asset |-> "BASE", totalWalletBalance |-> 1, crossMarginFree |-> 1,
     crossMarginLocked |-> 0, crossMarginBorrowed |-> 4, crossMarginInterest |-> 0]

IndebtedAccount == {[FreshAccount EXCEPT !.balances = @ \cup {Debt}]}

\* Also one that holds A already, one that is short of A in hedge mode, and
\* one of another mode.
FourAccounts ==
    {FreshAccount,
     AccountWith("PM_2", FALSE, {Position(A, "BOTH", 3)}),
     AccountWith("PM_2", TRUE, {Position(A, "SHORT", -3)}),
     AccountWith("PM_1", FALSE, {Position(A, "BOTH", 0)})}
=============================================================================

--------------------------- MODULE FundingLaunch ---------------------------
(* How a funding entry comes to have a maker order and a session: main()   *)
(* of strategies/funding_rate/main.py (process "main") and the manual      *)
(* perp-maker command of strategies/funding_rate/order.py (process         *)
(* "order"), which share the executor, the plan file with the monitor of   *)
(* FundingMonitor, and one database.  Each read of the account and each    *)
(* change is a step of its own.                                            *)
(*                                                                         *)
(* An order is taken as far as its placement: what the engine does with it *)
(* is OrderExecution, what the running worker does is FundingEntry.  A     *)
(* request is only taken by the exchange within recvWindow (five seconds)  *)
(* of its sending, so none is taken after its sender has been restarted.   *)
EXTENDS FundingMonitor, AccountView

CONSTANTS
    Processes,              \* {"main", "order"}, or without the manual command
    Confirmed,              \* symbols an operator confirms
    PerpBooks, SpotBooks,   \* order books a process may read
    PerpInfo, SpotInfo,     \* the symbol's exchangeInfo entries
    Accounts                \* accounts the strategy may be started on

VARIABLES
    account,    \* the account as it was found, with a position row per symbol
    procs,      \* procs[p]: [pc, symbol, plan, id, made]
    orders,     \* orders[i], the perpetual maker of plan i: its symbol and
                \* price, its row in the database and what the exchange has
    sessions,   \* sessions[i]: "NONE", "ACTIVE", "FAILED" or "CLOSED"
    overlapped  \* history: a maker was placed or filled while another process
                \* was past its last check of the position

vars == <<planFile, mon, faults, account, procs, orders, sessions, overlapped>>

PerpRules == SymbolRules(PerpInfo)

\* Prices, quantities and filters are whole numbers of smallest units.
ASSUME MarketAssumption ==
    /\ Prices \subseteq [spotAsk : Nat \ {0}, perpetualBid : Nat \ {0}]
    /\ {Capital, Leverage} \subseteq Nat
    /\ \A book \in PerpBooks :
          /\ {book.bids, book.asks} \subseteq Seq([price : Nat \ {0}, quantity : Nat])
          /\ ValidBook(book)
    /\ {PerpRules.priceIncrement, PerpRules.quantityIncrement, PerpRules.minQuantity} \subseteq Nat
    /\ PerpRules.maxQuantity \in Nat \cup {None}

\* So are the ticks a book's pressure asks for, a sum over its levels.
ASSUME PressureAssumption ==
    \A book \in PerpBooks :
        TwoSided(book) => RequestedTicks(book, "SELL", DefaultParameters) \in Int

\* Id 0 is no plan, and a command line names a symbol.
ASSUME LaunchAssumption ==
    /\ "main" \in Processes /\ Processes \subseteq {"main", "order"}
    /\ PlanIds \subseteq Nat \ {0} /\ IsFiniteSet(PlanIds)
    /\ None \notin Confirmed

\* The exchange lists a position of every symbol, held or not, and in one-way
\* mode it has no side.
ASSUME AccountAssumption ==
    \A acct \in Accounts :
        /\ "positions" \in DOMAIN acct
        /\ \A row \in acct.positions :
              /\ DOMAIN row = {"symbol", "side", "quantity"}
              /\ row.symbol # None /\ row.quantity \in Int
        /\ \A s \in Confirmed : \E row \in acct.positions : row.symbol = s
        /\ ~acct.dualSidePosition => \A row \in acct.positions : row.side = "BOTH"

SpotRules == SymbolRules(SpotInfo)

Idle == [pc |-> "off", symbol |-> None, plan |-> NoCandidate, id |-> 0, made |-> None]

NoOrder == [symbol |-> None, price |-> 0, row |-> "ABSENT", venue |-> "NONE"]

Goto(p, pc) == procs' = [procs EXCEPT ![p].pc = pc]

\* main() goes on to the session of the maker.
Joins(pc) == procs' = [procs EXCEPT !["main"].pc = pc, !["main"].plan = NoCandidate, !["main"].made = None]

\* The process prints the reason and ends: nothing else is undone.
Exit(p) == procs' = [procs EXCEPT ![p] = Idle]

\* A plan's ids are a digest of the time of its scan: they are new.
Used == {planFile.id} \cup {procs[p].id : p \in Processes}
            \cup {i \in PlanIds : orders[i].row # "ABSENT"}

NewId == CHOOSE i \in PlanIds \ Used : TRUE

\* Bound: main() scans while an id is left, and of what the monitor saves
\* after that nothing is loaded.
CanScan == PlanIds \ Used # {}

-----------------------------------------------------------------------------
(* The account *)

Filled(s) == {i \in PlanIds : orders[i].symbol = s /\ orders[i].venue = "FILLED"}

\* What the exchange reports: a filled maker has sold one lot.
Reported ==
    [account EXCEPT !.positions =
        {[row EXCEPT !.quantity = @ - Cardinality(Filled(row.symbol))] : row \in @}]

Flat(s) == PositionQuantity(Reported, s) = 0

OpenOrders(s) == {i \in PlanIds : orders[i].symbol = s /\ orders[i].venue = "OPEN"}

\* A process has found the position flat for the last time and not yet sent.
Committed(s) ==
    {p \in Processes : procs[p].symbol = s /\ procs[p].pc \in {"reorders", "leverage", "lookup", "commit", "send"}}

MakerFills(i) ==
    /\ orders[i].venue = "OPEN"
    /\ orders' = [orders EXCEPT ![i].venue = "FILLED"]
    /\ overlapped' = (overlapped \/ Committed(orders[i].symbol) # {})
    /\ UNCHANGED <<planFile, mon, account, faults, procs, sessions>>

\* The exchange expires the maker, or somebody cancels it, before any fill.
MakerEnds(i) ==
    /\ orders[i].venue = "OPEN"
    /\ orders' = [orders EXCEPT ![i].venue = "ENDED"]
    /\ UNCHANGED <<planFile, mon, account, faults, procs, sessions, overlapped>>

-----------------------------------------------------------------------------
(* main(): an active session is resumed, otherwise the market is scanned   *)

Active(s) == {i \in PlanIds : sessions[i] = "ACTIVE" /\ orders[i].symbol = s}

\* --submit --confirm-symbol s with exactly one active session of s, whose
\* maker is in the database.
MainResumes(s) ==
    /\ procs["main"].pc = "off"
    /\ \E i \in PlanIds :
          /\ Active(s) = {i}
          /\ orders[i].row # "ABSENT"
          /\ procs' = [procs EXCEPT !["main"] = [Idle EXCEPT !.pc = "sync", !.symbol = s, !.id = i]]
    /\ UNCHANGED <<planFile, mon, account, faults, orders, sessions, overlapped>>

\* Mutant: a scan although a session is active.
MainStartsAnyway(s) ==
    /\ procs["main"].pc = "off"
    /\ procs' = [procs EXCEPT !["main"] = [Idle EXCEPT !.pc = "scan", !.symbol = s]]
    /\ UNCHANGED <<planFile, mon, account, faults, orders, sessions, overlapped>>

MainStarts(s) ==
    /\ procs["main"].pc = "off"
    /\ Active(s) = {}
    /\ procs' = [procs EXCEPT !["main"] = [Idle EXCEPT !.pc = "scan", !.symbol = s]]
    /\ UNCHANGED <<planFile, mon, account, faults, orders, sessions, overlapped>>

MainScans ==
    /\ procs["main"].pc = "scan"
    /\ CanScan
    /\ \E plan \in PlansOfProcesses : Replace(plan, NewId)
    /\ Goto("main", "load")
    /\ UNCHANGED <<mon, faults, account, orders, sessions, overlapped>>

\* order perp-maker --submit --confirm-symbol s.
OrderStarts(s) ==
    /\ procs["order"].pc = "off"
    /\ procs' = [procs EXCEPT !["order"] = [Idle EXCEPT !.pc = "load", !.symbol = s]]
    /\ UNCHANGED <<planFile, mon, account, faults, orders, sessions, overlapped>>

-----------------------------------------------------------------------------
(* load_funding_order_plan, validate_plan_settings, the confirmation, and  *)
(* for the manual command the preflight                                    *)

\* Mutant: a plan of a monitor with other settings is good enough.
PlanAcceptableFromAnyone(f, s) ==
    /\ f.is = "whole" /\ f.id # 0
    /\ f.plan.status = "READY"
    /\ f.plan.symbol = s

PlanAcceptable(f, s) ==
    /\ f.is = "whole" /\ f.id # 0
    /\ f.plan.status = "READY"
    /\ f.plan.capital = Capital /\ f.plan.leverage = Leverage
    /\ f.plan.symbol = s

LoadsPlan(p) ==
    /\ procs[p].pc = "load"
    /\ PlanAcceptable(planFile, procs[p].symbol)
    /\ p = "order" => PreflightPasses(account)
    /\ procs' = [procs EXCEPT ![p].pc = IF p = "main" THEN "adopt" ELSE "prepare",
                              ![p].plan = planFile.plan, ![p].id = planFile.id]
    /\ UNCHANGED <<planFile, mon, account, faults, orders, sessions, overlapped>>

\* Any plan may by now be too old, or its funding have passed.
RefusesPlan(p) ==
    /\ procs[p].pc = "load"
    /\ Exit(p)
    /\ UNCHANGED <<planFile, mon, account, faults, orders, sessions, overlapped>>

-----------------------------------------------------------------------------
(* FundingOrderExecutor.prepare_spot_taker and prepare_perpetual_maker     *)

NoExposure == [gross |-> 0, instrument |-> 0, increases |-> TRUE]

EntryLimits(plan, market) ==
    [maxOrder |-> plan.capital, maxGross |-> None, maxInstrument |-> None,
     fraction |-> Ratio(1, 1), minRemaining |-> 0, markets |-> {market}]

\* The whole Spot leg, bought at the visible asks with one percent to spare.
SpotAffordable(plan, book, acc) ==
    LET quantity == MarketQuantity(plan.quantity, SpotRules)
        cost == MarketBuyCost(book.asks, quantity)
    IN /\ RulesUsable(SpotInfo) /\ SnapshotReadable(acc)
       /\ MarketQuantityAccepted(plan.quantity, SpotRules)
       /\ cost # None
       /\ NotionalAccepted(cost, SpotRules)
       /\ RiskApproved([notional |-> cost, market |-> "MARGIN"],
                       NoExposure @@ [required |-> Ratio(cost * 101, 100), available |-> AvailableQuote(acc)],
                       EntryLimits(plan, "MARGIN"))

Affordable ==
    {c \in ReadyPlans \X SpotBooks \X Accounts : SpotAffordable(c[1], c[2], c[3])}

\* A maker that already is in the database for this plan gets its session at
\* once; without one the Spot baseline is read and the entry is prepared.
MainLooksForMaker ==
    /\ procs["main"].pc = "adopt"
    /\ IF orders[procs["main"].id].row # "ABSENT" THEN Joins("session")
       ELSE \E book \in SpotBooks :
               IF <<procs["main"].plan, book, account>> \in Affordable
               THEN Goto("main", "prepare") ELSE Exit("main")
    /\ UNCHANGED <<planFile, mon, account, faults, orders, sessions, overlapped>>

Desired(book) == Quote(book, "SELL", PerpRules, DefaultParameters)

\* Price, quantity and risk of the maker from the book just read.
Maker(plan, book) ==
    [price |-> MakerPrice(Desired(book), "SELL", book, PerpRules),
     quantity |-> LimitQuantity(plan.quantity, PerpRules),
     book |-> book]

MakerApproved(plan, book, acc) ==
    LET maker == Maker(plan, book)
        notional == maker.price * maker.quantity
    IN /\ RulesUsable(PerpInfo) /\ SnapshotReadable(acc)
       /\ TwoSided(book)
       /\ MakerPriceAccepted(Desired(book), "SELL", book, PerpRules)
       /\ LimitQuantityAccepted(plan.quantity, PerpRules)
       /\ NotionalAccepted(notional, PerpRules)
       /\ RiskApproved([notional |-> notional, market |-> "USD_M_PERPETUAL"],
                       NoExposure @@ [required |-> Ratio(notional, plan.leverage), available |-> AvailableMargin(acc)],
                       EntryLimits(plan, "USD_M_PERPETUAL"))

Preparable ==
    {[plan |-> pba[1], made |-> Maker(pba[1], pba[2]), account |-> pba[3]] :
        pba \in {c \in ReadyPlans \X PerpBooks \X Accounts : MakerApproved(c[1], c[2], c[3])}}

\* The reads of a preview only ever end the process, and are repeated before
\* the submission: here they are one step.
PreparesMaker(p) ==
    /\ procs[p].pc = "prepare"
    /\ IF Flat(procs[p].symbol) /\ OpenOrders(procs[p].symbol) = {}
       THEN \E book \in PerpBooks :
               LET prepared == {c \in Preparable : /\ c.plan = procs[p].plan
                                                   /\ c.made.book = book
                                                   /\ c.account = account}
               IN \/ /\ prepared = {}
                     /\ Exit(p)
                  \/ \E c \in prepared :
                        procs' = [procs EXCEPT ![p].pc = IF p = "main" THEN "sync" ELSE "recheck",
                                               ![p].made = c.made]
       ELSE Exit(p)
    /\ UNCHANGED <<planFile, mon, account, faults, orders, sessions, overlapped>>

-----------------------------------------------------------------------------
(* main: after the preflight the stream is connected and every open order  *)
(* reconciled before the session is resumed or its maker submitted         *)

Synchronizes ==
    /\ procs["main"].pc = "sync"
    /\ LET i == procs["main"].id
       IN IF ~PreflightPasses(account) THEN Exit("main")
          ELSE IF sessions[i] # "NONE" THEN Joins("running")
          ELSE IF orders[i].row # "ABSENT" THEN Joins("session")
          ELSE Goto("main", "recheck")
    /\ UNCHANGED <<planFile, mon, account, faults, orders, sessions, overlapped>>

-----------------------------------------------------------------------------
(* FundingOrderExecutor.submit_perpetual_maker                             *)

\* Mutant: only the open orders are read again.
SkipsPosition(p) ==
    /\ procs[p].pc = "recheck"
    /\ Goto(p, "reorders")
    /\ UNCHANGED <<planFile, mon, account, faults, orders, sessions, overlapped>>

RechecksPosition(p) ==
    /\ procs[p].pc = "recheck"
    /\ IF Flat(procs[p].symbol) THEN Goto(p, "reorders") ELSE Exit(p)
    /\ UNCHANGED <<planFile, mon, account, faults, orders, sessions, overlapped>>

RechecksOpenOrders(p) ==
    /\ procs[p].pc = "reorders"
    /\ IF OpenOrders(procs[p].symbol) = {} THEN Goto(p, "leverage") ELSE Exit(p)
    /\ UNCHANGED <<planFile, mon, account, faults, orders, sessions, overlapped>>

\* The leverage is read, changed if it is another one, and read again; what
\* the exchange then shows may still be another one.
ConfirmsLeverage(p) ==
    /\ procs[p].pc = "leverage"
    /\ Goto(p, "lookup") \/ Exit(p)
    /\ UNCHANGED <<planFile, mon, account, faults, orders, sessions, overlapped>>

\* OrderExecutionService.submit finds the row of an earlier submission, which
\* has to be of the same order.
FindsRow(p) ==
    /\ procs[p].pc = "lookup"
    /\ LET i == procs[p].id
       IN IF orders[i].row = "ABSENT" THEN Goto(p, "commit")
          ELSE IF orders[i].price = procs[p].made.price /\ p = "main" THEN Joins("session")
          ELSE Exit(p)
    /\ UNCHANGED <<planFile, mon, account, faults, orders, sessions, overlapped>>

\* SUBMIT_REQUESTED is committed unless the row is now of another order.
CommitsRow(p) ==
    /\ procs[p].pc = "commit"
    /\ LET i == procs[p].id
       IN IF orders[i].row # "ABSENT" /\ orders[i].price # procs[p].made.price
          THEN Exit(p) /\ UNCHANGED orders
          ELSE /\ orders' = [orders EXCEPT ![i].symbol = procs[p].symbol, 
                                           ![i].price = procs[p].made.price, ![i].row = "SUBMITTING"]
               /\ Goto(p, "send")
    /\ UNCHANGED <<planFile, mon, account, faults, sessions, overlapped>>

AfterAnswer(p) == IF p = "main" THEN Joins("session") ELSE Exit(p)

Answered(p, row, venue) ==
    /\ orders' = [orders EXCEPT ![procs[p].id].row = row, ![procs[p].id].venue = venue]
    /\ overlapped' = (overlapped \/ Committed(procs[p].symbol) # {p})
    /\ AfterAnswer(p)
    /\ UNCHANGED <<planFile, mon, account, sessions>>

SubmitAccepted(p) ==
    /\ procs[p].pc = "send" /\ orders[procs[p].id].venue = "NONE"
    /\ Answered(p, "PLACED", "OPEN")
    /\ UNCHANGED faults

\* The post-only order would have taken: the exchange ends it at once.
SubmitExpired(p) ==
    /\ procs[p].pc = "send" /\ orders[procs[p].id].venue = "NONE"
    /\ Answered(p, "ENDED", "ENDED")
    /\ UNCHANGED faults

\* A refusal; of a second order with the same id it is the only answer.
SubmitRejected(p) ==
    /\ procs[p].pc = "send"
    /\ Answered(p, "REJECTED", orders[procs[p].id].venue)
    /\ UNCHANGED faults

\* No answer, and the reconciliation that follows brings none.
SubmitUnknown(p) ==
    /\ procs[p].pc = "send" /\ faults < MaxFaults
    /\ faults' = faults + 1
    /\ \E venue \in IF orders[procs[p].id].venue = "NONE" THEN {"NONE", "OPEN"}
                    ELSE {orders[procs[p].id].venue} :
          Answered(p, "UNKNOWN", venue)

-----------------------------------------------------------------------------
(* main: _create_or_load_session                                           *)

\* Mutant: without an exchange order there is nothing to wait for.
InitialStatusGuessed(o) ==
    IF o.row \in {"REJECTED", "UNKNOWN"} THEN "FAILED"
    ELSE IF o.row = "ENDED" THEN "CLOSED" ELSE "ACTIVE"

InitialStatus(o) ==
    IF o.row = "REJECTED" THEN "FAILED" ELSE IF o.row = "ENDED" THEN "CLOSED" ELSE "ACTIVE"

\* What the account held of the base asset when the entry was prepared.
StartingSpotQuantity == NetBalance(account, SpotInfo.baseAsset)

\* FundingSession raises on a starting quantity below zero.
SavesSession ==
    /\ procs["main"].pc = "session"
    /\ LET i == procs["main"].id
       IN IF sessions[i] = "NONE" /\ StartingSpotQuantity < 0
          THEN Exit("main") /\ UNCHANGED sessions
          ELSE /\ sessions' = [sessions EXCEPT ![i] = IF @ = "NONE" THEN InitialStatus(orders[i]) ELSE @]
               /\ Joins("running")
    /\ UNCHANGED <<planFile, mon, account, faults, orders, overlapped>>

\* FundingEntry's worker closes the session of a maker that ended unfilled.
WorkerCloses ==
    /\ procs["main"].pc = "running"
    /\ LET i == procs["main"].id
       IN /\ orders[i].venue = "ENDED" /\ sessions[i] = "ACTIVE"
          /\ sessions' = [sessions EXCEPT ![i] = "CLOSED"]
    /\ UNCHANGED <<planFile, mon, account, faults, procs, orders, overlapped>>

\* The operator interrupts the running strategy.
OperatorStops ==
    /\ procs["main"].pc = "running"
    /\ Exit("main")
    /\ UNCHANGED <<planFile, mon, account, faults, orders, sessions, overlapped>>

\* An exception or a kill before or after any step ends a process.
ProcessEnds(p) ==
    /\ procs[p].pc # "off" /\ faults < MaxFaults
    /\ faults' = faults + 1
    /\ Exit(p)
    /\ UNCHANGED <<planFile, mon, account, orders, sessions, overlapped>>

-----------------------------------------------------------------------------
Init ==
    /\ MonitorInit
    /\ account \in Accounts
    /\ procs = [p \in Processes |-> Idle]
    /\ orders = [i \in PlanIds |-> NoOrder]
    /\ sessions = [i \in PlanIds |-> "NONE"]
    /\ overlapped = FALSE

launchVars == <<account, procs, orders, sessions, overlapped>>

NextId == IF CanScan THEN NewId ELSE 0

Monitor ==
    /\ MonitorStarts \/ MonitorScans(NextId) \/ MonitorFails(NextId) \/ MonitorStops
    /\ UNCHANGED launchVars

MonitorProgress == MonitorScans(NextId) /\ UNCHANGED launchVars

Exchange == \E i \in PlanIds : MakerFills(i) \/ MakerEnds(i)

Starts ==
    \/ \E s \in Confirmed : MainResumes(s) \/ MainStarts(s)
    \/ ("order" \in Processes /\ \E s \in Confirmed : OrderStarts(s))

MainSteps ==
    \/ MainScans \/ MainLooksForMaker \/ Synchronizes
    \/ SavesSession \/ WorkerCloses

Steps(p) ==
    \/ LoadsPlan(p) \/ RefusesPlan(p) \/ PreparesMaker(p)
    \/ RechecksPosition(p) \/ RechecksOpenOrders(p) \/ ConfirmsLeverage(p)
    \/ FindsRow(p) \/ CommitsRow(p)
    \/ SubmitAccepted(p) \/ SubmitExpired(p) \/ SubmitRejected(p)

Next ==
    \/ Monitor \/ Exchange \/ Starts \/ MainSteps \/ OperatorStops
    \/ \E p \in Processes : Steps(p) \/ SubmitUnknown(p) \/ ProcessEnds(p)

Spec == Init /\ [][Next]_vars

\* A monitor and a process that are up go on, an operator runs main() again and
\* again, its plans are not always too old, and the leverage is not refused for
\* ever.
Fairness ==
    /\ WF_vars(MonitorProgress)
    /\ WF_vars(MainSteps)
    /\ \A p \in Processes : WF_vars(Steps(p))
    /\ SF_vars(LoadsPlan("main"))
    /\ SF_vars(ConfirmsLeverage("main") /\ Goto("main", "lookup"))
    /\ \A s \in Confirmed : SF_vars(MainResumes(s) \/ MainStarts(s))

FairSpec == Spec /\ Fairness

-----------------------------------------------------------------------------
(* Properties *)

Entered(s) == {i \in PlanIds : orders[i].symbol = s /\ orders[i].venue \in {"OPEN", "FILLED"}}

\* However often the processes are killed and run again, with or without a
\* session left behind, no symbol gets a second maker, unless one is placed or
\* filled in the moment between the position and the order check of another
\* process and its submission (submit_perpetual_maker).
OneEntryPerSymbol == overlapped \/ \A s \in Symbols : Cardinality(Entered(s)) <= 1

\* A maker is only ever requested for a symbol in which the account held
\* nothing before: in hedge mode the position read misses both sides, and it
\* is the preflight that keeps such an account out.
EntryStartsFlat ==
    \A i \in PlanIds : \A row \in account.positions :
        row.symbol = orders[i].symbol => row.quantity = 0

\* main() always finds at most one session to resume (it refuses two).
OneSessionPerSymbol == \A s \in Symbols : Cardinality(Active(s)) <= 1

\* A session that is over has no maker left on the book, whatever answer its
\* status was derived from (_initial_session_status).
EndedSessionHasNoMaker ==
    overlapped \/ \A i \in PlanIds :
        sessions[i] \in {"FAILED", "CLOSED"} => orders[i].venue \in {"NONE", "ENDED"}

Prepared(p) == procs[p].made # None

Rests(made) ==
    LET fair == Microprice(made.book)
    IN /\ made.price > BestBid(made.book).price
       /\ made.price % PerpRules.priceIncrement = 0
       /\ made.price * fair.d >= fair.n

FitsCapital(plan, quantity) ==
    /\ quantity > 0
    /\ quantity * (plan.price.spotAsk * Leverage + plan.price.perpetualBid) <= Capital * Leverage

\* The prepared maker would rest on the book it was priced from: above the
\* best bid, on the grid, and not below the fair value between the queues.
PreparedMakerRests == \A p \in Processes : Prepared(p) => Rests(procs[p].made)

\* Rounding never makes the two legs cost more than the plan deploys: the
\* quantity bought at the plan's ask and margined at its bid fits the capital.
PreparedFitsCapital ==
    \A p \in Processes : Prepared(p) => FitsCapital(procs[p].plan, procs[p].made.quantity)

\* A maker that main() has sent gets its session, without which nobody hedges
\* its fills: "No session-setup market-data failure is therefore allowed to
\* occur after maker submission" (main.py:376), and "Every actual or partial
\* Perp fill drives an idempotent Spot MARKET hedge" (README.md:206).
EveryMakerGetsASession ==
    \A i \in PlanIds :
        orders[i].venue = "FILLED" ~> sessions[i] # "NONE"
=============================================================================

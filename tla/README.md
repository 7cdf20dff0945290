# Verification of CHOXR

CHOXR trades two legs on Binance: a perpetual maker order is placed and left to
fill, and every fill is hedged with a Spot market order. This directory holds TLA+
models of the program from the market scan to the SQLite row, the TLC runs that
check them, and theorems checked by TLAPS. Paths are those of the repository.

## Inventory

| Component | State it keeps | Operations | Interacts with | Correct when |
|---|---|---|---|---|
| Order state machine (`engine/domain`) | none | `apply(order, event)` | the engine calls it for every change | transitions are the allowed ones, fills never shrink, terminal orders stay |
| Execution service (`engine/execution/order_service.py`) | one lock per order | `submit`, `cancel`, `reconcile`, `reconcile_open`, `handle_event` | gateway (REST), repository, consumer | recorded fills are real, an order is placed once, an end is learned |
| Event consumer (`event_consumer.py`, `event_handler.py`) | none | one event at a time | stream in, committed-event queue out | events of one order are applied in order; only committed ones are published |
| SQLite repositories (`adapters/persistence/sqlite`) | orders, journal, sessions, actions | `commit`, `save_*`, `update_*`, `fail_hedge_and_pause` | everything above | each operation is atomic and survives a crash |
| Runtime (`app/runtime.py`) | synchronized flag, connection number | sweep after every connection, stop on any exception | stream, service, queue | nobody acts before the first sweep; unresolved orders stop the process |
| Order event stream (`gateways/order_event_stream.py`) | listen key, backoff | connect, rotate, keepalive, rebuild the key | Binance, runtime | a gap is always followed by a sweep |
| Trading gateways and parsers | none | payloads to orders and events, errors to outcomes | transport, stream | only a definite refusal becomes a rejection; a row's price and fees are those of its fills |
| HTTP transport (`adapters/binance/transport`) | shared clock offset | one replay after -1021, classification | Binance | a side effect happens at most once and is reported as what it was |
| Planning and risk (`engine/planning`, `engine/risk`) | none | quote, normalize, size, check | executor, monitor | a maker rests, quantities keep the filters, the legs fit the capital |
| Account view and preflight | none | snapshots, positions, `PM_2` one-way mode | executor, `main.py` | no entry on top of an existing position |
| Scanner, allocation, monitor (`scanner.py`, `allocation.py`, `monitor.py`) | plan file, failure count | scan, replace the plan, retry | `main.py`, `order.py` through the file | the monitor comes back from failures; a plan of other settings is not entered |
| Hedge calculator and policy (`hedge.py`, `execution_policy.py`) | none | `calculate`, `decide` | the worker | never more than is uncovered; OPEN only when neutral |
| Funding worker and dispatcher (`worker.py`) | none but the databases | `process_event`, `plan_event`, `dispatch`, fill retry | queue, service, market data, fill history | each fill is hedged once; failures stop the entry |
| Funding application (`main.py`) | the process | resume, or scan, prepare, submit, save the session | all of the above | one entry per symbol, every maker has a session |
| Command line harness (`order.py`) | none | `perp-maker`, `order-status`, `cancel-order` | the same account and database | does not disturb the engine |

What makes it hard: REST answers and WebSocket events for one order race each
other; calls time out with unknown outcome and may take effect later; events are
lost, repeated, or overtaken by a snapshot; the process may die between any two
commits; commissions become visible later than the fills they belong to; the
worker decides on rows that the engine's threads change while it waits for market
data; several processes share an account and check it before they act.
`PROJECT.json` lists these hazards line by line with the properties aimed at each;
where no property covers a hazard the note says why.

## Modules

| Module | Content |
|---|---|
| `OrderStateMachine` | `OrderStateMachine.apply` as operators on `[state, cum]` |
| `OrderLedger` | abstract specification: what the engine promises about orders |
| `OrderExecution` | the engine: calls with their locks, commits and errors, the stream, the exchange, crashes |
| `OrderExecutionProofs` | theorems about `OrderExecution` |
| `OrderWire` | payloads, parsers and gateways: what one order looks like on each way into the engine |
| `FillJournal`, `FillJournalProofs` | one order's row and journal: transactions, consumer, REST thread, fill backfill; theorems |
| `StreamRuntime`, `StreamRuntimeProofs` | listen key, connections, lifecycle signals, sweeps, the synchronized flag and the start gate; theorems |
| `SideEffect` | abstract specification: what the transport promises about a request that changes the account |
| `RestTransport`, `RestTransportProofs` | guards, requests, timeouts, replay, shared clock, error classification; theorems |
| `OrderPlanning` | quote, normalization, sizing, order planner and pre-trade check as operators |
| `OrderPlanningProofs` | theorems about them |
| `AccountView` | symbol rules, balances, positions and preflight as the program sees them |
| `FundingMonitor` | scan, candidate choice, plan file, monitor loop |
| `FundingLaunch` | `main()` and `perp-maker`: from the plan to the maker and its session |
| `FundingLaunchProofs` | theorems about it |
| `FundingPolicy`, `FundingPolicyProofs` | hedge calculator and execution policy; theorems |
| `FundingEntry`, `FundingEntryProofs` | worker, dispatcher, session, outbox, startup and restart; theorems |
| `MC*` | instances for TLC |

How they stack: `OrderExecution` and `FillJournal` both extend `OrderStateMachine`
and both implement `OrderLedger`, the first for the interleaving of calls, the
second for the data in a row. `FundingEntry` stands on the ledger's guarantee.
`RestTransport` implements `SideEffect`, whose outcomes (done, refused, unknown)
are the ones `OrderExecution` and `FundingLaunch` take from a call. `FundingLaunch`
extends `FundingMonitor` and `AccountView`, which extend `OrderPlanning`.

### OrderExecution

`db` is the orders table, `journal` the ids of events that were committed, `exch`
the truth at the exchange, `requests` the follow-ups the engine has asked for, `wire`
the events in flight, and `call` says for each thread where its call stands. The points at which
a call can be interrupted are its commit before the request, the request at the
exchange, the answer and the commit after it; `BeginSubmit`, `BeginCancel`,
`BeginReconcile`, `Handle*`, `Apply*`, `TimeOut` and `Raise` are those steps. A
lock is held from `Begin*` to `Return`, as in `OrderExecutionService`; threads
listed in `Cli` belong to a command line process and share no lock. `StartSweep`,
`EndSweep`, `Connect`, `Disconnect`, `Restart` and `Crash` are the runtime's.
A fill is counted in lots; a price, an id or a timestamp decides no transition.

`OrderLedger` has two variables: the truth of each order, and what is recorded of
it. It allows an order to be recorded before it exists, to be created only while
it is recorded as open, and a record to catch up with some truth, never to leave
it. `ImplementsLedger` is that specification under `truth <- exch`, `view <- db`.
That records never move backwards follows from it.

### OrderWire and FillJournal

`OrderWire` says what the program makes of an order on each of its four ways in:
the answer to a submission, a queried order, a stream frame of either market, a
page of the fill history. A price is kept exactly, as what was paid and for how
much, so that an average read from the wrong field differs. All frames carry the
same millisecond: ids then differ only where the code makes them differ.

`FillJournal` has the transaction of `SqliteAtomicOrderPersistence.commit` as
`BeginCommit` (duplicate check, journal row) and `EndCommit` (snapshot, commit);
`writer` holds SQLite's write lock between them and readers see what was
committed before. The consumer and the REST thread hold the order's lock from the
read of the row to their last commit. The worker's `reconcile_fills` reads the
journal, asks for the history and writes one fill per commit, without that lock;
the fills it still has to write are a set, taken oldest first, as the gateway sorts them (`IsNextFill`).

### StreamRuntime

Producer (`net`), consumer and lifecycle monitor are the three tasks of
`ApplicationRuntime.consume_order_events`, interleaved at their awaits. The orders of
the account are one version number: a change at the exchange is the next version,
a frame carries the version it reports, `known` is the greatest the database has
been told. A sweep reads the version and commits it later. `gate` is
`FundingRateStrategyApplication.run` before its maker: it passes once after the
flag was set, and never looks again; `MakerStartsReconciled` says what is left of
the guarantee in that case, and `NoChangeIsMissed` what holds whenever the flag is up.

### RestTransport

A call is one use of a gateway by one thread; its request and its answer travel
apart from it. A timestamp is the offset it was made with, and the exchange
refuses it before anything else if the clock has drifted since. This is what makes
the replay of a side effect sound. `SideEffect` has, for each request, how often it took
effect and what was reported: done only after it, refused only if it never
will. The code does not keep the last part. A server error other than the documented
unknown outcome (`errors.py:81`: a 500, or a 502 or 504 of a proxy) and a success whose body
is no JSON (`rest_client.py:152`) do not tell whether the request was applied, and both
are taken for refusals: `RestTransport` lets the exchange give them to requests it has applied
and to others, and `SideEffect` has what follows as a step of its own, `Misread`, the only
one after which a refused request may have taken effect. The refinement thus shows
the defect where it is and that no other answer, timeout, replay or drift has it.

### FundingMonitor and FundingLaunch

A scan reads public data only and is one step with the replacement of the plan
file. `FundingLaunch` has the processes `main` and `order`, whose `pc` names the next
read or change:

    main:   off -> scan -> load -> adopt -> prepare -> sync -> recheck -> reorders
                -> leverage -> lookup -> commit -> send -> session -> running
    order:  off -> load -> prepare -> recheck -> ... -> send -> off

Position and open orders are read one after the other, the leverage is confirmed
or ends the process, the row is looked up, committed and sent in three steps, and any process may be killed before or after
each. The account is static but for the fills of the makers: positions the
operator opens by hand and transfers meanwhile are not modelled. A plan's ids are
digests of its scan's time, so each scan has a new id; `PlanIds` bounds how many
scans are told apart. The monitor is a process that is started on its own, with the
settings of that moment (`MonitorSettings`), so the plan file may hold plans that
were made with another capital or leverage than the running process has. A failure of
a scan leads to another one, up to `MaxShift` failures in a row: the next delay is no
float any more, and the handler's own OverflowError ends the monitor (`AfterFailure`).

### FundingEntry

Below the worker, `rows` (committed) and `real` (exchange) are what the ledger
promises, so the entry is checked against the engine's guarantee and not against
the engine's detail. `session`, `outbox` and `charged` (quantity whose commission
is journaled) are the durable rows; `queue` is the committed-event queue and
`worker` the process, both lost when it ends. `worker.at` names the commit or call
it has reached:

    down -> sync -> [submit -> await -> save] -> resume -> dispatch... -> startup
         -> plan -> decide -> persist... -> [activate | halt] -> dispatch
         -> execute -> [await] -> finish -> [continue | recover] -> ... -> idle

Between two steps the stream, the exchange, a reconnection or a crash may come.
`plan -> decide` is the gap between `reconcile_fills` with its completeness check
and the reading of quantities; each command is a commit of its own; marking an
action IN_PROGRESS, executing it and recording its outcome are three. A commission
can be journaled before the row has the quantity it was charged on; the calculator
refuses to calculate with more commission than quantity, and the plan fails (`CommissionIsRefused`). Action ids
are digests of the event's id, kind and quantity, so `SameId` compares those.

Abstractions. The reads of one plan after `decide` are one moment (rows and journal
of one order are two queries in the code). Events between a connection's loss and
its sweep are not delivered at all, so a reconnection is one step. RECONCILE asks
for all orders in one step, or fails after some of them. The limit of twelve
dispatches per event ends the process and is one of the crashes. The fallback id
of an event without id is left out: all events the worker gets have one. Orders
that `dispatch` returns for a failed hedge are planned for an inactive session and
change nothing. A failing query for a hedge of unknown outcome is not an action of
`_execute` here because no hedge gets there: a start that cannot resolve it ends,
and `ResumedHedgeIsKnown` checks just that. One session is modelled; sessions share no state but the account.

## Runs

| Run | Question | Instance | Result |
|---|---|---|---|
| `order_engine` | concurrency, loss, duplication, crashes on one order; the ledger; are ends learned, locks released? | 2 worker threads and the monitor, 2 lots, 2 faults, fair | holds |
| `fill_journal` | do row, journal, price and fees agree through every payload and crash? | 2 lots, both markets, 1 fault, fair | holds |
| `stream_runtime` | is every gap followed by a sweep, the flag true, the gate late enough? | 2 changes, 2 faults, 1 rotation per process, fair | holds |
| `rest_transport` | at most one effect per request, truthful verdicts but for the misread answers, ends | 2 calls of any kind, 2 faults, fair | holds |
| `funding_launch` | one entry, one session, a safe maker of a plan with the right settings | both processes and the monitor, 2 symbols, 2 prices, 2 monitor settings, 4 accounts, 2 plans, 1 fault | holds |
| `funding_entry` | any single fault during an entry | maker of 2, prices 1 and 2, minimum value 2 | holds |
| `funding_restarts` | two faults, crashes included; is every fill hedged? | maker of 1, fair | holds |
| `funding_fees` | are all commissions known when a session opens? | maker of 3, commission in the base asset, 1 fault | violated |
| `funding_lost_hedge` | `funding_restarts` without the exception | maker of 1, 2 faults, fair | violated |
| `funding_lost_cancel` | is the maker off the book after a failed hedge and a lost cancel? | maker of 2, 2 faults | violated |
| `stream_lost_key` | is every change learned unless the process ends? | 1 change, 2 faults, fair | violated |
| `launch_orphan` | does every filled maker have a session? | an account in debt, no fault, fair | violated |

Bounds. `MaxFaults` counts crashes, disconnections, lost or failing calls, repeated
events, clock drifts and, in the funding entry, refusals and market orders the
book cannot fill. Two lots are the least with a partial fill; two threads and the
monitor the least with a caller, a competitor and a sweep; two calls the least that
share a clock. Two faults make a process that is restarted with a broken
connection, and a replay that is disturbed in its turn. `MaxSignals` keeps the
producer from reconnecting while three signals wait. The four accounts of `funding_launch` are a
flat one, one that holds the symbol, one that is short of it in hedge mode, and
one of another mode; one of the monitor's settings has a capital half as large again, whose
plans would not fit; `MaxShift` is 0 there, so that its one fault may also be the failure that
ends the monitor (it is 1020 in the code); the books have a best bid off the grid and one at which the maker
exceeds the notional limit. A maker of two gives a first hedge
while the maker can still fill; with prices 1 and 2 and a minimum value of 2 one
unit is dust at one price and tradable at the other, and two units exceed the
session's capital at the higher price, which cancels the maker. A maker of three with
`HighCommission` (two of three units) has a commission larger than the
tolerance, which is one step as in `_load_session_baseline`: it stands for a fee that
exceeds the increment, as that of a large order does. The passing runs of the entry charge
none, but lag behind in knowing so; `NeverOverHedgedTheorem` is for every commission. `MaxActions` bounds
the outbox and is never reached in the passing runs. `funding_entry`,
`funding_restarts`, `funding_launch` and `fill_journal` do not check for deadlock: an
idle worker waits for events that need not come, a process that is down because
an order is unresolved stays down, an order ends, and scans end with the plans
that are told apart.

Fairness. Everywhere it is what the code and the network give: a thread or task
that can proceed does, requests and answers that are not lost arrive, timers fire.
In `order_engine` a stopped process is restarted and reconnects; taking an
event and beginning the sweep's reconciliation of an order need strong fairness:
crashes and calls that hold the order's lock disable them again and again. In
`stream_runtime` the producer, the monitor and the consumer are weakly fair and no
restart is assumed. In `rest_transport` a caller stops waiting after its timeout.
In `fill_journal` the condition is spelled out (`CanProgress`, `CanWork`) in
place of ENABLED, which TLC evaluates slowly there; it says that the steps of
threads, frames, answers and reconnections, and those of the worker, happen if they stay possible.
`funding_launch` checks safety only; `launch_orphan` has fair scans and steps of the
processes, and an operator who starts `main` again and again with plans
that are not always too old, on an exchange that does not refuse the leverage for ever. In `FundingEntry` the worker is one loop of one task (`asyncio.to_thread` runs each
step to its end), so weak fairness of its steps is the scheduler's; the consumer's
loop delivers commits; the exchange accepts what it is asked while the caller
waits, completes market orders, and shows fills if it is asked again and again
(strong fairness, because each plan asks once). A restart is not assumed:
`FillsAreHedged` is satisfied while the process is down.

### What the violated runs show

* `funding_fees`: `process_event` checks that the fill history accounts for every
  execution (`worker.py:699`), then fetches rules and prices, then reads the quantities
  (`716`). A reconnection's sweep that commits a hedge's fill in between brings no
  commission with it: the fill is counted gross, found neutral, and the session is OPEN
  although the comment above the check (`worker.py:694`) and `docs/ARCHITECTURE.md:115-118`
  say that it is not until the fees are there. `OpenIsNeutral` fails with it, because what the
  commission took is not covered by anything.
* `funding_lost_hedge`: `_startup_event` has the same id at every start with the
  same maker. A hedge planned from it that expires unfilled, with the process ending
  before it plans from that result, is COMPLETED; the next start reuses the
  action, dispatch skips it, and with a FILLED maker no other event comes.
  `FillsAreHedgedOrForgotten` in `funding_restarts` shows that, within its bounds, this is the only way.
* `funding_lost_cancel`: a cancel that is lost returns the reconciled, still open
  order. `dispatch` marks CANCEL_MAKER as COMPLETED; the paused session leaves the
  maker on the book and hedges nothing it sells later.
* `stream_lost_key`: after a `listenKeyExpired` message the key is rebuilt inside the
  `try`. A POST that fails after the DELETE leaves no key, the general handler backs
  off, and every later connection raises "listen key is not available". The process stays up, mute.
  `ChangesAreLearnedWithAKey` in `stream_runtime` shows that, within its bounds, this is the only way.
* `launch_orphan`: the session's baseline is total minus borrowed, and nothing asks
  for its sign before the maker is submitted; `FundingSession` refuses a negative
  one afterwards. The process ends, the maker fills, no session hedges it, and
  later starts refuse its position. With an account without debt the property
  holds when no process is killed; killed between submission and session
  (`main.py:270`) it fails as well, because a later start scans anew, with new
  ids, and never meets the maker that the comment there means to reuse.

Shown as an explicit step and not as a run: `Misread` of `SideEffect`. An order that was
accepted and answered by a server error or an unreadable body is recorded as REJECTED for
good, although `docs/ORDER_ENGINE_CONCEPTS.md:93` sends an unclassified error to recovery
and `docs/BINANCE_GATEWAY_CONTRACT.md:53-57` calls validation, permission, rate limit and
parameter errors definite refusals. With one fault TLC reaches a
request that took effect and is reported as refused; the invariant
`\A c \in MisreadCalls : effects[c] = 0` shows the trace.

Seen while modelling, and promised otherwise by no document: per-order locks are objects
of one process, so that `order-status` and `cancel-order` can take a recorded fill back
until the next event or sweep; two programs that enter the same symbol at once can both
pass their last check (`overlapped`); after 1020 failures in a row, some 42 days at the default
interval of an hour, the monitor ends.

## Theorems

`OrderExecutionProofs` proves `TypeOK`, `FillsAreReal`, `TerminalIsFinal`, `AtMostOnePlacement`
and `AnswersAreAccepted` as invariants, for every set of orders, threads and command
line threads, any quantity and any number of faults. Only the first is inductive:
that a row's fill is real needs that every snapshot under way (an answer on its
way, an event in flight, a value held by a call) is a past state of the order at the
exchange; that a terminal row is final needs that a rejected order has no
request left that could create it; that an order is placed once needs that its id
is sent in one submission only, across restarts. `EngineInvariant` is the
conjunction of these; one lemma per action shows that it is preserved. The only
assumptions are the named `ASSUME`s on the constants.

`ImplementsLedgerTheorem` is the refinement: every step of the engine is a step of
`OrderLedger` or a stutter, so a row never moves backwards. It assumes `Cli = {}`,
as the run does, and without that it is false: a command line tool has locks of its own and can
commit over a row the engine has moved on. The invariant it adds is what the locks are
for. An order has one call at a time (`LocksAreExclusive`), and what that call read
when it took the lock is still the row when it commits (`LocalIsRow`); the
snapshot it applies is hence compared with the very row it replaces, and
`OrderStateMachine.apply` lets the fill only grow.

`FillJournalProofs` proves every safety property of `FillJournal`, for any quantity and
any number of faults: `TypeOK`, `RowIsItsJournal`, `PriceIsOfItsFills`,
`FeesAreCountedOnce`, `CompleteMeansEveryFee`, and the refinement of `OrderLedger`
by row and order (`RowImplementsLedger`). They follow from one inductive invariant, `Inv`
(`JournalInvariant`):

* *The order grows.* The exchange's order is always one its trades add up to
  (`IsSound`), and a step of the exchange takes it to one it may become (`Grows`).
* *All that is heard is news.* A frame, an answer or a line of the history is a statement the
  exchange's order makes, about now or about an earlier moment (`StreamIsNews`,
  `JournalIsReal`), and news stays news when the order grows. That both products' payloads
  give the exact price of what they count is arithmetic on `AverageOf`, done once.
* *Commits start from the row.* One thread holds the lock (`LockIsExclusive`); the row it is about
  to write is the present row plus the event it is about to journal
  (`CommitsAreSound`). Crash, failed commit or duplicate drop both together, so
  `RowIsItsJournal` survives them. An order is on disk before its request
  leaves (`RequestComesFirst`), and a row that has it is one the exchange backs (`RowIsBacked`).
* *The history is written down in order.* The journal may stop anywhere in the history, but a trade written from it
  comes after all earlier ones are known (`HistoryIsInOrder`, `WorkerIsBehind`). Without that,
  `CompleteMeansEveryFee` has no reason to hold: the code takes a history for complete when
  the quantities of its trades amount to the row's, and a later trade could make up for
  a missing earlier one. With it, the known trades are the first ones and those the stream told,
  and a sum that is reached names them all.

The steps of the module differ in detail more than in what they do to the invariant, so a
lemma, `StepKinds`, first sorts them into kinds (the exchange moves, a frame is lost or
repeated, a thread takes the lock, begins or ends a commit, the worker writes), and
each conjunct has a lemma over those. The quantities are sums over sets (`TotalOf`, a `FoldSet`). What is needed of them is that they do
not depend on the order of summation and that a subset with the whole sum is the
whole set; both are proved from a least set at which they would fail.

`FundingPolicyProofs` needs no invariant. `HedgeCoversOnce`: for all quantities,
increments, minimums and prices, a tradable hedge plus what is bought and what is
reserved covers at most what was sold, in whole increments above the minimums.
`LeftoverIsDust`: what is left is less than an increment or below the minimums.
`HedgesOnlyWhatIsUncovered` and `OpensOnlyWhenNeutral` say when the policy can
decide on SUBMIT_HEDGE and MARK_OPEN at all.

`OrderPlanningProofs` is about the arithmetic between a plan and an order, for all
books, ticks, prices and capitals: `MakerPriceRests`, `QuoteKeepsFairValue` and
`MakerIsSafe` for the price, `QuantityKeepsFilters`, `LegsFitCapital` and `PlanFitsBudget`
for the size, `ApprovedEntryKeepsLimits` for the pre-trade check. Divisions and
roundings are bounded by lemmas on `\div` and `%`, and products are kept apart step by
step, since the provers' arithmetic is linear.

`FundingLaunchProofs` proves the six safety invariants of `FundingLaunch`, for any
market, accounts, processes and faults. For `PreparedMakerRests` and
`PreparedFitsCapital`, `MakersAreSound` adds that a process has no maker before it has
prepared one and prepares only for a plan of its own capital and leverage; plan files, reads and
other processes then cannot disturb it, and the arithmetic is that of
`OrderPlanningProofs`. The other four are parts of one inductive invariant,
`LaunchInv`: what a process has read of positions and orders stays true while it goes on,
unless another one overlapped with it (`Stands`); `main` knows of the only session it
could disturb (`Knows`); row, exchange, session and plan file agree about each order
(`Agrees`), so a maker and a session exist only under a row.
`OneEntryPerSymbol` then follows from the two reads before a submission,
`EntryStartsFlat` from the preflight, which keeps the accounts out whose positions those reads miss.
Assumed is that prices and filters are whole numbers of smallest units
(`MarketAssumption`); that the ticks a book's pressure asks for are an integer
(`PressureAssumption`: a sum over the levels of a book); that plan ids are finitely many and none
is the null value, nor is a confirmed symbol (`LaunchAssumption`); and that the exchange lists a
position of every symbol, held or not (`AccountAssumption`).

`StreamRuntimeProofs` proves `MakerStartsReconciled`, `FlagFollowsConnection` and
`NoChangeIsMissed` for any number of changes, connections, faults and waiting
signals. The strengthening says three things. The last signal that was emitted
tells whether there is a connection (`StateIsAnnounced`), so that a monitor that has
handled them all knows the truth. An answer is not older than the process that asked
(`AnswersAreFresh`). And over a connection that delivers, a change that is on no
frame or event is covered by a signal, or a reconciliation, that is still to come
(`GapsAreCovered`): with the flag up and the signals handled only the last sweep's own
answer could be left, and that one is written before the flag is set.

`RestTransportProofs` proves `LeverageIsConfirmed` and that `RestTransport` implements
`SideEffect` (`ImplementsSideEffectTheorem`): initial states map to initial states, and
each step to a step of the abstract specification or to a stutter. What it says is that
an effect happens once, that "done" is true, and that "refused" is true unless the call was
answered by one of the two unclear answers (`Misread`). The invariant
relates requests, answers and effects: a request that changes the account is under
way at most once (`EffectIsKnown`), is no longer under way once it was applied or
refused, and an answer that waits tells which of the two it was. The
replay after -1021 keeps this because the refusal has taken the first request away.

`FundingEntryProofs` proves `TypeOK`, `NeverOverHedged`, `OneHedgeAtATime`,
`FailedHedgeStops` and `ResumedHedgeIsKnown`, for any target, commission, prices,
filters and number of faults. None is inductive, and they need each other, so there is one
invariant, `Inv`, with a lemma for each action of the module:

* *Orders.* A row is behind its order at the exchange and never ahead of it, a
  terminal row is its end or a rejection of an order that does not exist, and a hedge that is
  open has bought nothing it was charged for (`OrderIsRecorded`): what the ledger promises.
* *Claims.* A hedge is *live* while its action is unfinished or its row is open. A live
  hedge claims all it was asked for, any other what it has bought net of its
  commission; the claims together are at most what the maker has sold
  (`ClaimsAreCovered`). Nothing but planning can raise a claim, since an order that
  ends buys no more than was asked for. Planning is where `HedgeCoversOnce` of
  `FundingPolicyProofs` enters: the calculator's reservations are the claims of
  the hedges it sees, and it reads the maker before it asks for prices (`MakerIsRead`), when it had
  sold no more than now. `NeverOverHedged` follows, as a claim is at least what was bought.
* *One at a time.* At most one hedge is live (`OneIsLive`). A plan asks for a new one
  only if none is; between the plan and its last commit none can become so, because
  the worker is alone in writing the outbox (`CommandsAreCovered`).
* *Order of dispatch.* What is still to be dispatched holds a live hedge once, and no MARK_OPEN
  after it (`HedgesAreLast`, `OpeningsComeFirst`). A hedge that fails is hence the last of
  the outbox (`FailureIsLast`), and nothing that is resumed makes the session active again.
* *Resumption.* A hedge of unknown outcome is on nobody's list (`UnknownIsLeft`):
  before a start resumes the outbox the sweep has resolved it or ended the process,
  and after an answer that is unknown the dispatcher goes on without it.

Assumed are that a commission is a part of what was bought and grows with it
(`CommissionAssumption`), the whole numbers of `MarketAssumption`, and a positive target.
The sums over the hedges, `Total`, and the lists in order, `InOrder`, are recursive
functions. The library's induction schemes are out of the provers' reach, so what
is needed of them (`TotalShifts`, `TotalSubtracts`, `InOrderLists`) is proved from the least index at
which it would fail, which exists because `<` on the naturals is well-founded (`LeastNumber`).

Model-checked only:

* liveness (`EndsAreLearned`, `LocksAreReleased`, `FeesAreLearned`,
  `ChangesAreLearnedWithAKey`, `CallsEnd`, `FillsAreHedgedOrForgotten`):
  the prover handles neither fairness nor ENABLED;
* `PausedEntryHasNoMaker` and `OpenIsNeutral`: they hold for the instance and the one fault
  of `funding_entry` and not in general. `funding_lost_cancel` shows what a second fault does to the
  first; with a commission, the race of `funding_fees` does it to the other.

`ImplementsLedger` of `OrderExecution` is claimed, checked and proved without command line tools only.

## Not modelled, and plan

Not modelled: rate-limit counters (recorded, never waited for), signing, request
parameters, row encoding and schema, container construction, the preview's output,
notifications and timing, the in-memory test doubles, and the earlier strategy and
notebooks under `legacy/`, which nothing imports. No decision depends on them, or they are pure I/O.
The exit of a session is not in the code yet.

Every other safety property that a passing run checks is a theorem. What remains is of another
kind: the hazards of `PROJECT.json` without a property, each with its reason there, and
more than one order in `FillJournal`, whose orders share nothing but SQLite's write lock.

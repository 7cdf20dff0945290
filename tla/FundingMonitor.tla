-------------------------- MODULE FundingMonitor --------------------------
(* strategies/funding_rate/scanner.py and monitor.py: the choice of a      *)
(* funding candidate from public market data, the plan file that carries   *)
(* the decision to the processes that trade, and the monitor that keeps    *)
(* scanning through failures.                                              *)
(*                                                                         *)
(* A scan reads only public data, changes nothing but the scanning process *)
(* and is not seen before its plan is saved: it is one step with the save, *)
(* its inputs chosen from the sets below.  The universe of symbols is kept *)
(* for an hour, so it may be that of any of Listings.  Time is left out,   *)
(* and so is Discord but for the failure a report can end in.              *)
EXTENDS OrderPlanning, FiniteSets

CONSTANTS
    Symbols,        \* what the venue lists
    Listings,       \* [spot, perpetual] pairs of exchangeInfo answers, functions
                    \* Symbols -> [status, quoteAsset, contractType]
    MarketRows,     \* functions Symbols -> [rate, interval, volume]
    Answering,      \* sets of symbols whose two order books a scan obtains
    Prices,         \* [spotAsk, perpetualBid] pairs
    MinRate,        \* funding_min_annualized_rate
    MinVolume,      \* funding_min_quote_volume_24h
    TopN,           \* funding_top_n
    Capital,        \* funding_capital of the trading processes
    Leverage,       \* funding_leverage
    MonitorSettings,\* [capital, leverage] a running monitor may have, which is
                    \* started, and restarted, with settings of its own
    PlanIds,        \* bound: plans that can be told apart at once
    MaxShift,       \* failures in a row whose retry delay still fits a float
    MaxFaults       \* bound on crashes, failures and lost calls

Own == [capital |-> Capital, leverage |-> Leverage]

Accepted == [capital : Nat \ {0}, leverage : 1..125]

\* Settings.__post_init__ refuses anything else.
SettingsAccepted ==
    /\ MinRate >= 0 /\ MinVolume >= 0
    /\ TopN \in 1..10
    /\ Own \in Accepted /\ MonitorSettings \subseteq Accepted

ASSUME SettingsAssumption == SettingsAccepted

VARIABLES
    planFile,   \* order_plan.json: [is, plan, id], is "none" or "whole"
    mon,        \* the monitor process: [pc, failures]
    faults

monitorVars == <<planFile, mon>>

-----------------------------------------------------------------------------
(* scan_funding_candidates and build_funding_order_plan *)

\* _eligible_symbols of one exchangeInfo answer.
EligibleSymbols(listing, perpetualOnly) ==
    {s \in Symbols : /\ listing[s] # None
                     /\ listing[s].status = "TRADING"
                     /\ listing[s].quoteAsset = "USDT"
                     /\ perpetualOnly => listing[s].contractType = "PERPETUAL"}

Universes ==
    {EligibleSymbols(l.spot, FALSE) \cap EligibleSymbols(l.perpetual, TRUE) : l \in Listings}

HoursPerYear == 24 * 365

\* a's annualized rate, then its volume, then its name rank above b's.
Above(rows, order, a, b) ==
    LET ra == rows[a].rate * rows[b].interval
        rb == rows[b].rate * rows[a].interval
    IN \/ ra > rb
       \/ ra = rb /\ rows[a].volume > rows[b].volume
       \/ ra = rb /\ rows[a].volume = rows[b].volume /\ order[a] > order[b]

\* The code's symbols are strings and compare by name.
SymbolOrder == CHOOSE f \in [Symbols -> 1..Cardinality(Symbols)] :
                   \A a, b \in Symbols : f[a] = f[b] => a = b

Eligible(rows, universe) ==
    {s \in universe :
        /\ rows[s] # None
        /\ rows[s].rate > 0
        /\ rows[s].rate * HoursPerYear >= MinRate * rows[s].interval
        /\ rows[s].volume >= MinVolume}

Candidates(rows, universe) ==
    LET eligible == Eligible(rows, universe)
    IN {s \in eligible :
           Cardinality({t \in eligible : Above(rows, SymbolOrder, t, s)}) < TopN}

NoCandidate == [status |-> "NO_CANDIDATE"]

ReadyPlan(s, price, by) ==
    [status |-> "READY", symbol |-> s, capital |-> by.capital, leverage |-> by.leverage,
     quantity |-> BaseQuantity(by.capital, by.leverage, price.spotAsk, price.perpetualBid),
     price |-> price]

\* The decision of one scan: the best candidate whose two books answered.
FundingPlan(rows, universe, priced, price, by) ==
    LET executable == Candidates(rows, universe) \cap priced
    IN IF executable = {} THEN NoCandidate
       ELSE LET best == CHOOSE s \in executable :
                            \A t \in executable \ {s} : Above(rows, SymbolOrder, s, t)
            IN ReadyPlan(best, price, by)

\* Whatever a scan with some settings can decide.
ScannedPlans(by) ==
    {FundingPlan(scan.rows, scan.universe, scan.priced, scan.price, by) :
        scan \in [rows : MarketRows, universe : Universes, priced : Answering, price : Prices]}

PlansOfProcesses == ScannedPlans(Own)

PlansOfMonitors == UNION {ScannedPlans(by) : by \in MonitorSettings}

-----------------------------------------------------------------------------
(* The plan file *)

ReadyPlans ==
    {ReadyPlan(s, price, by) : s \in Symbols, price \in Prices, by \in {Own} \cup MonitorSettings}

\* A plan in the file also has the moment of its scan, from which the ids of
\* its execution and of its orders are derived.
Written(plan, id) == [is |-> "whole", plan |-> plan, id |-> id]

NoFile == [is |-> "none", plan |-> NoCandidate, id |-> 0]

\* os.replace: readers see the old file or the new one.
Replace(plan, id) == planFile' = Written(plan, id)

-----------------------------------------------------------------------------
(* FundingRateMonitor.run_forever *)

MonitorDown == [pc |-> "down", failures |-> 0]

MonitorInit ==
    /\ planFile = NoFile
    /\ mon = MonitorDown
    /\ faults = 0

MonitorStarts ==
    /\ mon.pc = "down"
    /\ mon' = [mon EXCEPT !.pc = "scan"]
    /\ UNCHANGED <<planFile, faults>>

\* scan_once, save_order_plan and the report.  The plan is written to a
\* temporary file, synced, and only then replaces the one before it; the
\* count of failures is cleared last.
MonitorScans(id) ==
    /\ mon.pc = "scan"
    /\ \E plan \in PlansOfMonitors : Replace(plan, id)
    /\ mon' = [mon EXCEPT !.failures = 0]
    /\ UNCHANGED faults

\* The delay after a failure is 30 * 2 ^ (failures - 1) seconds, made a float
\* before it is cut to the scan interval: past MaxShift it overflows in the
\* handler of the failure and ends the process, whose count is gone with it.
AfterFailure(m) ==
    IF m.failures = MaxShift THEN MonitorDown
    ELSE [m EXCEPT !.pc = "scan", !.failures = @ + 1]

\* A request of the scan, rendering or saving raised, or the report did when
\* the plan was saved already.
MonitorFails(id) ==
    /\ mon.pc = "scan" /\ faults < MaxFaults
    /\ faults' = faults + 1
    /\ mon' = AfterFailure(mon)
    /\ \/ UNCHANGED planFile
       \/ \E plan \in PlansOfMonitors : Replace(plan, id)

\* The process is killed or interrupted; a temporary file may be left behind.
MonitorStops ==
    /\ mon.pc # "down" /\ faults < MaxFaults
    /\ faults' = faults + 1
    /\ mon' = MonitorDown
    /\ UNCHANGED planFile
=============================================================================

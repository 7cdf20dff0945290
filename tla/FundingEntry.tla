---------------------------- MODULE FundingEntry ----------------------------
(***************************************************************************)
(* The funding entry: FundingStrategyWorker and FundingActionDispatcher    *)
(* with their durable session and action outbox, started, stopped and      *)
(* restarted by FundingRateStrategyApplication.  A perpetual maker fills   *)
(* at the exchange; the worker plans a Spot hedge for every committed      *)
(* fill, persists the plan as actions and dispatches them.                 *)
(*                                                                         *)
(* Below the worker is the order engine.  Here it does what OrderLedger    *)
(* promises: a row exists before its order reaches the exchange, recorded  *)
(* fills are real, terminal rows are final.  The worker's steps are the    *)
(* points between its commits and network calls: the stream, the exchange  *)
(* and a crash may come between any two of them.                           *)
(***************************************************************************)
EXTENDS FundingPolicy, FiniteSets

CONSTANTS
    Target,          \* quantity of the perpetual maker
    Prices,          \* best asks the market may show
    Commission(_),   \* base-asset commission of a bought quantity
    MaxActions,      \* bound on the actions of a session
    MaxFaults        \* bound on crashes, reconnections, failures, duplicates

ASSUME TargetAssumption == Target \in Nat \ {0}
ASSUME PricesAssumption == Prices \subseteq Nat \ {0}
ASSUME EntryBoundsAssumption == MaxActions \in Nat /\ MaxFaults \in Nat

(* Every fill has its own commission, which is a part of what it bought.   *)
ASSUME CommissionAssumption ==
    \A bought \in 0 .. Target :
        /\ Commission(bought) \in 0 .. bought
        /\ \A less \in 0 .. bought : Commission(less) <= Commission(bought)

(* Order 0 is the maker.  The hedge of outbox action i is order i: both    *)
(* ids are digests of the same text.                                       *)
Maker == 0
Slots == 0 .. MaxActions

VARIABLES
    session,   \* status of the funding session's row
    outbox,    \* the session's actions in the order they were created
    rows,      \* order snapshots the engine has committed
    real,      \* orders as the exchange has them
    charged,   \* bought quantity whose commission is journaled, per order
    queue,     \* committed order events the worker has not taken yet
    worker,    \* what the application's process is doing
    faults     \* faults so far

vars == <<session, outbox, rows, real, charged, queue, worker, faults>>

Absent == [state |-> "ABSENT", cum |-> 0]

(* Identity of an event: action ids are digests of it.  The id of a        *)
(* dispatch result names the action, not the order it returned.            *)
Source(from, ref, state, cum) ==
    [from |-> from, ref |-> ref, state |-> state, cum |-> cum, failed |-> FALSE]

OrderEvent(kind, order, source) ==
    [kind |-> kind, order |-> order, source |-> source]

NoEvent == OrderEvent("NONE", Maker, Source("NONE", 0, "ABSENT", 0))

Off == [at |-> "down", mode |-> "recovery", todo |-> <<>>, results |-> <<>>,
        event |-> NoEvent, maker |-> Absent, commands |-> <<>>,
        planned |-> <<>>, action |-> 0, resumed |-> FALSE, connection |-> 0]

Hedges == {i \in DOMAIN outbox : outbox[i].kind = "SUBMIT_HEDGE"}

Requested(i) == IF i = Maker THEN Target ELSE outbox[i].quantity

IsOpen(i) == rows[i] # Absent /\ ~IsTerminal(rows[i])

Fault == faults < MaxFaults /\ faults' = faults + 1

(* The sum of what a function has for actions of the outbox.               *)
Total(f) ==
    LET sum[n \in 0 .. MaxActions] ==
            IF n = 0 THEN 0
            ELSE sum[n - 1] + (IF n \in DOMAIN f THEN f[n] ELSE 0)
    IN  sum[MaxActions]

(* The members of a set of orders, or of actions, oldest first.            *)
InOrder(slots) ==
    LET upTo[n \in 0 .. MaxActions + 1] ==
            IF n = 0 THEN <<>>
            ELSE IF n - 1 \in slots THEN Append(upTo[n - 1], n - 1)
            ELSE upTo[n - 1]
    IN  upTo[MaxActions + 1]

-----------------------------------------------------------------------------
(* The outbox.  Saving an action whose id is already there changes nothing.*)

ActionStatus == {"PENDING", "IN_PROGRESS", "COMPLETED", "FAILED"}

Action(command, source) ==
    [kind |-> command.kind, quantity |-> command.quantity, source |-> source,
     status |-> "PENDING"]

SameId(a, b) ==
    a.kind = b.kind /\ a.quantity = b.quantity /\ a.source = b.source

Saved(box, action) ==
    IF \E i \in DOMAIN box : SameId(box[i], action) THEN box ELSE Append(box, action)

Position(box, action) == CHOOSE i \in DOMAIN box : SameId(box[i], action)

Pending ==
    InOrder({i \in DOMAIN outbox : outbox[i].status \in {"PENDING", "IN_PROGRESS"}})

Marked(box, i, status) == [box EXCEPT ![i].status = status]

-----------------------------------------------------------------------------
(* Where the worker goes when a plan or a dispatch is done: the results of *)
(* the last dispatch are planned first, then the next action is taken.     *)

ResultKind(row) ==
    IF row.state \in {"REJECTED", "CANCELED", "EXPIRED"} THEN row.state
    ELSE IF row.state = "UNKNOWN" THEN "REQUEST_TIMED_OUT"
    ELSE "RECONCILED"

ResultEvent(action, result) ==
    OrderEvent(ResultKind(result.row), result.order,
               Source("dispatch", action, result.row.state, result.row.cum))

Proceed(w) ==
    IF w.results # <<>>
    THEN [w EXCEPT !.at = "plan", !.results = Tail(@),
                   !.event = ResultEvent(w.action, Head(w.results))]
    ELSE [w EXCEPT !.at = IF w.todo # <<>> THEN "dispatch"
                          ELSE IF w.mode = "recovery" THEN "startup" ELSE "idle",
                   !.action = 0, !.mode = IF @ = "stop" /\ w.todo = <<>> THEN "events" ELSE @]

(* plan_event returns the actions it planned.                              *)
EndPlan(w) ==
    Proceed([w EXCEPT !.todo = @ \o w.planned, !.planned = <<>>,
                      !.event = NoEvent, !.maker = Absent])

(* dispatch returns: only process_event looks at the orders.               *)
EndDispatch(w, results) ==
    Proceed([w EXCEPT !.results = IF w.mode = "events" THEN results ELSE <<>>,
                      !.resumed = FALSE])

(* The process ends: its queue is lost, the database is not.               *)
StopProcess == worker' = Off /\ queue' = <<>>

Running == worker.at \notin {"down", "sync"}

(* An order whose lock the worker holds while it waits for the exchange.   *)
InCall(i) ==
    /\ worker.at = "await"
    /\ i = IF worker.action \in Hedges THEN worker.action ELSE Maker

-----------------------------------------------------------------------------
(* The exchange.                                                           *)

OpenAtExchange == {"NEW", "PARTIALLY_FILLED"}

(* A maker rests or is expired for taking, a market hedge fills.           *)
ExchangeAccepts(i) ==
    /\ IsOpen(i) /\ real[i] = Absent
    /\ \E state \in {"NEW", IF i = Maker THEN "EXPIRED" ELSE "FILLED"} :
          real' = [real EXCEPT ![i] =
                      [state |-> state, cum |-> IF state = "FILLED" THEN Requested(i) ELSE 0]]
    /\ UNCHANGED <<session, outbox, rows, charged, queue, worker, faults>>

ExchangeFills(i) ==
    /\ real[i].state \in OpenAtExchange
    /\ \E cum \in IF i = Maker THEN real[i].cum + 1 .. Target ELSE {Requested(i)} :
          real' = [real EXCEPT ![i] =
                      [state |-> StateAfterTrade(Requested(i), cum), cum |-> cum]]
    /\ UNCHANGED <<session, outbox, rows, charged, queue, worker, faults>>

ExchangeCancelsMaker ==
    /\ real[Maker].state \in OpenAtExchange
    /\ real' = [real EXCEPT ![Maker].state = "CANCELED"]
    /\ UNCHANGED <<session, outbox, rows, charged, queue, worker, faults>>

(* The book holds less than a market hedge asks for: the rest expires.     *)
ExchangeExpiresHedge(i) ==
    /\ i \in Hedges
    /\ IsOpen(i) /\ real[i].state \in {"ABSENT", "NEW"}
    /\ Fault
    /\ \E cum \in 0 .. Requested(i) - 1 :
          real' = [real EXCEPT ![i] = [state |-> "EXPIRED", cum |-> cum]]
    /\ UNCHANGED <<session, outbox, rows, charged, queue, worker>>

-----------------------------------------------------------------------------
(* The order engine's other thread: what the stream and the sweeps commit  *)
(* is published to the worker's queue.                                     *)

IsNews(i) ==
    /\ IsOpen(i) /\ real[i] # Absent
    /\ \/ real[i].cum > rows[i].cum
       \/ IsTerminal(real[i])
       \/ rows[i].state \in {"SUBMITTING", "UNKNOWN"}

StreamEvent(kind, i) ==
    OrderEvent(kind, i, Source("stream", i, real[i].state, real[i].cum))

(* Trades carry their commission; acknowledgements decide nothing.         *)
StreamCommits(i) ==
    /\ Running /\ ~InCall(i) /\ IsNews(i)
    /\ rows' = [rows EXCEPT ![i] = real[i]]
    /\ charged' = IF i = Maker THEN charged ELSE [charged EXCEPT ![i] = real[i].cum]
    /\ queue' = queue
          \o (IF real[i].cum > rows[i].cum THEN <<StreamEvent("TRADE", i)>> ELSE <<>>)
          \o (IF real[i].state \in {"CANCELED", "EXPIRED"}
              THEN <<StreamEvent(real[i].state, i)>> ELSE <<>>)
    /\ UNCHANGED <<session, outbox, real, worker, faults>>

(* A trade a REST answer has overtaken is journaled with its commission;   *)
(* one that is delivered twice is published twice.                         *)
StreamRepeats(i) ==
    /\ Running /\ ~InCall(i) /\ rows[i].cum > 0 /\ rows[i] = real[i]
    /\ IF i \in Hedges /\ charged[i] < rows[i].cum
       THEN charged' = [charged EXCEPT ![i] = rows[i].cum] /\ UNCHANGED faults
       ELSE Fault /\ UNCHANGED charged
    /\ queue' = Append(queue, StreamEvent("TRADE", i))
    /\ UNCHANGED <<session, outbox, rows, real, worker>>

(* reconcile_open over the open orders, and the events it publishes.       *)
Swept == [i \in Slots |-> IF IsOpen(i) /\ real[i] # Absent THEN real[i] ELSE rows[i]]

OpenOrders == InOrder({i \in Slots : IsOpen(i)})

SweepEvents(connection) ==
    [n \in DOMAIN OpenOrders |->
        LET i == OpenOrders[n]
        IN  OrderEvent("RECONCILED", i,
                       Source("sweep", <<connection, i>>, Swept[i].state, Swept[i].cum))]

(* Mutant: an order the exchange does not know does not stop the start.    *)
UnresolvedIgnored == FALSE

Unresolved == \E i \in Slots : IsOpen(i) /\ real[i] = Absent

(* The events of a gap are lost, trades and their commissions included.    *)
Reconnect ==
    /\ Running /\ \A i \in Slots : IsOpen(i) => ~InCall(i)
    /\ rows' = Swept
    /\ IF Unresolved
       THEN StopProcess
       ELSE /\ queue' = queue \o SweepEvents(worker.connection + 1)
            /\ worker' = [worker EXCEPT !.connection = @ + 1]
    /\ Fault
    /\ UNCHANGED <<session, outbox, real, charged>>

-----------------------------------------------------------------------------
(* Startup: synchronize, make sure there is a maker and a session, resume  *)
(* the outbox, then plan from the maker as it is.                          *)

InitialStatus(maker) ==
    IF maker.state = "REJECTED" /\ maker.cum = 0 THEN "FAILED"
    ELSE IF IsTerminal(maker) /\ maker.cum = 0 THEN "CLOSED"
    ELSE IF maker.cum > 0 THEN "HEDGING"
    ELSE "ENTERING"

(* A maker that was persisted without its session is adopted.              *)
Start ==
    /\ worker.at = "down"
    /\ session' = IF session = "NONE" /\ rows[Maker] # Absent
                  THEN InitialStatus(rows[Maker]) ELSE session
    /\ worker' = [worker EXCEPT !.at = "sync", !.connection = 1]
    /\ UNCHANGED <<outbox, rows, real, charged, queue, faults>>

Synchronize ==
    /\ worker.at = "sync"
    /\ rows' = Swept
    /\ IF Unresolved
       THEN StopProcess
       ELSE /\ queue' = SweepEvents(1)
            /\ worker' = [worker EXCEPT
                             !.at = IF session = "NONE" THEN "submit" ELSE "resume"]
    /\ UNCHANGED <<session, outbox, real, charged, faults>>

SubmitMaker ==
    /\ worker.at = "submit"
    /\ rows' = [rows EXCEPT ![Maker] = [state |-> "SUBMITTING", cum |-> 0]]
    /\ worker' = [worker EXCEPT !.at = "await"]
    /\ UNCHANGED <<session, outbox, real, charged, queue, faults>>

SaveSession ==
    /\ worker.at = "save"
    /\ session' = InitialStatus(worker.maker)
    /\ worker' = [worker EXCEPT !.at = "resume", !.maker = Absent]
    /\ UNCHANGED <<outbox, rows, real, charged, queue, faults>>

(* Fill history the exchange shows at last, or does not show yet, for the  *)
(* hedges that have an exchange order id.                                  *)
(* Mutant: a fill that is journaled already is counted once more.          *)
FillsSeenAgain(visible) ==
    [i \in Slots |->
        IF visible /\ i \in Hedges /\ rows[i].state \notin {"ABSENT", "SUBMITTING", "UNKNOWN"}
        THEN charged[i] + real[i].cum ELSE charged[i]]

FillsSeen(visible) ==
    [i \in Slots |->
        IF visible /\ i \in Hedges /\ rows[i].state \notin {"ABSENT", "SUBMITTING", "UNKNOWN"}
        THEN real[i].cum ELSE charged[i]]

ResumeOutbox ==
    /\ worker.at = "resume"
    /\ \E visible \in BOOLEAN : charged' = FillsSeen(visible)
    /\ worker' = Proceed([worker EXCEPT !.todo = Pending])
    /\ UNCHANGED <<session, outbox, rows, real, queue, faults>>

(* Planning starts from a fresh event: the startup event, the oldest       *)
(* committed event, or a retry because a commission is missing.            *)
Plan(event) == worker' = [worker EXCEPT !.at = "plan", !.mode = "events", !.event = event]

(* Mutant: the maker as it is after the start is not planned from.         *)
PlanStartupSkipped ==
    /\ worker.at = "startup"
    /\ worker' = [worker EXCEPT !.at = "idle"]
    /\ UNCHANGED <<session, outbox, rows, real, charged, queue, faults>>

PlanStartup ==
    /\ worker.at = "startup"
    /\ Plan(OrderEvent("RECONCILED", Maker,
                       Source("startup", 0, rows[Maker].state, rows[Maker].cum)))
    /\ UNCHANGED <<session, outbox, rows, real, charged, queue, faults>>

TakeEvent ==
    /\ worker.at = "idle" /\ queue # <<>>
    /\ Plan(Head(queue))
    /\ queue' = Tail(queue)
    /\ UNCHANGED <<session, outbox, rows, real, charged, faults>>

FillsAreComplete(journaled) == \A i \in Hedges : rows[i].cum <= journaled[i]

RetryFills ==
    /\ worker.at = "idle" /\ queue = <<>>
    /\ session \in ActiveStatus /\ ~FillsAreComplete(charged)
    /\ Plan(OrderEvent("RECONCILED", Maker,
                       Source("retry", 0, rows[Maker].state, rows[Maker].cum)))
    /\ UNCHANGED <<session, outbox, rows, real, charged, queue, faults>>

-----------------------------------------------------------------------------
(* Planning, FundingStrategyWorker.plan_event.  The maker is read before   *)
(* the fill history is fetched, the hedges and the market after it.  A     *)
(* decision waits until the commission of every hedge fill is known.       *)
BeginPlan ==
    /\ worker.at = "plan" /\ session \in ActiveStatus
    /\ \E visible \in BOOLEAN : charged' = FillsSeen(visible)
    /\ worker' = IF FillsAreComplete(charged')
                 THEN [worker EXCEPT !.at = "decide", !.maker = rows[Maker]]
                 ELSE EndPlan(worker)
    /\ UNCHANGED <<session, outbox, rows, real, queue, faults>>

IgnoreEvent ==
    /\ worker.at = "plan" /\ session \notin ActiveStatus
    /\ worker' = EndPlan(worker)
    /\ UNCHANGED <<session, outbox, rows, real, charged, queue, faults>>

(* Quantity that may still be bought by a hedge.                           *)
(* Mutant: only hedges that have not been submitted are reserved.          *)
ReservedUntilSubmitted(i) ==
    IF rows[i] = Absent /\ outbox[i].status \in {"PENDING", "IN_PROGRESS"}
    THEN Requested(i) ELSE 0

Reserved(i) ==
    IF rows[i] = Absent
    THEN IF outbox[i].status \in {"PENDING", "IN_PROGRESS"} THEN Requested(i) ELSE 0
    ELSE IF IsTerminal(rows[i]) THEN 0
    ELSE Requested(i) - rows[i].cum

SpotBought == Total([i \in Hedges |-> rows[i].cum])
SpotCharged == Total([i \in Hedges |-> Commission(charged[i])])
SpotReserved == Total([i \in Hedges |-> Reserved(i)])

CurrentHedge(price) ==
    HedgeDecision(worker.maker.cum, SpotBought - SpotCharged, SpotReserved, price)

Context(price) ==
    [status |-> session, kind |-> worker.event.kind,
     role |-> IF worker.event.order = Maker THEN "MAKER" ELSE "HEDGE",
     terminal |-> IsTerminal(worker.maker),
     leaves |-> Target - worker.maker.cum,
     hedge |-> CurrentHedge(price), price |-> price]

(* A commission can be journaled before the row has the quantity it was    *)
(* charged on: more commission than quantity is no input of a decision.    *)
CommissionIsRefused == worker.at = "decide" /\ SpotCharged > SpotBought

DecideEvent ==
    /\ worker.at = "decide" /\ ~CommissionIsRefused
    /\ \E price \in Prices :
          LET commands == Decide(Context(price))
          IN  worker' = IF commands = <<>> THEN EndPlan(worker)
                        ELSE [worker EXCEPT !.at = "persist", !.commands = commands]
    /\ UNCHANGED <<session, outbox, rows, real, charged, queue, faults>>

(* A planned hedge makes an entering session a hedging one.                *)
PlanIsSaved(w) ==
    IF w.commands # <<>> THEN w
    ELSE IF w.mode = "stop" THEN [w EXCEPT !.at = "halt"]
    ELSE IF session = "ENTERING" /\ \E n \in DOMAIN w.planned : w.planned[n] \in Hedges'
    THEN [w EXCEPT !.at = "activate"]
    ELSE EndPlan(w)

PersistCommand ==
    /\ worker.at = "persist"
    /\ LET action == Action(Head(worker.commands), worker.event.source)
       IN  /\ outbox' = Saved(outbox, action)
           /\ Len(outbox') <= MaxActions
           /\ worker' = PlanIsSaved([worker EXCEPT
                            !.commands = Tail(@),
                            !.planned = Append(@, Position(outbox', action))])
    /\ UNCHANGED <<session, rows, real, charged, queue, faults>>

Activate ==
    /\ worker.at = "activate"
    /\ session' = "HEDGING"
    /\ worker' = EndPlan(worker)
    /\ UNCHANGED <<outbox, rows, real, charged, queue, faults>>

(* The market data or the fill history cannot be had, or the commission is *)
(* refused.  For an event of the stream the entry is stopped; the plan of  *)
(* a dispatch result has no such handler and its exception ends the        *)
(* process.                                                                *)
StopCommands ==
    <<Command("PAUSE")>>
        \o (IF IsTerminal(rows[Maker]) THEN <<>> ELSE <<Command("CANCEL_MAKER")>>)
        \o <<Command("RECONCILE")>>

PlanFails ==
    /\ worker.at \in {"plan", "decide"} /\ session \in ActiveStatus
    /\ Fault \/ (CommissionIsRefused /\ UNCHANGED faults)
    /\ IF worker.event.source.from = "dispatch"
       THEN StopProcess
       ELSE /\ worker' = [worker EXCEPT !.at = "persist", !.mode = "stop",
                                        !.event.source.failed = TRUE,
                                        !.commands = StopCommands]
            /\ UNCHANGED queue
    /\ UNCHANGED <<session, outbox, rows, real, charged>>

Halt ==
    /\ worker.at = "halt"
    /\ session' = "PAUSED"
    /\ worker' = EndPlan(worker)
    /\ UNCHANGED <<outbox, rows, real, charged, queue, faults>>

-----------------------------------------------------------------------------
(* Dispatching, FundingActionDispatcher.dispatch.  The status is marked,   *)
(* the action executed and its outcome recorded in separate commits.       *)
Current == outbox[worker.action]

Executing(kind) == worker.at = "execute" /\ Current.kind = kind

Returned(i, row) == [order |-> i, row |-> row]

Returns(results) == worker' = [worker EXCEPT !.at = "finish", !.results = results]

DispatchSkips ==
    /\ worker.at = "dispatch"
    /\ outbox[Head(worker.todo)].status \in {"COMPLETED", "FAILED"}
    /\ worker' = EndDispatch([worker EXCEPT !.todo = Tail(@)], <<>>)
    /\ UNCHANGED <<session, outbox, rows, real, charged, queue, faults>>

BeginDispatch ==
    /\ worker.at = "dispatch"
    /\ LET i == Head(worker.todo)
       IN  /\ outbox[i].status \in {"PENDING", "IN_PROGRESS"}
           /\ outbox' = Marked(outbox, i, "IN_PROGRESS")
           /\ worker' = [worker EXCEPT !.at = "execute", !.todo = Tail(@), !.action = i,
                                       !.resumed = outbox[i].status = "IN_PROGRESS"]
    /\ UNCHANGED <<session, rows, real, charged, queue, faults>>

(* _fail_hedge_and_stop: one commit fails the hedge, pauses the session    *)
(* and adds the stop outbox, which is dispatched at once.  The orders it   *)
(* returns are planned for an inactive session: nothing comes of them.     *)
(* Mutant: the orders are inspected, the maker is left on the book.        *)
StopOutboxInspects(i) ==
    <<Action(Command("RECONCILE"), Source("failure", i, "ABSENT", 0))>>

StopOutbox(i) ==
    <<Action(Command("CANCEL_MAKER"), Source("failure", i, "ABSENT", 0)),
      Action(Command("RECONCILE"), Source("failure", i, "ABSENT", 0))>>

(* Mutant: the session is not paused in the commit that fails the hedge.   *)
FailHedgeActive ==
    /\ Len(outbox) + 2 <= MaxActions
    /\ outbox' = Marked(outbox, worker.action, "FAILED") \o StopOutbox(worker.action)
    /\ session' = session
    /\ worker' = [worker EXCEPT !.at = "dispatch", !.action = 0, !.resumed = FALSE,
                                !.results = <<>>,
                                !.todo = [n \in DOMAIN StopOutbox(worker.action) |->
                                             Len(outbox) + n] \o @]

FailHedge ==
    /\ Len(outbox) + 2 <= MaxActions
    /\ outbox' = Marked(outbox, worker.action, "FAILED") \o StopOutbox(worker.action)
    /\ session' = "PAUSED"
    /\ worker' = [worker EXCEPT !.at = "dispatch", !.action = 0, !.resumed = FALSE,
                                !.results = <<>>,
                                !.todo = [n \in DOMAIN StopOutbox(worker.action) |->
                                             Len(outbox) + n] \o @]

FailAction ==
    /\ outbox' = Marked(outbox, worker.action, "FAILED")
    /\ worker' = [worker EXCEPT !.at = "recover"]

RecoverSession ==
    /\ worker.at = "recover"
    /\ session' = "RECOVERING"
    /\ worker' = EndDispatch(worker, <<>>)
    /\ UNCHANGED <<outbox, rows, real, charged, queue, faults>>

-----------------------------------------------------------------------------
(* FundingActionDispatcher._execute, one action per kind of command.       *)
BeginHedge ==
    /\ Executing("SUBMIT_HEDGE") /\ rows[worker.action] = Absent
    /\ rows' = [rows EXCEPT ![worker.action] = [state |-> "SUBMITTING", cum |-> 0]]
    /\ worker' = [worker EXCEPT !.at = "await"]
    /\ UNCHANGED <<session, outbox, real, charged, queue, faults>>

(* Preparation refuses the hedge or cannot be done.                        *)
HedgeIsRefused ==
    /\ Executing("SUBMIT_HEDGE") /\ rows[worker.action] = Absent
    /\ Fault
    /\ FailHedge
    /\ UNCHANGED <<rows, real, charged, queue>>

(* The row as a reconciliation of its order leaves it.                     *)
Reconciled(i) == IF rows[i] # Absent /\ real[i] # Absent THEN real[i] ELSE rows[i]

(* The hedge was submitted before: an unknown outcome is asked for again.  *)
(* A start has resolved it by now (ResumedHedgeIsKnown), so the failure of *)
(* that query is not an action here.                                       *)
ResumeHedge ==
    /\ Executing("SUBMIT_HEDGE") /\ rows[worker.action] # Absent
    /\ LET i == worker.action
           row == IF rows[i].state = "UNKNOWN" THEN Reconciled(i) ELSE rows[i]
       IN  rows' = [rows EXCEPT ![i] = row] /\ Returns(<<Returned(i, row)>>)
    /\ UNCHANGED <<session, outbox, real, charged, queue, faults>>

(* OrderExecutionService.cancel requires an acknowledged order.            *)
BeginCancel ==
    /\ Executing("CANCEL_MAKER")
    /\ IF IsTerminal(rows[Maker])
       THEN Returns(<<Returned(Maker, rows[Maker])>>) /\ UNCHANGED <<outbox, rows>>
       ELSE IF rows[Maker].state \in AllowedFrom["CANCEL_REQUESTED"]
       THEN /\ rows' = [rows EXCEPT ![Maker].state = "PENDING_CANCEL"]
            /\ worker' = [worker EXCEPT !.at = "await"]
            /\ UNCHANGED outbox
       ELSE FailAction /\ UNCHANGED rows
    /\ UNCHANGED <<session, real, charged, queue, faults>>

(* The orders of the session one after the other: the maker, the hedges.   *)
Submitted == InOrder({Maker} \cup {i \in Hedges : rows[i] # Absent})

ReconcileOrders ==
    /\ Executing("RECONCILE")
    /\ rows' = [i \in Slots |-> Reconciled(i)]
    /\ Returns([n \in DOMAIN Submitted |-> Returned(Submitted[n], Reconciled(Submitted[n]))])
    /\ UNCHANGED <<session, outbox, real, charged, queue, faults>>

(* A query raises after those before it have been committed.               *)
ReconcileFails ==
    /\ Executing("RECONCILE")
    /\ Fault
    /\ \E last \in DOMAIN Submitted :
          rows' = [i \in Slots |-> IF i < Submitted[last] THEN Reconciled(i) ELSE rows[i]]
    /\ FailAction
    /\ UNCHANGED <<session, real, charged, queue>>

StatusAfter == [MARK_OPEN |-> "OPEN", PAUSE |-> "PAUSED", RECOVER |-> "RECOVERING"]

SetStatus ==
    /\ worker.at = "execute" /\ Current.kind \in DOMAIN StatusAfter
    /\ session' = StatusAfter[Current.kind]
    /\ Returns(<<>>)
    /\ UNCHANGED <<outbox, rows, real, charged, queue, faults>>

-----------------------------------------------------------------------------
(* The exchange answers, or the network does not.                          *)
Awaited == IF worker.action \in Hedges THEN worker.action ELSE Maker

(* The request under way is the submission of an order that is not there.  *)
Submitting == worker.at = "await" /\ rows[Awaited].state = "SUBMITTING"

Canceling == worker.at = "await" /\ rows[Awaited].state = "PENDING_CANCEL"

(* The service returns the row to the dispatcher, or to the application,   *)
(* whose submission of the maker is not an action of the outbox.           *)
CallReturns(row) ==
    IF worker.action = 0
    THEN worker' = [worker EXCEPT !.at = "save", !.maker = row]
    ELSE Returns(<<Returned(Awaited, row)>>)

SubmitAnswered ==
    /\ Submitting /\ real[Awaited] # Absent
    /\ rows' = [rows EXCEPT ![Awaited] = real[Awaited]]
    /\ CallReturns(real[Awaited])
    /\ UNCHANGED <<session, outbox, real, charged, queue, faults>>

SubmitRejected ==
    /\ Submitting /\ real[Awaited] = Absent
    /\ Fault
    /\ LET row == [state |-> "REJECTED", cum |-> 0]
       IN  rows' = [rows EXCEPT ![Awaited] = row] /\ CallReturns(row)
    /\ UNCHANGED <<session, outbox, real, charged, queue>>

(* The outcome is unknown and asked for; the exchange may not know yet.    *)
SubmitTimesOut ==
    /\ Submitting /\ Fault
    /\ LET row == IF real[Awaited] = Absent THEN [state |-> "UNKNOWN", cum |-> 0]
                  ELSE real[Awaited]
       IN  rows' = [rows EXCEPT ![Awaited] = row] /\ CallReturns(row)
    /\ UNCHANGED <<session, outbox, real, charged, queue>>

(* Asking fails too.                                                       *)
SubmitFails ==
    /\ Submitting /\ Fault
    /\ rows' = [rows EXCEPT ![Awaited].state = "UNKNOWN"]
    /\ IF worker.action = 0
       THEN StopProcess /\ UNCHANGED <<session, outbox>>
       ELSE FailHedge /\ UNCHANGED queue
    /\ UNCHANGED <<real, charged>>

Canceled == [real[Maker] EXCEPT !.state = "CANCELED"]

CancelAnswered ==
    /\ Canceling /\ real[Maker].state \in OpenAtExchange
    /\ real' = [real EXCEPT ![Maker] = Canceled]
    /\ rows' = [rows EXCEPT ![Maker] = Canceled]
    /\ CallReturns(Canceled)
    /\ UNCHANGED <<session, outbox, charged, queue, faults>>

(* The order has ended: the exchange's error is not one the gateway knows. *)
CancelRefused ==
    /\ Canceling /\ IsTerminal(real[Maker])
    /\ FailAction
    /\ UNCHANGED <<session, rows, real, charged, queue, faults>>

CancelTimesOut ==
    /\ Canceling /\ Fault
    /\ real' \in {real} \cup IF real[Maker].state \in OpenAtExchange
                             THEN {[real EXCEPT ![Maker] = Canceled]} ELSE {}
    /\ \/ /\ rows' = [rows EXCEPT ![Maker] = real'[Maker]]
          /\ CallReturns(real'[Maker])
          /\ UNCHANGED outbox
       \/ /\ rows' = [rows EXCEPT ![Maker].state = "UNKNOWN"]
          /\ FailAction
    /\ UNCHANGED <<session, charged, queue>>

-----------------------------------------------------------------------------
(* The outcome of an action, from the orders its execution returned.       *)
ReturnedState(states) ==
    \E n \in DOMAIN worker.results : worker.results[n].row.state \in states

(* The action stays in progress until the next start asks again.           *)
OutcomeIsUnknown ==
    /\ worker.at = "finish" /\ ReturnedState({"UNKNOWN"})
    /\ session' = "PAUSED"
    /\ worker' = EndDispatch(worker, worker.results)
    /\ UNCHANGED <<outbox, rows, real, charged, queue, faults>>

HedgeIsRejected ==
    /\ worker.at = "finish" /\ ~ReturnedState({"UNKNOWN"})
    /\ worker.action \in Hedges /\ ReturnedState({"REJECTED"})
    /\ FailHedge
    /\ UNCHANGED <<rows, real, charged, queue, faults>>

(* A hedge resumed after a restart ends the pause its outcome had caused.  *)
CompleteAction ==
    /\ worker.at = "finish" /\ ~ReturnedState({"UNKNOWN"})
    /\ worker.action \in Hedges => ~ReturnedState({"REJECTED"})
    /\ outbox' = Marked(outbox, worker.action, "COMPLETED")
    /\ worker' = IF worker.resumed /\ worker.action \in Hedges /\ session = "PAUSED"
                 THEN [worker EXCEPT !.at = "continue"]
                 ELSE EndDispatch(worker, worker.results)
    /\ UNCHANGED <<session, rows, real, charged, queue, faults>>

ContinueSession ==
    /\ worker.at = "continue"
    /\ session' = "HEDGING"
    /\ worker' = EndDispatch(worker, worker.results)
    /\ UNCHANGED <<outbox, rows, real, charged, queue, faults>>

(* The process is killed, or an exception nobody handles ends it.          *)
Crash ==
    /\ worker.at # "down"
    /\ Fault
    /\ StopProcess
    /\ UNCHANGED <<session, outbox, rows, real, charged>>

-----------------------------------------------------------------------------
Init ==
    /\ session = "NONE"
    /\ outbox = <<>>
    /\ rows = [i \in Slots |-> Absent]
    /\ real = [i \in Slots |-> Absent]
    /\ charged = [i \in Slots |-> 0]
    /\ queue = <<>>
    /\ worker = Off
    /\ faults = 0

Exchange == \/ \E i \in Slots : ExchangeAccepts(i) \/ ExchangeFills(i)
            \/ ExchangeCancelsMaker

Startup == \/ Start \/ Synchronize \/ SubmitMaker \/ SaveSession
           \/ ResumeOutbox \/ PlanStartup

Planning == \/ TakeEvent \/ RetryFills \/ BeginPlan \/ IgnoreEvent
            \/ DecideEvent \/ PersistCommand \/ Activate \/ Halt

Dispatching ==
    \/ DispatchSkips \/ BeginDispatch \/ RecoverSession
    \/ BeginHedge \/ ResumeHedge \/ BeginCancel \/ ReconcileOrders \/ SetStatus
    \/ SubmitAnswered \/ CancelAnswered \/ CancelRefused
    \/ OutcomeIsUnknown \/ HedgeIsRejected \/ CompleteAction \/ ContinueSession

Failures ==
    \/ PlanFails \/ HedgeIsRefused \/ ReconcileFails
    \/ SubmitRejected \/ SubmitTimesOut \/ SubmitFails \/ CancelTimesOut
    \/ \E i \in Slots : ExchangeExpiresHedge(i)
    \/ Reconnect \/ Crash

Next == \/ Exchange
        \/ \E i \in Slots : StreamCommits(i) \/ StreamRepeats(i)
        \/ Startup \/ Planning \/ Dispatching \/ Failures

Spec == Init /\ [][Next]_vars

-----------------------------------------------------------------------------
(* Fairness: the process runs on while it is up, the stream delivers, the  *)
(* exchange takes an order it is asked to take, completes market orders,   *)
(* and shows fills in the end.  Nobody is obliged to restart the process.  *)
WorkerSteps == Synchronize \/ SubmitMaker \/ SaveSession \/ ResumeOutbox
               \/ PlanStartup \/ Planning \/ Dispatching
               \/ (PlanFails /\ UNCHANGED faults)

Fairness ==
    /\ WF_vars(WorkerSteps)
    /\ SF_vars(BeginPlan /\ charged' = FillsSeen(TRUE))
    /\ WF_vars(\E i \in Slots : StreamCommits(i))
    /\ WF_vars(\E i \in Slots : InCall(i) /\ ExchangeAccepts(i))
    /\ WF_vars(\E i \in Hedges : ExchangeFills(i))

FairSpec == Spec /\ Fairness

-----------------------------------------------------------------------------
SessionStatus == {"NONE", "ENTERING", "HEDGING", "OPEN", "PAUSED", "RECOVERING",
                  "CLOSED", "FAILED"}

(* The shape of the state.                                                 *)
TypeOK ==
    /\ session \in SessionStatus
    /\ Len(outbox) <= MaxActions
    /\ \A i \in DOMAIN outbox : /\ outbox[i].kind \in CommandKind
                                /\ outbox[i].quantity \in 0 .. Target
                                /\ outbox[i].status \in ActionStatus
    /\ \A i \in Slots : /\ rows[i] = Absent \/ rows[i] \in Order(Target)
                        /\ real[i] = Absent \/ real[i] \in Order(Target)
    /\ charged \in [Slots -> 0 .. Target]
    /\ faults \in 0 .. MaxFaults

(* Net Spot bought and perpetual sold, as the exchange has them.           *)
NetBought ==
    Total([i \in Hedges |-> real[i].cum]) - Total([i \in Hedges |-> Commission(real[i].cum)])

(* What has been bought, net of its commission, never exceeds what the     *)
(* maker has sold: no event, answer, retry or restart hedges a fill twice. *)
NeverOverHedged == NetBought <= real[Maker].cum

(* While the outcome of one hedge is open, another one is not submitted.   *)
OneHedgeAtATime == Cardinality({i \in Hedges : IsOpen(i)}) <= 1

(* A session is OPEN only when the maker has ended at the exchange and     *)
(* the two legs differ by no more than the tolerance.  The runs that       *)
(* check it have a venue without commission: with one it fails where       *)
(* OpenIsFeeComplete does, and by the same steps.                          *)
OpenIsNeutral ==
    session = "OPEN" =>
        /\ IsTerminal(real[Maker])
        /\ NetBought - real[Maker].cum \in (-Tolerance) .. Tolerance

(* A hedge whose outcome is unknown is never dispatched again before the   *)
(* exchange has told it: a start that cannot resolve it does not go on to  *)
(* resume the outbox, and no plan repeats the action in between.           *)
ResumedHedgeIsKnown ==
    \A i \in Hedges : worker.at = "execute" /\ worker.action = i => rows[i].state # "UNKNOWN"

(* Once a hedge has failed the session plans nothing more: no resumed      *)
(* action, late event or restart makes it active again.                    *)
FailedHedgeStops ==
    (\E i \in Hedges : outbox[i].status = "FAILED") => session \in {"PAUSED", "RECOVERING"}

(* Once the stop that follows a failed hedge is done and the session is    *)
(* PAUSED, the maker is off the book: nothing more can be sold unhedged.   *)
PausedEntryHasNoMaker ==
    (/\ worker.at = "idle" /\ session = "PAUSED"
     /\ \E i \in Hedges : outbox[i].status = "FAILED") => IsTerminal(real[Maker])

(* A session is OPEN only when the commission of every hedge fill that is  *)
(* recorded is journaled, through gaps of the stream as well: the comment  *)
(* at worker.py:693 and the documents promise it.  The code checks it      *)
(* before it reads the market and the quantities; a fill a sweep records   *)
(* in between is decided on without its commission.                        *)
OpenIsFeeComplete ==
    session = "OPEN" => \A i \in Hedges : rows[i].cum <= charged[i]

(* A fill that is large enough to be hedged is hedged, or the session      *)
(* stops being active, unless the process ends first.                      *)
FillsAreHedged ==
    (session \in ActiveStatus /\ real[Maker].cum - NetBought >= MinQuantity)
        ~> \/ real[Maker].cum - NetBought < MinQuantity
           \/ session \notin ActiveStatus
           \/ worker.at = "down"

(* A hedge planned at a start that was bought in part or not at all: its   *)
(* action is taken for done by a later start that plans it again.          *)
HedgeIsForgotten ==
    \E i \in Hedges :
        /\ outbox[i].source.from = "startup" /\ outbox[i].status = "COMPLETED"
        /\ IsTerminal(real[i]) /\ real[i].cum < outbox[i].quantity

(* That is the one way a fill stays unhedged in an active session.         *)
FillsAreHedgedOrForgotten ==
    (session \in ActiveStatus /\ real[Maker].cum - NetBought >= MinQuantity)
        ~> \/ real[Maker].cum - NetBought < MinQuantity
           \/ session \notin ActiveStatus
           \/ worker.at = "down"
           \/ HedgeIsForgotten
=============================================================================

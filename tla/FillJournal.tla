---------------------------- MODULE FillJournal ----------------------------
(***************************************************************************)
(* One order between the exchange and the SQLite database, in the formats  *)
(* of OrderWire: its row in orders, its rows in order_events, the consumer *)
(* of the account stream, the thread that submits or reconciles it over    *)
(* REST, and the funding worker that fills the journal from the trade      *)
(* history and accounts for its fees.                                      *)
(*                                                                         *)
(* A commit is a SQLite transaction of several statements: while it is     *)
(* open the others read what was committed before, and wait to write.  The *)
(* consumer and the REST thread hold the order's lock from their read of   *)
(* the row to their last commit; the worker takes no lock.                 *)
(***************************************************************************)
EXTENDS OrderWire

CONSTANTS
    Quantity,    \* requested quantity, in lots
    MaxFaults    \* bound on crashes, disconnections, repeats, lost answers

ASSUME QuantityAssumption == Quantity \in Nat \ {0}
ASSUME FaultsAssumption == MaxFaults \in Nat

VARIABLES
    market,      \* the product the order is for
    exch,        \* the order as the exchange has it
    visible,     \* how many of its trades the trade history shows
    request,     \* the submission is on its way to the exchange
    wire,        \* frames of the stream, not yet consumed
    row,         \* the order's row in orders
    journal,     \* its rows in order_events
    writer,      \* who has the open write transaction
    up,          \* the engine's process runs
    online,      \* its stream is connected
    recheck,     \* the monitor has to reconcile the order
    thread,      \* what the consumer and the REST thread are doing
    worker,      \* what the funding worker is doing
    faults       \* faults so far

worldVars == <<market, exch, visible>>
processVars == <<up, online, recheck>>
vars == <<market, exch, visible, request, wire, row, journal, writer, up,
          online, recheck, thread, worker, faults>>

-----------------------------------------------------------------------------
NoRow == [state |-> "ABSENT", cum |-> 0, known |-> FALSE, average |-> NoPrice]

CreatedRow == [NoRow EXCEPT !.state = "CREATED"]

Locker == {"consumer", "caller"}

NoEvent == RequestEvent("SUBMIT_REQUESTED")

(* A locking thread: the row and the event it is about to commit, and what *)
(* it does after that commit.                                              *)
Free == [at |-> "free", next |-> "free", row |-> NoRow, event |-> NoEvent]

Committing(r, event, next) ==
    [at |-> "commit", next |-> next, row |-> r, event |-> event]

Resting == [at |-> "rest", known |-> {}, todo |-> {}]

Unlocked == \A t \in Locker : thread[t].at = "free"

IsOpen(r) == r # NoRow /\ ~IsTerminal(r)

Fault == faults < MaxFaults /\ faults' = faults + 1

(* Mutant: SQLite keeps the lock of a process that is gone.                *)
StopProcessInTransaction ==
    /\ up' = FALSE
    /\ online' = FALSE
    /\ recheck' = FALSE
    /\ wire' = <<>>
    /\ thread' = [t \in Locker |-> Free]
    /\ worker' = Resting
    /\ UNCHANGED writer

(* The process ends; an open transaction is rolled back.                   *)
StopProcess ==
    /\ up' = FALSE
    /\ online' = FALSE
    /\ recheck' = FALSE
    /\ wire' = <<>>
    /\ thread' = [t \in Locker |-> Free]
    /\ worker' = Resting
    /\ writer' = "nobody"

Init ==
    /\ market \in Market
    /\ exch = NoOrder
    /\ visible = 0
    /\ request = FALSE
    /\ wire = <<>>
    /\ row = NoRow
    /\ journal = {}
    /\ writer = "nobody"
    /\ up = TRUE
    /\ online = FALSE
    /\ recheck = FALSE
    /\ thread = [t \in Locker |-> Free]
    /\ worker = Resting
    /\ faults = 0

-----------------------------------------------------------------------------
(* SqliteAtomicOrderPersistence.commit.                                    *)

Journaled(event) ==
    {e \in journal : event.id # LocalId /\ e.id = event.id}

(* Mutant: the journal row is committed on its own.                        *)
BeginCommitAppends(t) ==
    /\ thread[t].at = "commit"
    /\ writer = "nobody"
    /\ journal' = journal \cup {thread[t].event}
    /\ writer' = t
    /\ thread' = [thread EXCEPT ![t].at = "writing"]
    /\ UNCHANGED <<worldVars, request, wire, row, processVars, worker, faults>>

(* BEGIN IMMEDIATE takes the write lock.  A delivery that is journaled     *)
(* already leaves everything as it is, another event under its id raises.  *)
BeginCommit(t) ==
    /\ thread[t].at = "commit"
    /\ writer = "nobody"
    /\ IF Journaled(thread[t].event) = {}
       THEN /\ writer' = t
            /\ thread' = [thread EXCEPT ![t].at = "writing"]
            /\ UNCHANGED <<wire, processVars, worker>>
       ELSE IF thread[t].event \in journal
       THEN /\ thread' = [thread EXCEPT ![t].at = thread[t].next]
            /\ UNCHANGED <<wire, writer, processVars, worker>>
       ELSE StopProcess
    /\ UNCHANGED <<worldVars, request, row, journal, faults>>

(* Journal row and snapshot appear together.  A submission that is on disk *)
(* is sent.                                                                *)
EndCommit(t) ==
    /\ thread[t].at = "writing"
    /\ writer' = "nobody"
    /\ journal' = journal \cup {thread[t].event}
    /\ row' = thread[t].row
    /\ thread' = [thread EXCEPT ![t] = [Free EXCEPT !.at = thread[t].next]]
    /\ request' = (request \/ thread[t].next = "sent")
    /\ UNCHANGED <<worldVars, wire, processVars, worker, faults>>

-----------------------------------------------------------------------------
(* The consumer of the account stream.                                     *)

(* A newer REST snapshot has overtaken the delivery.                       *)
IsOvertaken(local, event) ==
    \/ event.kind = "TRADE" /\ event.cum <= local.cum
    \/ IsTerminal(local) /\ event.kind = "ACKNOWLEDGED" /\ event.cum <= local.cum

ConsumeFrame ==
    LET event == ToDomain(ParseOrderEvent(Head(wire)))
    IN  /\ up /\ wire # <<>> /\ Unlocked
        /\ IF Journaled(event) # {}
           THEN UNCHANGED <<thread, writer, worker, processVars>> /\ wire' = Tail(wire)
           ELSE IF IsOvertaken(row, event)
           THEN /\ thread' = [thread EXCEPT !["consumer"] =
                                  Committing(row, event, "free")]
                /\ wire' = Tail(wire)
                /\ UNCHANGED <<writer, worker, processVars>>
           ELSE IF Accepts(Quantity, row, event)
           THEN /\ thread' = [thread EXCEPT !["consumer"] =
                                  Committing(ApplyEvent(Quantity, row, event),
                                             event, "free")]
                /\ wire' = Tail(wire)
                /\ UNCHANGED <<writer, worker, processVars>>
           ELSE StopProcess
        /\ UNCHANGED <<worldVars, request, row, journal, faults>>

-----------------------------------------------------------------------------
(* The thread that submits the order, and the monitor that reconciles it.  *)

Submit ==
    LET event == RequestEvent("SUBMIT_REQUESTED")
    IN  /\ up /\ row = NoRow /\ Unlocked
        /\ thread' = [thread EXCEPT !["caller"] =
                          Committing(ApplyEvent(Quantity, CreatedRow, event),
                                     event, "sent")]
        /\ UNCHANGED <<worldVars, request, wire, row, journal, writer,
                       processVars, worker, faults>>

(* The snapshot of an answer is committed to the row read under the lock.  *)
CommitSnapshot(priced) ==
    LET event == SnapshotEvent(OrderRecord(ParseOrder(
                     OrderPayload(market, exch, priced))))
    IN  IF Accepts(Quantity, row, event)
        THEN /\ thread' = [thread EXCEPT !["caller"] =
                               Committing(ApplyEvent(Quantity, row, event),
                                          event, "free")]
             /\ UNCHANGED <<wire, writer, worker, processVars>>
        ELSE StopProcess

(* The answer to a submission that filled at once may carry no price.      *)
SubmitAnswered ==
    /\ thread["caller"].at = "sent" /\ exch # NoOrder
    /\ \E priced \in {TRUE, exch.status # "FILLED"} : CommitSnapshot(priced)
    /\ UNCHANGED <<worldVars, request, row, journal, faults>>

(* No answer: UNKNOWN is committed, and the order is queried.              *)
SubmitTimesOut ==
    LET event == RequestEvent("REQUEST_TIMED_OUT")
    IN  /\ thread["caller"].at = "sent"
        /\ thread' = [thread EXCEPT !["caller"] =
                          Committing(ApplyEvent(Quantity, row, event),
                                     event, "query")]
        /\ IF request \/ exch # NoOrder THEN Fault ELSE UNCHANGED faults
        /\ UNCHANGED <<worldVars, request, wire, row, journal, writer,
                       processVars, worker>>

QueryAnswered ==
    /\ thread["caller"].at = "query"
    /\ IF exch = NoOrder
       THEN /\ thread' = [thread EXCEPT !["caller"] = Free]
            /\ UNCHANGED <<wire, writer, worker, processVars>>
       ELSE CommitSnapshot(TRUE)
    /\ UNCHANGED <<worldVars, request, row, journal, faults>>

(* After a connection the open order is queried under its lock; one the    *)
(* exchange does not know is unresolved and ends the process.              *)
Sweep ==
    /\ up /\ recheck /\ Unlocked
    /\ IF IsOpen(row) /\ exch = NoOrder
       THEN StopProcess
       ELSE /\ recheck' = FALSE
            /\ thread' = IF IsOpen(row)
                         THEN [thread EXCEPT !["caller"] = [Free EXCEPT !.at = "query"]]
                         ELSE thread
            /\ UNCHANGED <<wire, writer, worker, up, online>>
    /\ UNCHANGED <<worldVars, request, row, journal, faults>>

-----------------------------------------------------------------------------
(* The funding worker.  Only margin orders are hedges.                     *)

Works == up /\ market = "MARGIN" /\ row.known

(* reconcile_fills reads which trades have their fee, then asks the        *)
(* exchange.                                                               *)
ReadJournal ==
    /\ Works /\ worker.at = "rest"
    /\ worker' = [Resting EXCEPT !.at = "fetch", !.known = KnownTrades(journal)]
    /\ UNCHANGED <<worldVars, request, wire, row, journal, writer, processVars,
                   thread, faults>>

FetchFills ==
    LET fills == {f \in OrderFills(exch, visible) : f.trade \notin worker.known}
    IN  /\ worker.at = "fetch"
        /\ worker' = IF fills = {} THEN Resting
                     ELSE [worker EXCEPT !.at = "backfill", !.todo = fills]
        /\ UNCHANGED <<worldVars, request, wire, row, journal, writer,
                       processVars, thread, faults>>

(* The gateway sorts the history: the oldest trade comes first.            *)
IsNextFill(fill) ==
    /\ worker.at = "backfill" /\ fill \in worker.todo
    /\ \A other \in worker.todo : fill.trade <= other.trade

(* Mutant: the fills of an order that is over are not written down.        *)
BackfillWhileOpen ==
    \E fill \in worker.todo :
        LET event == HistoryEvent(fill)
        IN  /\ IsNextFill(fill)
            /\ writer = "nobody"
            /\ journal' = IF Journaled(event) = {} /\ IsOpen(row)
                          THEN journal \cup {event} ELSE journal
            /\ worker' = IF worker.todo = {fill} THEN Resting
                         ELSE [worker EXCEPT !.todo = @ \ {fill}]
            /\ UNCHANGED <<worldVars, request, wire, row, writer, processVars,
                           thread, faults>>

(* One statement of its own per fill; it waits for an open transaction.    *)
Backfill ==
    \E fill \in worker.todo :
        LET event == HistoryEvent(fill)
        IN  /\ IsNextFill(fill)
            /\ writer = "nobody"
            /\ journal' = IF Journaled(event) = {} THEN journal \cup {event}
                          ELSE journal
            /\ worker' = IF worker.todo = {fill} THEN Resting
                         ELSE [worker EXCEPT !.todo = @ \ {fill}]
            /\ UNCHANGED <<worldVars, request, wire, row, writer, processVars,
                           thread, faults>>

-----------------------------------------------------------------------------
(* The exchange, the connection and the process.                           *)

Emit(execution, order) ==
    wire' = IF online THEN Append(wire, Frame(market, execution, order)) ELSE wire

Accept ==
    LET order == [status |-> "NEW", trades |-> <<>>]
    IN  /\ request
        /\ request' = FALSE
        /\ exch' = order
        /\ Emit("NEW", order)
        /\ UNCHANGED <<market, visible, row, journal, writer, processVars,
                       thread, worker, faults>>

Trade ==
    /\ exch.status \in {"NEW", "PARTIALLY_FILLED"}
    /\ \E q \in 1 .. Quantity - Executed(exch.trades), asset \in FeeAsset :
          LET trades == Append(exch.trades, TradeAfter(exch.trades, q, asset))
              order == [status |-> StateAfterTrade(Quantity, Executed(trades)),
                        trades |-> trades]
          IN  /\ exch' = order
              /\ Emit("TRADE", order)
    /\ UNCHANGED <<market, visible, request, row, journal, writer, processVars,
                   thread, worker, faults>>

End ==
    /\ exch.status \in {"NEW", "PARTIALLY_FILLED"}
    /\ \E status \in {"CANCELED", "EXPIRED"} :
          /\ exch' = [exch EXCEPT !.status = status]
          /\ Emit(status, exch')
    /\ UNCHANGED <<market, visible, request, row, journal, writer, processVars,
                   thread, worker, faults>>

Reveal ==
    /\ visible < Len(exch.trades)
    /\ visible' = visible + 1
    /\ UNCHANGED <<market, exch, request, wire, row, journal, writer,
                   processVars, thread, worker, faults>>

LoseRequest ==
    /\ request
    /\ request' = FALSE
    /\ Fault
    /\ UNCHANGED <<worldVars, wire, row, journal, writer, processVars, thread,
                   worker>>

Redeliver ==
    /\ wire # <<>> /\ online
    /\ wire' = <<Head(wire)>> \o wire
    /\ Fault
    /\ UNCHANGED <<worldVars, request, row, journal, writer, processVars,
                   thread, worker>>

Connect ==
    /\ up /\ ~online
    /\ online' = TRUE
    /\ recheck' = TRUE
    /\ UNCHANGED <<worldVars, request, wire, row, journal, writer, up, thread,
                   worker, faults>>

(* What has not reached the local queue is lost.                           *)
Disconnect ==
    /\ online
    /\ online' = FALSE
    /\ \E n \in 0 .. Len(wire) : wire' = SubSeq(wire, 1, n)
    /\ Fault
    /\ UNCHANGED <<worldVars, request, row, journal, writer, up, recheck,
                   thread, worker>>

Crash ==
    /\ up
    /\ StopProcess
    /\ Fault
    /\ UNCHANGED <<worldVars, request, row, journal>>

Restart ==
    /\ ~up
    /\ up' = TRUE
    /\ UNCHANGED <<worldVars, request, wire, row, journal, writer, online,
                   recheck, thread, worker, faults>>

-----------------------------------------------------------------------------
Locking == \E t \in Locker : BeginCommit(t) \/ EndCommit(t)

Calling == Submit \/ SubmitAnswered \/ SubmitTimesOut \/ QueryAnswered \/ Sweep

Working == ReadJournal \/ FetchFills \/ Backfill

World == \/ Accept \/ Trade \/ End \/ Reveal \/ LoseRequest \/ Redeliver
         \/ Connect \/ Disconnect \/ Crash \/ Restart

Next == Locking \/ ConsumeFrame \/ Calling \/ Working \/ World

(* What is under way goes on: threads, frames and answers, a submission    *)
(* that was lost times out, trades get into the history, a lost connection *)
(* and a process that ended come back.  The worker retries by itself.      *)
Progress ==
    \/ Locking \/ ConsumeFrame \/ SubmitAnswered \/ QueryAnswered \/ Sweep
    \/ (~request /\ exch = NoOrder /\ SubmitTimesOut)
    \/ Accept \/ Reveal \/ Connect \/ Restart

(* When these can happen.                                                  *)
CanProgress ==
    \/ \E t \in Locker : \/ thread[t].at = "commit" /\ writer = "nobody"
                         \/ thread[t].at = "writing"
    \/ up /\ Unlocked /\ (wire # <<>> \/ recheck)
    \/ thread["caller"].at = "query"
    \/ thread["caller"].at = "sent" /\ ~(request /\ exch = NoOrder)
    \/ request \/ visible < Len(exch.trades)
    \/ ~up \/ ~online

CanWork ==
    \/ Works /\ worker.at = "rest"
    \/ worker.at = "fetch"
    \/ worker.at = "backfill" /\ worker.todo # {} /\ writer = "nobody"

(* WF_vars(Progress) /\ WF_vars(Working), their ENABLED spelled out: TLC   *)
(* is far slower on actions with large LETs.                               *)
Fairness ==
    /\ []<>~CanProgress \/ []<><<Progress>>_vars
    /\ []<>~CanWork \/ []<><<Working>>_vars

Spec == Init /\ [][Next]_vars

FairSpec == Spec /\ Fairness

-----------------------------------------------------------------------------
JournalEvent ==
    [kind : OrderEventKind, cum : {NoQuantity} \cup 0 .. Quantity,
     to : OrderState,
     id : [from : {"local", "stream", "rest-fill"},
           trade : {NoValue} \cup 1 .. Quantity,
           execution : {"NONE", "NEW", "TRADE", "CANCELED", "EXPIRED"}],
     average : [paid : Nat, for : 0 .. Quantity],
     last : {NoValue} \cup 1 .. Quantity, trade : {NoValue} \cup 1 .. Quantity,
     fee : {NoValue} \cup 1 .. Quantity, asset : FeeAsset \cup {"NONE"}]

Row == [state : OrderState \cup {"ABSENT"}, cum : 0 .. Quantity,
        known : BOOLEAN, average : [paid : Nat, for : 0 .. Quantity]]

(* Type invariant; a write transaction belongs to a thread that is writing *)
(* (SqliteAtomicOrderPersistence.commit), and threads exist only while the *)
(* process runs.                                                           *)
TypeOK ==
    /\ market \in Market
    /\ exch.status \in {"ABSENT", "NEW", "PARTIALLY_FILLED", "FILLED",
                        "CANCELED", "EXPIRED"}
    /\ visible \in 0 .. Len(exch.trades)
    /\ row \in Row
    /\ \A e \in journal : e \in JournalEvent
    /\ {request, up, online, recheck} \subseteq BOOLEAN
    /\ \A t \in Locker : writer = t <=> thread[t].at = "writing"
    /\ ~up => Unlocked /\ worker = Resting /\ ~online /\ wire = <<>>

(* The row is what its journal says, whoever reads them and whenever the   *)
(* process dies: no journaled fill is missing from the row, and the row    *)
(* counts no fill that was not journaled (SqliteAtomicOrderPersistence).   *)
RowIsItsJournal ==
    LET counted == {e.cum : e \in journal} \ {NoQuantity}
    IN  /\ \A cum \in counted : cum <= row.cum
        /\ row.cum # 0 => row.cum \in counted

(* A price that a row carries is what the fills it counts have cost, from  *)
(* whichever payload it was read (_average_price, parse_order_event).      *)
PriceIsOfItsFills ==
    row.average # NoPrice =>
        \E n \in DOMAIN exch.trades :
            /\ row.average = AverageOf(SubSeq(exch.trades, 1, n))
            /\ row.average.for = row.cum

(* The fees in the base asset of the trades up to a cumulative quantity.   *)
BaseFees(cum) ==
    TotalOf({<<k, exch.trades[k].quantity>> : k \in
               {n \in DOMAIN exch.trades : /\ exch.trades[n].asset = "BASE"
                                           /\ exch.trades[n].upTo <= cum}})

(* A fee learned from the stream, from the history, or from both is        *)
(* counted once (FundingWorker._spot_hedge_progress).                      *)
FeesAreCountedOnce == BaseCommission(journal) <= BaseFees(Quantity)

(* A history that is taken for complete accounts for every fee of what the *)
(* row counts, and for no less (FundingWorker._fill_history_is_complete).  *)
CompleteMeansEveryFee ==
    FillHistoryIsComplete(journal, row.cum) =>
        BaseCommission(journal) >= BaseFees(row.cum)

(* Through every payload, parser and commit the row keeps the promise of   *)
(* OrderLedger: it trails the exchange's truth and its end is the real one.*)
Ledger ==
    INSTANCE OrderLedger WITH
        Orders <- {"order"},
        truth <- [o \in {"order"} |->
                     [state |-> exch.status, cum |-> Executed(exch.trades)]],
        view <- [o \in {"order"} |-> [state |-> row.state, cum |-> row.cum]]

ImplementsLedger == Ledger!Spec

(* The fees of a hedge that has ended are all in the journal some day,     *)
(* whatever the stream lost: the history brings them                       *)
(* (FundingWorker.reconcile_fills, retry_incomplete_fill_history).         *)
FeesAreLearned ==
    (market = "MARGIN" /\ exch.status \in TerminalOrderState) ~>
        /\ row.cum = Executed(exch.trades)
        /\ FillHistoryIsComplete(journal, row.cum)
=============================================================================

--------------------------- MODULE OrderExecution ---------------------------
(***************************************************************************)
(* The order engine: OrderExecutionService, the WebSocket event consumer,  *)
(* the reconciliation the runtime runs after every connection, and the     *)
(* SQLite journal and snapshots they share, against an exchange that fills *)
(* orders on its own and answers late, twice or never.                     *)
(*                                                                         *)
(* A REST call is two events: the exchange handles the request, and the    *)
(* thread applies the answer.  Between them the exchange, the stream and   *)
(* the other threads go on.  The thread holds the order's lock from its    *)
(* read of the local order to its last commit, so a thread inside a call   *)
(* IS the lock.  Code that runs under the lock without the network is one  *)
(* step.  The command line tool (order-status, cancel-order) is another    *)
(* process on the same database: it has locks of its own, and nothing of   *)
(* the engine's process stops it.                                          *)
(***************************************************************************)
EXTENDS OrderStateMachine, Sequences

CONSTANTS
    Orders,      \* client order ids
    Workers,     \* strategy threads of the engine's process
    Monitor,     \* its stream lifecycle monitor thread
    Cli,         \* runs of the command line tool, each a process of its own
    Quantity,    \* requested quantity of every order, in lots
    MaxFaults    \* bound on crashes, disconnections, losses and timeouts

ASSUME QuantityAssumption == Quantity \in Nat \ {0}
ASSUME FaultsAssumption == MaxFaults \in Nat
ASSUME ThreadsAssumption ==
    /\ Monitor \notin Workers \cup Cli
    /\ Workers \cap Cli = {}

Engine == Workers \cup {Monitor}
Threads == Engine \cup Cli

VARIABLES
    db,          \* order snapshots in SQLite
    journal,     \* ids of the exchange events journaled for each order
    call,        \* what each thread is doing
    up,          \* the engine's process runs
    online,      \* its WebSocket is connected
    recheck,     \* a CONNECTED or RECONNECTED signal awaits the monitor
    ready,       \* the process has been synchronized once since it started
    sweep,       \* the monitor's run over the open orders
    exch,        \* orders as the exchange has them
    placed,      \* how many times the exchange accepted each client order id
    emitted,     \* how many events the exchange emitted for each order
    requests,    \* side-effect requests on their way to the exchange
    wire,        \* events on the stream, not yet consumed
    faults       \* faults so far

engineVars == <<up, online, recheck, ready>>
worldVars == <<exch, placed, emitted>>
vars == <<db, journal, call, up, online, recheck, ready, sweep,
          exch, placed, emitted, requests, wire, faults>>

-----------------------------------------------------------------------------
(* An order without a row in the database, or unknown to the exchange.     *)
Absent == [state |-> "ABSENT", cum |-> 0]

LocalOrder == Order(Quantity) \cup {Absent}

OpenAtExchange == {"NEW", "PARTIALLY_FILLED"}

ExchangeState == OpenAtExchange \cup {"FILLED", "CANCELED", "EXPIRED"}

ExchangeOrder == [state : ExchangeState, cum : 0 .. Quantity]

Idle == [op |-> "idle"]

(* A thread in a call: the local order it read, and the answer so far.     *)
Calling(op, o, local) ==
    [op |-> op, order |-> o, local |-> local, answer |-> "waiting",
     seen |-> Absent]

Busy(t) == call[t].op # "idle"

(* Mutant: nobody takes an order's lock.                                   *)
NeverLocked(o) == o \notin Orders

(* Some thread of the engine's process holds the lock of order o.          *)
Locked(o) == \E t \in Engine : Busy(t) /\ call[t].order = o

MayLock(t, o) ==
    /\ ~Busy(t)
    /\ t \in Engine => up /\ ~Locked(o)
    /\ t \in Workers => ready

Request(t) == [from |-> t, op |-> call[t].op, order |-> call[t].order]

Fault == faults < MaxFaults /\ faults' = faults + 1

(* Journal row and snapshot are committed together.  Local events have no  *)
(* id: only exchange events are told apart in the journal.                 *)
Commit(o, local, event) ==
    db' = [db EXCEPT ![o] = Apply(Quantity, local, event)]

(* The process ends: threads, locks, queues and the connection are gone.   *)
StopEngine ==
    /\ up' = FALSE
    /\ online' = FALSE
    /\ recheck' = FALSE
    /\ ready' = FALSE
    /\ wire' = <<>>
    /\ sweep' = [running |-> FALSE, todo |-> {}, unresolved |-> FALSE]
    /\ call' = [t \in Threads |-> IF t \in Engine THEN Idle ELSE call[t]]

Init ==
    /\ db = [o \in Orders |-> Absent]
    /\ journal = [o \in Orders |-> {}]
    /\ call = [t \in Threads |-> Idle]
    /\ up = TRUE
    /\ online = FALSE
    /\ recheck = FALSE
    /\ ready = FALSE
    /\ sweep = [running |-> FALSE, todo |-> {}, unresolved |-> FALSE]
    /\ exch = [o \in Orders |-> Absent]
    /\ placed = [o \in Orders |-> 0]
    /\ emitted = [o \in Orders |-> 0]
    /\ requests = {}
    /\ wire = <<>>
    /\ faults = 0

-----------------------------------------------------------------------------
(* Threads take an order's lock, commit the request and send it.  A crash  *)
(* before the request leaves the machine is a Crash after its loss.        *)

(* Mutant: an order whose submission timed out is submitted again.         *)
BeginSubmitAgain(t, o) ==
    LET created == [state |-> "CREATED", cum |-> 0]
        event == LocalEvent("SUBMIT_REQUESTED")
    IN  /\ t \in Workers
        /\ MayLock(t, o)
        /\ db[o].state \in {"ABSENT", "UNKNOWN"}
        /\ Commit(o, created, event)
        /\ call' = [call EXCEPT ![t] =
                        Calling("submit", o, Apply(Quantity, created, event))]
        /\ requests' = requests \cup {[from |-> t, op |-> "submit", order |-> o]}
        /\ UNCHANGED <<journal, engineVars, sweep, worldVars, wire, faults>>

(* Mutant: the request is sent before its row is written.                  *)
BeginSubmitUnsaved(t, o) ==
    LET created == [state |-> "CREATED", cum |-> 0]
        event == LocalEvent("SUBMIT_REQUESTED")
    IN  /\ t \in Workers
        /\ MayLock(t, o)
        /\ db[o] = Absent
        /\ call' = [call EXCEPT ![t] =
                        Calling("submit", o, Apply(Quantity, created, event))]
        /\ requests' = requests \cup {[from |-> t, op |-> "submit", order |-> o]}
        /\ UNCHANGED <<db, journal, engineVars, sweep, worldVars, wire, faults>>

(* submit() of an id that has a row returns the row and sends nothing.     *)
BeginSubmit(t, o) ==
    LET created == [state |-> "CREATED", cum |-> 0]
        event == LocalEvent("SUBMIT_REQUESTED")
    IN  /\ t \in Workers
        /\ MayLock(t, o)
        /\ db[o] = Absent
        /\ Commit(o, created, event)
        /\ call' = [call EXCEPT ![t] =
                        Calling("submit", o, Apply(Quantity, created, event))]
        /\ requests' = requests \cup {[from |-> t, op |-> "submit", order |-> o]}
        /\ UNCHANGED <<journal, engineVars, sweep, worldVars, wire, faults>>

(* cancel() of a terminal order returns it; in a state that cannot be      *)
(* cancelled the state machine raises before anything is written.          *)
BeginCancel(t, o) ==
    LET event == LocalEvent("CANCEL_REQUESTED")
    IN  /\ t \in Workers \cup Cli
        /\ MayLock(t, o)
        /\ db[o] # Absent
        /\ ~IsTerminal(db[o])
        /\ Accepts(Quantity, db[o], event)
        /\ Commit(o, db[o], event)
        /\ call' = [call EXCEPT ![t] =
                        Calling("cancel", o, Apply(Quantity, db[o], event))]
        /\ requests' = requests \cup {[from |-> t, op |-> "cancel", order |-> o]}
        /\ UNCHANGED <<journal, engineVars, sweep, worldVars, wire, faults>>

(* reconcile(), by a worker or the tool on any order it knows, by the      *)
(* monitor on the next order of its sweep.                                 *)
BeginReconcile(t, o) ==
    /\ t = Monitor => sweep.running /\ o \in sweep.todo
    /\ MayLock(t, o)
    /\ db[o] # Absent
    /\ call' = [call EXCEPT ![t] = Calling("query", o, db[o])]
    /\ UNCHANGED <<db, journal, engineVars, sweep, worldVars, requests, wire,
                   faults>>

-----------------------------------------------------------------------------
(* The exchange.                                                           *)

(* What it emits goes to the stream while the stream is connected.         *)
Emit(o, events) ==
    /\ wire' = IF online
               THEN wire \o [i \in 1 .. Len(events) |->
                                [order |-> o, id |-> emitted[o] + i,
                                 event |-> events[i]]]
               ELSE wire
    /\ emitted' = [emitted EXCEPT ![o] = @ + Len(events)]

(* The event names the exchange order's status and its cumulative fill.    *)
ExchangeEvent(kind, order) == [kind |-> kind, cum |-> order.cum, to |-> order.state]

AnswerCall(t, answer, seen) ==
    call' = [call EXCEPT ![t].answer = answer, ![t].seen = seen]

(* The sender still waits for this request, and not for a later one.       *)
Awaits(r) ==
    /\ Busy(r.from)
    /\ Request(r.from) = r
    /\ call[r.from].answer = "waiting"

Answer(r, answer, seen) ==
    IF Awaits(r) THEN AnswerCall(r.from, answer, seen) ELSE UNCHANGED call

(* An order rests, is filled at once in part or whole, or expires without  *)
(* resting (a post-only order that would take, the rest of a market order).*)
Acceptance == {s \in ExchangeOrder :
                  /\ s.state # "CANCELED"
                  /\ s.state = "EXPIRED" => s.cum < Quantity
                  /\ s.state \notin {"EXPIRED"} =>
                         s.state = StateAfterTrade(Quantity, s.cum)}

HandleSubmit(r) ==
    /\ r \in requests /\ r.op = "submit"
    /\ requests' = requests \ {r}
    /\ \/ /\ exch[r.order].state \notin OpenAtExchange
          /\ \E s \in Acceptance :
                LET new == [state |-> "NEW", cum |-> 0]
                    fill == [state |-> StateAfterTrade(Quantity, s.cum),
                             cum |-> s.cum]
                IN  /\ exch' = [exch EXCEPT ![r.order] = s]
                    /\ Answer(r, "snapshot", s)
                    /\ Emit(r.order,
                            <<ExchangeEvent("ACKNOWLEDGED", new)>>
                            \o (IF s.cum > 0
                                THEN <<ExchangeEvent("TRADE", fill)>> ELSE <<>>)
                            \o (IF s.state = "EXPIRED"
                                THEN <<ExchangeEvent("EXPIRED", s)>> ELSE <<>>))
          /\ placed' = [placed EXCEPT ![r.order] = @ + 1]
       \/ /\ Answer(r, "rejected", Absent)
          /\ UNCHANGED <<exch, placed, emitted, wire>>
    /\ UNCHANGED <<db, journal, engineVars, sweep, faults>>

(* A cancel of an order that is no longer open is refused with an error    *)
(* the gateway does not translate.                                         *)
HandleCancel(r) ==
    /\ r \in requests /\ r.op = "cancel"
    /\ requests' = requests \ {r}
    /\ IF exch[r.order].state \in OpenAtExchange
       THEN LET s == [exch[r.order] EXCEPT !.state = "CANCELED"]
            IN  /\ exch' = [exch EXCEPT ![r.order] = s]
                /\ Answer(r, "snapshot", s)
                /\ Emit(r.order, <<ExchangeEvent("CANCELED", s)>>)
       ELSE /\ Answer(r, "error", Absent)
            /\ UNCHANGED <<exch, emitted, wire>>
    /\ UNCHANGED <<db, journal, engineVars, sweep, placed, faults>>

(* Binance -2013: the gateway answers None.                                *)
HandleQuery(t) ==
    /\ Busy(t) /\ call[t].op = "query" /\ call[t].answer = "waiting"
    /\ LET s == exch[call[t].order]
       IN  AnswerCall(t, IF s = Absent THEN "absent" ELSE "snapshot", s)
    /\ UNCHANGED <<db, journal, engineVars, sweep, worldVars, requests, wire,
                   faults>>

ExchangeFills(o) ==
    /\ exch[o].state \in OpenAtExchange
    /\ \E cum \in (exch[o].cum + 1) .. Quantity :
          LET s == [state |-> StateAfterTrade(Quantity, cum), cum |-> cum]
          IN  /\ exch' = [exch EXCEPT ![o] = s]
              /\ Emit(o, <<ExchangeEvent("TRADE", s)>>)
    /\ UNCHANGED <<db, journal, call, engineVars, sweep, placed, requests,
                   faults>>

(* The account's owner or the exchange itself ends an open order.          *)
ExchangeEnds(o) ==
    /\ exch[o].state \in OpenAtExchange
    /\ \E state \in {"CANCELED", "EXPIRED"} :
          LET s == [exch[o] EXCEPT !.state = state]
          IN  /\ exch' = [exch EXCEPT ![o] = s]
              /\ Emit(o, <<ExchangeEvent(state, s)>>)
    /\ UNCHANGED <<db, journal, call, engineVars, sweep, placed, requests,
                   faults>>

DropRequest(r) ==
    /\ r \in requests
    /\ requests' = requests \ {r}
    /\ Fault
    /\ UNCHANGED <<db, journal, call, engineVars, sweep, worldVars, wire>>

-----------------------------------------------------------------------------
(* A thread applies the answer and releases the lock.                      *)

UnresolvedState == {"CREATED", "SUBMITTING", "UNKNOWN", "PENDING_CANCEL"}

(* The call returns; the monitor notes the result and goes on.             *)
Return(t, order) ==
    /\ call' = [call EXCEPT ![t] = Idle]
    /\ sweep' = IF t = Monitor
                THEN [sweep EXCEPT !.todo = @ \ {call[t].order},
                                   !.unresolved = @ \/ order.state \in UnresolvedState]
                ELSE sweep
    /\ UNCHANGED <<engineVars, wire>>

(* Mutant: a raise outside the monitor leaves the lock taken.              *)
RaiseKeepsLock(t) ==
    IF t = Monitor
    THEN StopEngine
    ELSE UNCHANGED <<call, engineVars, sweep, wire>>

(* The call raises: a worker's action fails and the tool exits, but the    *)
(* monitor's exception ends the process.                                   *)
Raise(t) ==
    IF t = Monitor
    THEN StopEngine
    ELSE /\ call' = [call EXCEPT ![t] = Idle]
         /\ UNCHANGED <<engineVars, sweep, wire>>

(* _accept_authoritative: the snapshot is applied to the order read when   *)
(* the lock was taken.                                                     *)
ApplySnapshot(t) ==
    LET event == Reconciliation(call[t].seen)
        local == call[t].local
    IN  /\ Busy(t) /\ call[t].answer = "snapshot"
        /\ IF Accepts(Quantity, local, event)
           THEN /\ Commit(call[t].order, local, event)
                /\ Return(t, Apply(Quantity, local, event))
           ELSE Raise(t) /\ UNCHANGED db
        /\ UNCHANGED <<journal, worldVars, requests, faults>>

ApplyRejection(t) ==
    LET event == LocalEvent("REJECTED")
        local == call[t].local
    IN  /\ Busy(t) /\ call[t].answer = "rejected"
        /\ Commit(call[t].order, local, event)
        /\ Return(t, Apply(Quantity, local, event))
        /\ UNCHANGED <<journal, worldVars, requests, faults>>

ApplyAbsence(t) ==
    /\ Busy(t) /\ call[t].answer = "absent"
    /\ Return(t, call[t].local)
    /\ UNCHANGED <<db, journal, worldVars, requests, faults>>

ApplyError(t) ==
    /\ Busy(t) /\ call[t].answer = "error"
    /\ Raise(t)
    /\ UNCHANGED <<db, journal, worldVars, requests, faults>>

(* Mutant: no answer is taken for a refusal.                               *)
TimeOutRejects(t) ==
    LET event == LocalEvent("REJECTED")
        lost == call[t].answer = "waiting" /\ Request(t) \notin requests
    IN  /\ Busy(t) /\ call[t].op \in {"submit", "cancel"}
        /\ Commit(call[t].order, call[t].local, event)
        /\ call' = [call EXCEPT ![t] = Idle]
        /\ IF lost THEN UNCHANGED faults ELSE Fault
        /\ UNCHANGED <<journal, engineVars, sweep, worldVars, requests, wire>>

(* No answer to a submit or a cancel: the request was lost, or it is still *)
(* under way, or its answer was lost.  UNKNOWN is committed and the order  *)
(* is queried under the same lock.                                         *)
TimeOut(t) ==
    LET event == LocalEvent("REQUEST_TIMED_OUT")
        unknown == Apply(Quantity, call[t].local, event)
        lost == call[t].answer = "waiting" /\ Request(t) \notin requests
    IN  /\ Busy(t) /\ call[t].op \in {"submit", "cancel"}
        /\ Commit(call[t].order, call[t].local, event)
        /\ call' = [call EXCEPT ![t] = Calling("query", call[t].order, unknown)]
        /\ IF lost THEN UNCHANGED faults ELSE Fault
        /\ UNCHANGED <<journal, engineVars, sweep, worldVars, requests, wire>>

(* A definite failure before the exchange acted: the gateway turns it into *)
(* a rejection of a submit, anything else raises.                          *)
CallFails(t) ==
    /\ Busy(t) /\ call[t].answer = "waiting"
    /\ call[t].op # "query" => Request(t) \in requests
    /\ requests' = requests \ {Request(t)}
    /\ AnswerCall(t, IF call[t].op = "submit" THEN "rejected" ELSE "error", Absent)
    /\ Fault
    /\ UNCHANGED <<db, journal, engineVars, sweep, worldVars, wire>>

-----------------------------------------------------------------------------
(* The WebSocket consumer.                                                 *)

(* A delivery that a newer REST snapshot has overtaken is journaled and    *)
(* leaves the order as it is.                                              *)
IsStale(local, event) ==
    \/ event.kind = "TRADE" /\ event.cum <= local.cum
    \/ IsTerminal(local) /\ event.kind = "ACKNOWLEDGED" /\ event.cum <= local.cum

(* _handle_event, for the oldest event of the stream.  Events of unknown   *)
(* orders and events already journaled change nothing; an event the state  *)
(* machine refuses raises and ends the process.                            *)
HandleEvent(event, o, id) ==
    LET local == db[o]
        known == local = Absent \/ id \in journal[o]
        stale == ~known /\ IsStale(local, event)
        applied == ~known /\ ~stale /\ Accepts(Quantity, local, event)
    IN  /\ ~Locked(o)
        /\ IF applied THEN Commit(o, local, event) ELSE UNCHANGED db
        /\ IF stale \/ applied
           THEN journal' = [journal EXCEPT ![o] = @ \cup {id}]
           ELSE UNCHANGED journal
        /\ IF known \/ stale \/ applied
           THEN UNCHANGED <<call, engineVars, sweep>> /\ wire' = Tail(wire)
           ELSE StopEngine
        /\ UNCHANGED <<worldVars, requests, faults>>

ConsumeEvent ==
    /\ up /\ wire # <<>>
    /\ HandleEvent(Head(wire).event, Head(wire).order, Head(wire).id)

(* The exchange delivers the oldest event once more.                       *)
Redeliver ==
    /\ wire # <<>> /\ online
    /\ wire' = <<Head(wire)>> \o wire
    /\ Fault
    /\ UNCHANGED <<db, journal, call, engineVars, sweep, worldVars, requests>>

-----------------------------------------------------------------------------
(* The stream and the runtime's synchronization.                           *)

(* Mutant: only the first connection of a process is synchronized.         *)
ConnectUnchecked ==
    /\ up /\ ~online
    /\ online' = TRUE
    /\ recheck' = ~ready
    /\ UNCHANGED <<db, journal, call, up, ready, sweep, worldVars, requests,
                   wire, faults>>

Connect ==
    /\ up /\ ~online
    /\ online' = TRUE
    /\ recheck' = TRUE
    /\ UNCHANGED <<db, journal, call, up, ready, sweep, worldVars, requests,
                   wire, faults>>

(* What had not reached the local queue is lost.                           *)
Disconnect ==
    /\ online
    /\ online' = FALSE
    /\ \E n \in 0 .. Len(wire) : wire' = SubSeq(wire, 1, n)
    /\ Fault
    /\ UNCHANGED <<db, journal, call, up, recheck, ready, sweep, worldVars,
                   requests>>

(* reconcile_open() lists the open orders once and then takes them one by  *)
(* one.                                                                    *)
StartSweep ==
    /\ up /\ recheck /\ ~sweep.running
    /\ recheck' = FALSE
    /\ sweep' = [running |-> TRUE, unresolved |-> FALSE,
                 todo |-> {o \in Orders : db[o] # Absent /\ ~IsTerminal(db[o])}]
    /\ UNCHANGED <<db, journal, call, up, online, ready, worldVars, requests,
                   wire, faults>>

(* Orders left unresolved raise and end the process.                       *)
EndSweep ==
    /\ sweep.running /\ sweep.todo = {}
    /\ IF sweep.unresolved
       THEN StopEngine
       ELSE /\ ready' = TRUE
            /\ sweep' = [sweep EXCEPT !.running = FALSE]
            /\ UNCHANGED <<call, up, online, recheck, wire>>
    /\ UNCHANGED <<db, journal, worldVars, requests, faults>>

Crash ==
    /\ up
    /\ StopEngine
    /\ Fault
    /\ UNCHANGED <<db, journal, worldVars, requests>>

Restart ==
    /\ ~up
    /\ up' = TRUE
    /\ UNCHANGED <<db, journal, call, online, recheck, ready, sweep, worldVars,
                   requests, wire, faults>>

-----------------------------------------------------------------------------
Begin(t, o) == BeginSubmit(t, o) \/ BeginCancel(t, o) \/ BeginReconcile(t, o)

Finish(t) ==
    ApplySnapshot(t) \/ ApplyRejection(t) \/ ApplyAbsence(t) \/ ApplyError(t)

Exchange ==
    \/ \E r \in requests : HandleSubmit(r) \/ HandleCancel(r)
    \/ \E t \in Threads : HandleQuery(t)
    \/ \E o \in Orders : ExchangeFills(o) \/ ExchangeEnds(o)

Network ==
    \/ \E r \in requests : DropRequest(r)
    \/ \E t \in Threads : CallFails(t)
    \/ Redeliver \/ Connect \/ Disconnect

Runtime == ConsumeEvent \/ StartSweep \/ EndSweep \/ Crash \/ Restart

Next ==
    \/ \E t \in Threads, o \in Orders : Begin(t, o)
    \/ \E t \in Threads : Finish(t) \/ TimeOut(t)
    \/ Exchange
    \/ Network
    \/ Runtime

(* The scheduler runs every ready thread, the exchange handles what it     *)
(* receives and answers queries, an operator restarts a stopped process    *)
(* and the stream reconnects with backoff.  Nothing forces a fault, a      *)
(* fill, or a worker to begin a call; the monitor does take its orders.    *)
LostCall(t) ==
    /\ Busy(t) /\ call[t].answer = "waiting" /\ Request(t) \notin requests
    /\ TimeOut(t)

Fairness ==
    /\ WF_vars(Connect) /\ WF_vars(Restart)
    /\ SF_vars(ConsumeEvent)
    /\ WF_vars(StartSweep) /\ WF_vars(EndSweep)
    /\ \A o \in Orders : SF_vars(BeginReconcile(Monitor, o))
    /\ \A t \in Threads :
          WF_vars(Finish(t)) /\ WF_vars(LostCall(t)) /\ WF_vars(HandleQuery(t))
    /\ WF_vars(\E r \in requests : HandleSubmit(r) \/ HandleCancel(r))

Spec == Init /\ [][Next]_vars

FairSpec == Spec /\ Fairness

-----------------------------------------------------------------------------
(* Properties.                                                             *)

Call == [op : {"submit", "cancel", "query"}, order : Orders,
         local : Order(Quantity),
         answer : {"waiting", "snapshot", "rejected", "absent", "error"},
         seen : ExchangeOrder \cup {Absent}]

SideEffect == [from : Threads, op : {"submit", "cancel"}, order : Orders]

Event == [kind : {"ACKNOWLEDGED", "TRADE", "CANCELED", "EXPIRED"},
          cum : 0 .. Quantity, to : ExchangeState]

Delivery == [order : Orders, id : Nat, event : Event]

(* The state has the shape the code gives it.                              *)
TypeOK ==
    /\ db \in [Orders -> LocalOrder]
    /\ journal \in [Orders -> SUBSET Nat]
    /\ call \in [Threads -> {Idle} \cup Call]
    /\ up \in BOOLEAN /\ online \in BOOLEAN
    /\ recheck \in BOOLEAN /\ ready \in BOOLEAN
    /\ sweep \in [running : BOOLEAN, todo : SUBSET Orders, unresolved : BOOLEAN]
    /\ exch \in [Orders -> ExchangeOrder \cup {Absent}]
    /\ placed \in [Orders -> Nat]
    /\ emitted \in [Orders -> Nat]
    /\ requests \subseteq SideEffect
    /\ wire \in Seq(Delivery)
    /\ faults \in 0 .. MaxFaults

(* The persisted fills of an order are fills the exchange has: neither a   *)
(* timeout, a crash, a stale event nor a late answer makes the engine      *)
(* report an execution that did not happen (_apply_observed_fill).         *)
FillsAreReal == \A o \in Orders : db[o].cum <= exch[o].cum

(* A terminal row is final: the exchange ended the order in that state     *)
(* with that fill, or rejected it and no submit of it is under way.  The   *)
(* strategy hedges and opens the session from terminal rows.               *)
TerminalIsFinal ==
    \A o \in Orders :
        /\ db[o].state \in {"FILLED", "CANCELED", "EXPIRED"} => db[o] = exch[o]
        /\ db[o].state = "REJECTED" =>
               /\ exch[o] = Absent
               /\ \A r \in requests : r.op = "submit" => r.order # o

(* A client order id is placed at most once whatever times out, crashes    *)
(* and restarts: "Unknown request outcomes are queried by client order ID  *)
(* and are never blindly resubmitted" (order_service.py).                  *)
AtMostOnePlacement == \A o \in Orders : placed[o] <= 1

(* No REST answer is refused by the state machine: an order is read before *)
(* it is asked about, so whatever it did at the exchange and on the stream *)
(* meanwhile, the answer is at least as new as the order it is applied to. *)
AnswersAreAccepted ==
    \A t \in Threads :
        Busy(t) /\ call[t].answer = "snapshot" =>
            Accepts(Quantity, call[t].local, Reconciliation(call[t].seen))

(* The engine implements the ledger the strategy relies on: a commit takes *)
(* no fill back, leaves no terminal state and deletes no row ("never move  *)
(* state backwards", _handle_event), and it records only what is so.       *)
Ledger == INSTANCE OrderLedger WITH truth <- exch, view <- db

ImplementsLedger == Ledger!Spec

(* Once the exchange has ended an order, its row says so sooner or later,  *)
(* through the stream or through a sweep, whatever was lost on the way.    *)
EndsAreLearned ==
    \A o \in Orders :
        (exch[o].state \in TerminalOrderState) ~> (db[o] = exch[o])

(* No call holds an order's lock for ever.                                 *)
LocksAreReleased == \A t \in Threads : Busy(t) ~> ~Busy(t)
=============================================================================

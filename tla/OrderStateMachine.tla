------------------------- MODULE OrderStateMachine -------------------------
(***************************************************************************)
(* The order lifecycle of engine/domain: the states of an order, the       *)
(* events that drive it and OrderStateMachine.apply, as operators on one   *)
(* order [state, cum], where cum is the cumulative filled quantity in      *)
(* lots.  An event is [kind, cum, to]: cum is the cumulative quantity it   *)
(* reports, NoQuantity when it reports none, and to is the reconciled      *)
(* state of a RECONCILED event.  Prices, exchange order ids, reasons and   *)
(* timestamps decide no transition and are left out.                       *)
(***************************************************************************)
EXTENDS Integers

NoQuantity == -1

OrderState == {"CREATED", "SUBMITTING", "UNKNOWN", "NEW", "PARTIALLY_FILLED",
               "PENDING_CANCEL", "FILLED", "CANCELED", "REJECTED", "EXPIRED"}

TerminalOrderState == {"FILLED", "CANCELED", "REJECTED", "EXPIRED"}

OrderEventKind == {"SUBMIT_REQUESTED", "ACKNOWLEDGED", "TRADE",
                   "CANCEL_REQUESTED", "CANCELED", "REJECTED", "EXPIRED",
                   "REQUEST_TIMED_OUT", "RECONCILED"}

ReconcilableState == {"NEW", "PARTIALLY_FILLED", "FILLED", "CANCELED",
                      "REJECTED", "EXPIRED"}

Order(quantity) == [state : OrderState, cum : 0 .. quantity]

IsTerminal(order) == order.state \in TerminalOrderState

(* Events as the engine builds them: the local requests and answers carry  *)
(* no quantity, a reconciliation carries the exchange's snapshot.          *)
LocalEvent(kind) == [kind |-> kind, cum |-> NoQuantity, to |-> "CREATED"]

Reconciliation(seen) ==
    [kind |-> "RECONCILED", cum |-> seen.cum, to |-> seen.state]

-----------------------------------------------------------------------------
AtExchange == {"SUBMITTING", "UNKNOWN", "NEW", "PARTIALLY_FILLED",
               "PENDING_CANCEL"}

(* The states each handler requires (OrderStateMachine._require).          *)
AllowedFrom ==
    [SUBMIT_REQUESTED  |-> {"CREATED"},
     ACKNOWLEDGED      |-> AtExchange,
     TRADE             |-> AtExchange,
     CANCEL_REQUESTED  |-> {"NEW", "PARTIALLY_FILLED"},
     CANCELED          |-> AtExchange \ {"SUBMITTING"},
     REJECTED          |-> {"SUBMITTING", "UNKNOWN", "NEW"},
     EXPIRED           |-> {"NEW", "PARTIALLY_FILLED", "PENDING_CANCEL"},
     REQUEST_TIMED_OUT |-> {"SUBMITTING", "UNKNOWN", "PENDING_CANCEL"},
     RECONCILED        |-> AtExchange]

(* A terminal order accepts only the replay of what made it terminal.  The *)
(* terminal kinds are named as the states they lead to.                    *)
IsIdempotentTerminalReplay(order, event) ==
    \/ /\ event.kind = "RECONCILED"
       /\ event.to = order.state
       /\ event.cum \in {NoQuantity, order.cum}
    \/ /\ order.state = "FILLED"
       /\ event.kind = "TRADE"
       /\ event.cum = order.cum
    \/ /\ event.kind = order.state
       /\ event.cum \in {NoQuantity, order.cum}

(* Mutant: every event is taken for a report of the exchange.              *)
CarriesFillAlways(event) == event.kind \in OrderEventKind

CarriesFill(event) ==
    /\ event.kind \in {"TRADE", "CANCELED", "EXPIRED", "RECONCILED"}
    /\ event.cum # NoQuantity

(* Mutant: a reported quantity must be new (< for <=).                     *)
ObservedFillIsNew(quantity, order, event) ==
    CarriesFill(event) => event.cum \in (order.cum + 1) .. quantity

(* The check of _trade and _apply_observed_fill: a cumulative quantity     *)
(* never moves backwards and never exceeds the requested quantity.         *)
ObservedFillIsValid(quantity, order, event) ==
    CarriesFill(event) => event.cum \in order.cum .. quantity

(* apply() returns for such an event and raises InvalidOrderTransition for *)
(* any other.                                                              *)
Accepts(quantity, order, event) ==
    IF IsTerminal(order)
    THEN IsIdempotentTerminalReplay(order, event)
    ELSE /\ order.state \in AllowedFrom[event.kind]
         /\ ObservedFillIsValid(quantity, order, event)
         /\ event.kind = "TRADE" => event.cum # NoQuantity
         /\ event.kind = "RECONCILED" =>
                /\ event.to \in ReconcilableState
                /\ event.to = "FILLED" => event.cum = quantity

StateAfterTrade(quantity, cum) ==
    IF cum = quantity THEN "FILLED"
    ELSE IF cum > 0 THEN "PARTIALLY_FILLED"
    ELSE "NEW"

(* Where each handler takes the order.                                     *)
StateAfter(quantity, order, event) ==
    LET after ==
        [SUBMIT_REQUESTED  |-> "SUBMITTING",
         ACKNOWLEDGED      |-> IF order.state \in {"SUBMITTING", "UNKNOWN"}
                               THEN "NEW" ELSE order.state,
         TRADE             |-> StateAfterTrade(quantity, event.cum),
         CANCEL_REQUESTED  |-> "PENDING_CANCEL",
         CANCELED          |-> "CANCELED",
         REJECTED          |-> "REJECTED",
         EXPIRED           |-> "EXPIRED",
         REQUEST_TIMED_OUT |-> "UNKNOWN",
         RECONCILED        |-> event.to]
    IN  after[event.kind]

(* Mutant: the cumulative quantity is added as if it were one execution.   *)
ApplyIncrement(quantity, order, event) ==
    IF IsTerminal(order)
    THEN order
    ELSE [state |-> StateAfter(quantity, order, event),
          cum   |-> order.cum + (IF CarriesFill(event) THEN event.cum ELSE 0)]

(* The order apply() leaves behind when it accepts the event.              *)
Apply(quantity, order, event) ==
    IF IsTerminal(order)
    THEN order
    ELSE [state |-> StateAfter(quantity, order, event),
          cum   |-> IF CarriesFill(event) THEN event.cum ELSE order.cum]
=============================================================================

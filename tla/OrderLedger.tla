---------------------------- MODULE OrderLedger ----------------------------
(***************************************************************************)
(* What the order engine promises to the strategy that reads its orders:   *)
(* the persisted view of an order trails the exchange's truth and never    *)
(* contradicts it.  An order reaches the exchange only after it has been   *)
(* persisted, its recorded fills only grow and are always real, and once   *)
(* the view is terminal it is final: it is what the exchange has, or the   *)
(* order was rejected and the exchange never gets it.                      *)
(***************************************************************************)
EXTENDS OrderStateMachine

CONSTANTS Orders, Quantity

VARIABLES truth, view

vars == <<truth, view>>

Missing == [state |-> "ABSENT", cum |-> 0]

Working == {"NEW", "PARTIALLY_FILLED"}

Truth == [state : Working \cup {"FILLED", "CANCELED", "EXPIRED"}, cum : 0 .. Quantity]

Init ==
    /\ truth = [o \in Orders |-> Missing]
    /\ view = [o \in Orders |-> Missing]

(* The exchange accepts a persisted order once, fills it, and ends it.     *)
ExchangeMoves(o) ==
    /\ view[o].state \notin {"ABSENT", "REJECTED"}
    /\ truth[o].state \in Working \cup {"ABSENT"}
    /\ \E s \in Truth :
          /\ s.cum >= truth[o].cum
          /\ truth' = [truth EXCEPT ![o] = s]
    /\ UNCHANGED view

Record(o) ==
    /\ ~IsTerminal(view[o])
    /\ \E v \in Order(Quantity) :
          /\ v.cum \in view[o].cum .. truth[o].cum
          /\ v.state \in {"FILLED", "CANCELED", "EXPIRED"} => v = truth[o]
          /\ v.state = "REJECTED" => truth[o] = Missing
          /\ view' = [view EXCEPT ![o] = v]
    /\ UNCHANGED truth

Next == \E o \in Orders : ExchangeMoves(o) \/ Record(o)

Spec == Init /\ [][Next]_vars
=============================================================================

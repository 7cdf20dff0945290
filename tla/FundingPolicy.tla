--------------------------- MODULE FundingPolicy ---------------------------
(***************************************************************************)
(* The pure part of the funding entry: FundingHedgeCalculator, which turns *)
(* confirmed quantities into a hedge, and PerpetualMakerSpotTakerPolicy,   *)
(* which turns the hedge and the event into commands.  Quantities are      *)
(* integers in the smallest unit of either leg, prices are integers, and   *)
(* the Spot quantity is net of the commission charged in the base asset.   *)
(***************************************************************************)
EXTENDS OrderStateMachine, Sequences

CONSTANTS
    Step,         \* quantity increment of a Spot market order
    MinQuantity,  \* its smallest quantity
    MinNotional,  \* its smallest value
    Capital,      \* the session's capital, the limit of unhedged value
    Tolerance     \* the session's delta tolerance

ASSUME MarketAssumption ==
    /\ Step \in Nat \ {0}
    /\ MinQuantity \in Nat /\ MinNotional \in Nat
    /\ Capital \in Nat /\ Tolerance \in Nat

CommandKind == {"SUBMIT_HEDGE", "CANCEL_MAKER", "RECONCILE", "MARK_OPEN",
                "PAUSE", "RECOVER"}

OrderRole == {"MAKER", "HEDGE"}

ActiveStatus == {"ENTERING", "HEDGING"}

DecisionEvent == {"TRADE", "CANCELED", "EXPIRED", "RECONCILED"}

AtLeastZero(n) == IF n > 0 THEN n ELSE 0

FloorToStep(quantity) == (quantity \div Step) * Step

MeetsMinimums(quantity, price) ==
    /\ quantity > 0
    /\ quantity >= MinQuantity
    /\ quantity * price >= MinNotional

(* Mutant: what is already on its way to the exchange is not reserved.     *)
HedgeDecisionUnreserved(perp, spot, pending, price) ==
    LET uncovered == AtLeastZero(perp - spot)
        candidate == FloorToStep(uncovered)
        tradable == IF MeetsMinimums(candidate, price) THEN candidate ELSE 0
    IN  [delta |-> spot - perp, pending |-> 0, uncovered |-> uncovered,
         tradable |-> tradable, neutral |-> spot - perp \in (-Tolerance) .. Tolerance]

(* delta < 0 is underhedged.  neutral is HedgeDecision.within_tolerance;   *)
(* the dust is what is uncovered and not tradable.                         *)
HedgeDecision(perp, spot, pending, price) ==
    LET uncovered == AtLeastZero(perp - spot - pending)
        candidate == FloorToStep(uncovered)
        tradable == IF MeetsMinimums(candidate, price) THEN candidate ELSE 0
    IN  [delta |-> spot - perp, pending |-> pending, uncovered |-> uncovered,
         tradable |-> tradable, neutral |-> spot - perp \in (-Tolerance) .. Tolerance]

-----------------------------------------------------------------------------
(* A context is [status, role, kind, terminal, leaves, hedge, price]: the  *)
(* session's status, the role of the event's order and the event's kind,   *)
(* the maker's terminal flag and unfilled quantity, the hedge and price.   *)

Command(kind) == [kind |-> kind, quantity |-> 0]

HedgeCommand(quantity) == [kind |-> "SUBMIT_HEDGE", quantity |-> quantity]

CancelIfOpen(c) ==
    IF ~c.terminal /\ c.leaves > 0 THEN <<Command("CANCEL_MAKER")>> ELSE <<>>

StopAndInspect(c, recovery) ==
    CancelIfOpen(c) \o <<Command("RECONCILE"), Command(recovery)>>

UnhedgedValue(c) == AtLeastZero(-c.hedge.delta) * c.price

LimitExposure(c) == IF UnhedgedValue(c) > Capital THEN CancelIfOpen(c) ELSE <<>>

(* Mutant: the session is opened while the maker can still fill.           *)
ContinueEntryEarly(c) ==
    IF c.hedge.pending > 0 THEN <<>>
    ELSE IF c.hedge.tradable > 0 THEN <<HedgeCommand(c.hedge.tradable)>>
    ELSE IF c.hedge.neutral THEN <<Command("MARK_OPEN")>>
    ELSE IF ~c.terminal THEN <<>>
    ELSE <<Command("RECONCILE"), Command("RECOVER")>>

(* The order of the tests is that of the code's early returns.             *)
ContinueEntry(c) ==
    IF c.hedge.pending > 0 THEN <<>>
    ELSE IF c.hedge.tradable > 0 THEN <<HedgeCommand(c.hedge.tradable)>>
    ELSE IF ~c.terminal THEN <<>>
    ELSE IF c.hedge.neutral THEN <<Command("MARK_OPEN")>>
    ELSE <<Command("RECONCILE"), Command("RECOVER")>>

Decide(c) ==
    IF c.status \notin ActiveStatus THEN <<>>
    ELSE IF c.role = "HEDGE" /\ c.kind = "REJECTED"
    THEN StopAndInspect(c, "PAUSE")
    ELSE IF c.kind = "REQUEST_TIMED_OUT" \/ c.kind = "REJECTED"
    THEN <<Command("RECONCILE"), Command("PAUSE")>>
    ELSE IF c.role = "HEDGE" /\ c.kind \in {"CANCELED", "EXPIRED"}
    THEN StopAndInspect(c, "RECOVER")
    ELSE IF c.kind \in DecisionEvent
    THEN LimitExposure(c) \o ContinueEntry(c)
    ELSE <<>>
=============================================================================

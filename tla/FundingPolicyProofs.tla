------------------------ MODULE FundingPolicyProofs ------------------------
(***************************************************************************)
(* What the hedge calculator and the execution policy guarantee for all    *)
(* quantities, increments, minimums and prices.                            *)
(***************************************************************************)
EXTENDS FundingPolicy, TLAPS

(* Rounding down to the quantity increment never rounds up.                *)
LEMMA FloorIsBelow ==
    ASSUME NEW quantity \in Nat
    PROVE  FloorToStep(quantity) \in 0 .. quantity
BY MarketAssumption DEF FloorToStep

(* A step's worth of quantity is never left out: the dust of the rounding  *)
(* is smaller than the increment.                                          *)
LEMMA FloorIsClose ==
    ASSUME NEW quantity \in Nat
    PROVE  quantity < FloorToStep(quantity) + Step
BY MarketAssumption DEF FloorToStep

-----------------------------------------------------------------------------
(* Quantities as the worker hands them over: spot is net of commissions,   *)
(* pending is what submitted or planned hedges may still buy.              *)
Quantities(perp, spot, pending, price) ==
    /\ perp \in Nat /\ spot \in Int /\ pending \in Nat /\ price \in Nat

LEMMA DecisionTypes ==
    ASSUME NEW perp, NEW spot, NEW pending, NEW price,
           Quantities(perp, spot, pending, price)
    PROVE  LET hedge == HedgeDecision(perp, spot, pending, price)
           IN  /\ hedge.uncovered \in Nat
               /\ hedge.tradable \in 0 .. hedge.uncovered
               /\ hedge.delta = spot - perp
               /\ hedge.pending = pending
<1> DEFINE uncovered == AtLeastZero(perp - spot - pending)
<1>1. uncovered \in Nat
  BY DEF AtLeastZero, Quantities
<1>2. FloorToStep(uncovered) \in 0 .. uncovered
  BY <1>1, FloorIsBelow
<1> QED
  BY <1>1, <1>2 DEF HedgeDecision

(* The hedge the calculator allows, together with what has been bought and *)
(* what may still be bought, covers at most what the maker has sold, is a  *)
(* whole number of increments and meets the market's minimums              *)
(* (FundingHedgeCalculator.calculate).                                     *)
THEOREM HedgeCoversOnce ==
    ASSUME NEW perp, NEW spot, NEW pending, NEW price,
           Quantities(perp, spot, pending, price),
           HedgeDecision(perp, spot, pending, price).tradable > 0
    PROVE  LET tradable == HedgeDecision(perp, spot, pending, price).tradable
           IN  /\ spot + pending + tradable <= perp
               /\ MeetsMinimums(tradable, price)
               /\ \E n \in Nat : tradable = n * Step
<1> DEFINE uncovered == AtLeastZero(perp - spot - pending)
           candidate == FloorToStep(uncovered)
<1>1. uncovered \in Nat
  BY DEF AtLeastZero, Quantities
<1>2. candidate \in 0 .. uncovered
  BY <1>1, FloorIsBelow
<1>3. /\ HedgeDecision(perp, spot, pending, price).tradable = candidate
      /\ MeetsMinimums(candidate, price)
  BY <1>2 DEF HedgeDecision
<1>4. candidate > 0
  BY <1>3 DEF MeetsMinimums
<1>5. uncovered = perp - spot - pending
  BY <1>1, <1>2, <1>4 DEF AtLeastZero, Quantities
<1>6. spot + pending + candidate <= perp
  BY <1>2, <1>5 DEF Quantities
<1>7. uncovered \div Step \in Nat /\ candidate = (uncovered \div Step) * Step
  BY <1>1, MarketAssumption DEF FloorToStep
<1> QED
  BY <1>3, <1>6, <1>7

(* What is not hedged at once is dust: less than an increment, or below    *)
(* the market's minimums once rounded down.                                *)
THEOREM LeftoverIsDust ==
    ASSUME NEW perp, NEW spot, NEW pending, NEW price,
           Quantities(perp, spot, pending, price)
    PROVE  LET hedge == HedgeDecision(perp, spot, pending, price)
               candidate == FloorToStep(hedge.uncovered)
           IN  \/ hedge.uncovered - hedge.tradable \in 0 .. Step - 1
               \/ candidate < MinQuantity
               \/ candidate * price < MinNotional
<1> DEFINE uncovered == AtLeastZero(perp - spot - pending)
           candidate == FloorToStep(uncovered)
           hedge == HedgeDecision(perp, spot, pending, price)
<1>1. uncovered \in Nat /\ hedge.uncovered = uncovered
  BY DEF AtLeastZero, Quantities, HedgeDecision
<1>2. candidate \in 0 .. uncovered /\ uncovered < candidate + Step
  BY <1>1, FloorIsBelow, FloorIsClose
<1>3. hedge.tradable = IF MeetsMinimums(candidate, price) THEN candidate ELSE 0
  BY DEF HedgeDecision
<1>4. CASE MeetsMinimums(candidate, price) \/ candidate = 0
  <2>1. hedge.tradable = candidate
    BY <1>3, <1>4
  <2> QED
    BY <1>1, <1>2, <2>1, MarketAssumption
<1>5. CASE ~MeetsMinimums(candidate, price) /\ candidate # 0
  <2>1. candidate > 0 /\ candidate \in Nat
    BY <1>1, <1>2, <1>5
  <2>2. candidate * price \in Nat
    BY <2>1 DEF Quantities
  <2>3. ~(candidate >= MinQuantity) \/ ~(candidate * price >= MinNotional)
    BY <1>5, <2>1 DEF MeetsMinimums
  <2> QED
    BY <1>1, <2>1, <2>2, <2>3, MarketAssumption
<1> QED
  BY <1>4, <1>5

-----------------------------------------------------------------------------
(* A command is one of those a policy decided on.                          *)
Decided(kind, c) == \E n \in DOMAIN Decide(c) : Decide(c)[n].kind = kind

LEMMA CancelsOnly ==
    ASSUME NEW c
    PROVE  /\ CancelIfOpen(c) = <<>> \/ CancelIfOpen(c) = <<Command("CANCEL_MAKER")>>
           /\ LimitExposure(c) = <<>> \/ LimitExposure(c) = <<Command("CANCEL_MAKER")>>
BY DEF CancelIfOpen, LimitExposure

LEMMA StopsOnly ==
    ASSUME NEW c, NEW recovery \in {"PAUSE", "RECOVER"},
           NEW n \in DOMAIN StopAndInspect(c, recovery)
    PROVE  StopAndInspect(c, recovery)[n].kind
               \in {"CANCEL_MAKER", "RECONCILE", "PAUSE", "RECOVER"}
<1>1. CASE CancelIfOpen(c) = <<>>
  BY <1>1 DEF StopAndInspect, Command
<1>2. CASE CancelIfOpen(c) = <<Command("CANCEL_MAKER")>>
  BY <1>2 DEF StopAndInspect, Command
<1> QED
  BY <1>1, <1>2, CancelsOnly

(* The four ways in which the entry goes on.                               *)
LEMMA EntryGoesOn ==
    ASSUME NEW c
    PROVE  \/ ContinueEntry(c) = <<>>
           \/ /\ ContinueEntry(c) = <<HedgeCommand(c.hedge.tradable)>>
              /\ ~(c.hedge.pending > 0) /\ c.hedge.tradable > 0
           \/ /\ ContinueEntry(c) = <<Command("MARK_OPEN")>>
              /\ ~(c.hedge.pending > 0) /\ ~(c.hedge.tradable > 0)
              /\ c.terminal /\ c.hedge.neutral
           \/ ContinueEntry(c) = <<Command("RECONCILE"), Command("RECOVER")>>
BY DEF ContinueEntry

(* The kinds of what is decided before the entry goes on.                  *)
LEMMA DecidesOnEvents ==
    ASSUME NEW c, NEW kind \in {"SUBMIT_HEDGE", "MARK_OPEN"}, Decided(kind, c)
    PROVE  /\ c.status \in ActiveStatus
           /\ Decide(c) = LimitExposure(c) \o ContinueEntry(c)
<1>1. PICK n \in DOMAIN Decide(c) : Decide(c)[n].kind = kind
  BY DEF Decided
<1>2. Decide(c) # <<>> /\ Decide(c) # <<Command("RECONCILE"), Command("PAUSE")>>
  BY <1>1 DEF Command
<1>3. Decide(c) # StopAndInspect(c, "PAUSE") /\ Decide(c) # StopAndInspect(c, "RECOVER")
  BY <1>1, StopsOnly
<1> QED
  BY <1>2, <1>3 DEF Decide

(* A decided hedge or opening is the one command the entry goes on with.   *)
LEMMA GoesOnWith ==
    ASSUME NEW c, NEW kind \in {"SUBMIT_HEDGE", "MARK_OPEN"}, Decided(kind, c)
    PROVE  \E command : ContinueEntry(c) = <<command>> /\ command.kind = kind
<1>1. PICK n \in DOMAIN Decide(c) : Decide(c)[n].kind = kind
  BY DEF Decided
<1>2. Decide(c) = LimitExposure(c) \o ContinueEntry(c)
  BY DecidesOnEvents
<1>3. PICK limit : limit = LimitExposure(c)
                     /\ limit \in {<<>>, <<Command("CANCEL_MAKER")>>}
  BY CancelsOnly
<1>4. CASE ContinueEntry(c) = <<>>
  BY <1>1, <1>2, <1>3, <1>4 DEF Command
<1>5. CASE ContinueEntry(c) = <<HedgeCommand(c.hedge.tradable)>>
  BY <1>1, <1>2, <1>3, <1>5 DEF Command, HedgeCommand
<1>6. CASE ContinueEntry(c) = <<Command("MARK_OPEN")>>
  BY <1>1, <1>2, <1>3, <1>6 DEF Command
<1>7. CASE ContinueEntry(c) = <<Command("RECONCILE"), Command("RECOVER")>>
  BY <1>1, <1>2, <1>3, <1>7 DEF Command
<1> QED
  BY <1>4, <1>5, <1>6, <1>7, EntryGoesOn

(* A hedge is decided only while the session is active, nothing is on its  *)
(* way to the exchange and there is something to hedge                     *)
(* (PerpetualMakerSpotTakerPolicy.decide).                                 *)
THEOREM HedgesOnlyWhatIsUncovered ==
    ASSUME NEW c, Decided("SUBMIT_HEDGE", c)
    PROVE  /\ c.status \in ActiveStatus
           /\ ~(c.hedge.pending > 0)
           /\ c.hedge.tradable > 0
<1>1. c.status \in ActiveStatus
  BY DecidesOnEvents
<1>2. PICK command : ContinueEntry(c) = <<command>> /\ command.kind = "SUBMIT_HEDGE"
  BY GoesOnWith
<1>3. ContinueEntry(c) # <<>> /\ ContinueEntry(c) # <<Command("MARK_OPEN")>>
        /\ ContinueEntry(c) # <<Command("RECONCILE"), Command("RECOVER")>>
  BY <1>2 DEF Command
<1> QED
  BY <1>1, <1>3, EntryGoesOn

(* A session is opened only when the maker has ended, nothing is on its    *)
(* way, nothing tradable is left and the legs are within the tolerance     *)
(* (PerpetualMakerSpotTakerPolicy.decide).                                 *)
THEOREM OpensOnlyWhenNeutral ==
    ASSUME NEW c, Decided("MARK_OPEN", c)
    PROVE  /\ c.terminal
           /\ ~(c.hedge.pending > 0)
           /\ ~(c.hedge.tradable > 0)
           /\ c.hedge.neutral
<1>1. PICK command : ContinueEntry(c) = <<command>> /\ command.kind = "MARK_OPEN"
  BY GoesOnWith
<1>2. ContinueEntry(c) # <<>>
        /\ ContinueEntry(c) # <<HedgeCommand(c.hedge.tradable)>>
        /\ ContinueEntry(c) # <<Command("RECONCILE"), Command("RECOVER")>>
  BY <1>1 DEF Command, HedgeCommand
<1> QED
  BY <1>2, EntryGoesOn
=============================================================================

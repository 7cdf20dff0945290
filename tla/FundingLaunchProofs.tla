------------------------ MODULE FundingLaunchProofs ------------------------
(* The maker that FundingLaunch submits is safe whatever the market, the   *)
(* plan file and the other processes do meanwhile: what was computed from  *)
(* the book and the plan is what is sent, and it keeps the promises of     *)
(* OrderPlanning.                                                          *)
EXTENDS FundingLaunch, OrderPlanningProofs, FiniteSetTheorems

-----------------------------------------------------------------------------
(* What a preparation yields *)

LEMMA PreparableRests ==
    ASSUME NEW c \in Preparable
    PROVE  Rests(c.made)
<1>1. PICK plan \in ReadyPlans, book \in PerpBooks, acc \in Accounts :
          MakerApproved(plan, book, acc) /\ c.made = Maker(plan, book)
    BY DEF Preparable
<1> DEFINE requested == RequestedTicks(book, "SELL", DefaultParameters)
<1>2. TwoSided(book) /\ ValidRules(PerpRules)
    BY <1>1 DEF MakerApproved, RulesUsable, PerpRules
<1>3. BookType(book) /\ requested \in Int
    BY <1>2, MarketAssumption, PressureAssumption DEF BookType
<1>4. PerpRules.priceIncrement \in Nat \ {0}
    BY <1>2, MarketAssumption DEF ValidRules
<1>5. c.made.book = book
    BY <1>1 DEF Maker
<1>6. c.made.price =
          MakerPrice(QuotedPrice(AppliedTicks(requested, book, "SELL", PerpRules.priceIncrement),
                                 book, "SELL", PerpRules.priceIncrement),
                     "SELL", book, PerpRules)
    BY <1>1 DEF Maker, Desired, Quote
<1>7. "SELL" \in Sides
    BY DEF Sides
<1> DEFINE quote == QuotedPrice(AppliedTicks(requested, book, "SELL", PerpRules.priceIncrement),
                                book, "SELL", PerpRules.priceIncrement)
           price == MakerPrice(quote, "SELL", book, PerpRules)
<1>8. /\ price % PerpRules.priceIncrement = 0
      /\ "SELL" = "SELL" => price > BestBid(book).price /\ price * Microprice(book).d >= Microprice(book).n
    <2> HIDE DEF requested
    <2> QED
        BY <1>3, <1>4, <1>7, MakerIsSafe, Zenon
<1>9. c.made.price = price
    BY <1>6
<1> HIDE DEF price
<1> QED
    BY <1>5, <1>8, <1>9 DEF Rests

\* The plan was made with the settings of the process.
OwnPlan(plan) == plan.capital = Capital /\ plan.leverage = Leverage

LEMMA PreparableFitsCapital ==
    ASSUME NEW c \in Preparable, OwnPlan(c.plan)
    PROVE  FitsCapital(c.plan, c.made.quantity)
<1>1. PICK plan \in ReadyPlans, book \in PerpBooks, acc \in Accounts :
          /\ MakerApproved(plan, book, acc)
          /\ c.made = Maker(plan, book) /\ c.plan = plan
    BY DEF Preparable
<1>2. PICK price \in Prices :
          /\ plan.price = price
          /\ plan.quantity = BaseQuantity(Capital, Leverage, price.spotAsk, price.perpetualBid)
    BY <1>1 DEF ReadyPlans, ReadyPlan, OwnPlan
<1>3. price.spotAsk \in Nat \ {0} /\ price.perpetualBid \in Nat \ {0}
    BY MarketAssumption
<1>4. Capital \in Nat \ {0} /\ Leverage \in Nat \ {0}
    <2>1. Own.capital \in Nat \ {0} /\ Own.leverage \in 1..125
        BY SettingsAssumption DEF SettingsAccepted, Accepted
    <2> QED
        BY <2>1 DEF Own
<1>5. ValidRules(PerpRules) /\ LimitQuantityAccepted(plan.quantity, PerpRules)
    BY <1>1 DEF MakerApproved, RulesUsable, PerpRules
<1>6. /\ PerpRules.quantityIncrement \in Nat \ {0} /\ PerpRules.minQuantity \in Nat
      /\ PerpRules.maxQuantity \in Nat \cup {None}
    BY <1>5, MarketAssumption DEF ValidRules
<1>7. c.made.quantity = Quantity(plan.quantity, PerpRules.quantityIncrement, PerpRules.maxQuantity)
    BY <1>1 DEF Maker, LimitQuantity
<1>8. QuantityAccepted(plan.quantity, PerpRules.quantityIncrement,
                       PerpRules.minQuantity, PerpRules.maxQuantity)
    BY <1>5 DEF LimitQuantityAccepted
<1> DEFINE raw == BaseQuantity(Capital, Leverage, price.spotAsk, price.perpetualBid)
           q == Quantity(raw, PerpRules.quantityIncrement, PerpRules.maxQuantity)
<1>9. /\ q \in Nat \ {0}
      /\ q * (price.spotAsk * Leverage + price.perpetualBid) <= Capital * Leverage
    <2>1. QuantityAccepted(raw, PerpRules.quantityIncrement,
                           PerpRules.minQuantity, PerpRules.maxQuantity)
        BY <1>2, <1>8
    <2> QED
        BY <1>3, <1>4, <1>6, <2>1, LegsFitCapital, Zenon
<1>10. c.made.quantity = q
    BY <1>2, <1>7
<1> HIDE DEF q
<1> QED
    BY <1>1, <1>2, <1>9, <1>10 DEF FitsCapital

-----------------------------------------------------------------------------
(* The inductive invariant: a process has a maker only after it prepared   *)
(* one, and prepares only for a plan of the settings it was started with.  *)

Unprepared == {"off", "scan", "load", "adopt", "prepare"}

Fields == {"pc", "symbol", "plan", "id", "made"}

Sound(r) ==
    /\ r = [f \in Fields |-> r[f]]
    /\ r.pc \in Unprepared => r.made = None
    /\ r.pc \in {"adopt", "prepare"} => OwnPlan(r.plan)
    /\ r.made # None => Rests(r.made) /\ FitsCapital(r.plan, r.made.quantity)

MakersAreSound ==
    /\ procs = [p \in Processes |-> procs[p]]
    /\ \A p \in Processes : Sound(procs[p])

LEMMA OneProcessMoves ==
    ASSUME MakersAreSound, NEW p, NEW r, p \in Processes => Sound(r),
           procs' = [procs EXCEPT ![p] = r]
    PROVE  MakersAreSound'
<1>1. procs' = [q \in Processes |-> IF q = p THEN r ELSE procs[q]]
    BY DEF MakersAreSound
<1>2. \A q \in Processes : Sound(procs'[q])
    BY <1>1 DEF MakersAreSound
<1>3. procs' = [q \in Processes |-> procs'[q]]
    BY <1>1
<1>4. \A q \in Processes : Sound(procs[q])'
    BY <1>2 DEF Sound, Rests, FitsCapital
<1> QED
    BY <1>3, <1>4 DEF MakersAreSound

LEMMA IdleIsSound == Sound(Idle)
BY DEF Sound, Idle, Unprepared, Fields

LEMMA ExitKeepsSound ==
    ASSUME MakersAreSound, NEW p, Exit(p)
    PROVE  MakersAreSound'
BY OneProcessMoves, IdleIsSound DEF Exit

LEMMA GotoKeepsSound ==
    ASSUME MakersAreSound, NEW p, NEW pc, Goto(p, pc),
           p \in Processes /\ pc \in Unprepared => procs[p].made = None,
           p \in Processes /\ pc \in {"adopt", "prepare"} => OwnPlan(procs[p].plan)
    PROVE  MakersAreSound'
<1> DEFINE r == [procs[p] EXCEPT !.pc = pc]
<1>1. procs' = [procs EXCEPT ![p] = r]
    BY DEF Goto
<1>2. ASSUME p \in Processes PROVE Sound(r)
    <2>1. Sound(procs[p])
        BY <1>2 DEF MakersAreSound
    <2>2. /\ r = [f \in Fields |-> r[f]]
          /\ r.pc = pc /\ r.plan = procs[p].plan /\ r.made = procs[p].made
        BY <2>1 DEF Sound, Fields
    <2> HIDE DEF r
    <2> QED
        BY <1>2, <2>1, <2>2 DEF Sound
<1> HIDE DEF r
<1> QED
    BY <1>1, <1>2, OneProcessMoves

LEMMA JoinsKeepsSound ==
    ASSUME MakersAreSound, NEW pc, Joins(pc), pc \in {"session", "running"}
    PROVE  MakersAreSound'
<1> DEFINE r == [procs["main"] EXCEPT !.pc = pc, !.plan = NoCandidate, !.made = None]
<1>1. procs' = [procs EXCEPT !["main"] = r]
    BY DEF Joins
<1>2. ASSUME "main" \in Processes PROVE Sound(r)
    <2>1. Sound(procs["main"])
        BY <1>2 DEF MakersAreSound
    <2>2. r = [f \in Fields |-> r[f]] /\ r.pc = pc /\ r.made = None
        BY <2>1 DEF Sound, Fields
    <2> HIDE DEF r
    <2> QED
        BY <2>2 DEF Sound
<1> HIDE DEF r
<1> QED
    BY <1>1, <1>2, OneProcessMoves

LEMMA StutterKeepsSound ==
    ASSUME MakersAreSound, UNCHANGED procs
    PROVE  MakersAreSound'
BY DEF MakersAreSound, Sound, Rests, FitsCapital

-----------------------------------------------------------------------------
(* One lemma per step that starts a process, loads a plan or prepares      *)

LEMMA StartKeepsSound ==
    ASSUME MakersAreSound, NEW p, NEW r, procs' = [procs EXCEPT ![p] = r],
           r = [f \in Fields |-> r[f]], r.made = None,
           r.pc \in {"scan", "load", "sync"}
    PROVE  MakersAreSound'
<1>1. Sound(r)
    BY DEF Sound
<1> QED
    BY <1>1, OneProcessMoves

LEMMA StartsKeepSound ==
    ASSUME MakersAreSound, Starts
    PROVE  MakersAreSound'
<1>1. ASSUME NEW s, MainResumes(s) PROVE MakersAreSound'
    <2>1. PICK i \in PlanIds :
              procs' = [procs EXCEPT !["main"] =
                            [Idle EXCEPT !.pc = "sync", !.symbol = s, !.id = i]]
        BY <1>1 DEF MainResumes
    <2> DEFINE r == [Idle EXCEPT !.pc = "sync", !.symbol = s, !.id = i]
    <2>2. r = [f \in Fields |-> r[f]] /\ r.made = None /\ r.pc = "sync"
        BY DEF Idle, Fields
    <2> HIDE DEF r
    <2> QED
        BY <2>1, <2>2, StartKeepsSound DEF r
<1>2. ASSUME NEW s, MainStarts(s) PROVE MakersAreSound'
    <2> DEFINE r == [Idle EXCEPT !.pc = "scan", !.symbol = s]
    <2>1. procs' = [procs EXCEPT !["main"] = r]
        BY <1>2 DEF MainStarts
    <2>2. r = [f \in Fields |-> r[f]] /\ r.made = None /\ r.pc = "scan"
        BY DEF Idle, Fields
    <2> HIDE DEF r
    <2> QED
        BY <2>1, <2>2, StartKeepsSound
<1>3. ASSUME NEW s, OrderStarts(s) PROVE MakersAreSound'
    <2> DEFINE r == [Idle EXCEPT !.pc = "load", !.symbol = s]
    <2>1. procs' = [procs EXCEPT !["order"] = r]
        BY <1>3 DEF OrderStarts
    <2>2. r = [f \in Fields |-> r[f]] /\ r.made = None /\ r.pc = "load"
        BY DEF Idle, Fields
    <2> HIDE DEF r
    <2> QED
        BY <2>1, <2>2, StartKeepsSound
<1> QED
    BY <1>1, <1>2, <1>3 DEF Starts

LEMMA LoadKeepsSound ==
    ASSUME MakersAreSound, NEW p \in Processes, LoadsPlan(p)
    PROVE  MakersAreSound'
<1> DEFINE pc == IF p = "main" THEN "adopt" ELSE "prepare"
           r == [procs[p] EXCEPT !.pc = pc, !.plan = planFile.plan, !.id = planFile.id]
<1>1. Sound(procs[p]) /\ procs[p].made = None
    BY DEF MakersAreSound, LoadsPlan, Sound, Unprepared
<1>2. OwnPlan(planFile.plan)
    BY DEF LoadsPlan, PlanAcceptable, OwnPlan
<1>3. r = [f \in Fields |-> r[f]] /\ r.plan = planFile.plan /\ r.made = None
    BY <1>1 DEF Sound, Fields
<1>4. procs' = [procs EXCEPT ![p] = r]
    BY DEF LoadsPlan
<1> HIDE DEF r, pc
<1>5. Sound(r)
    BY <1>2, <1>3 DEF Sound
<1> QED
    BY <1>4, <1>5, OneProcessMoves

LEMMA PreparationKeepsSound ==
    ASSUME MakersAreSound, NEW p \in Processes, PreparesMaker(p)
    PROVE  MakersAreSound'
<1>1. Sound(procs[p]) /\ OwnPlan(procs[p].plan)
    BY DEF MakersAreSound, PreparesMaker, Sound
<1>2. CASE Exit(p)
    BY <1>2, ExitKeepsSound
<1> DEFINE pc == IF p = "main" THEN "sync" ELSE "recheck"
           Moves(c) == procs' = [procs EXCEPT ![p].pc = IF p = "main" THEN "sync" ELSE "recheck",
                                              ![p].made = c.made]
<1>3. ASSUME NEW c \in Preparable, c.plan = procs[p].plan, Moves(c)
      PROVE  MakersAreSound'
    <2> DEFINE r == [procs[p] EXCEPT !.pc = pc, !.made = c.made]
    <2>1. procs' = [procs EXCEPT ![p] = r]
        BY <1>3
    <2>2. /\ r = [f \in Fields |-> r[f]]
          /\ r.pc = pc /\ r.plan = procs[p].plan /\ r.made = c.made
        BY <1>1 DEF Sound, Fields
    <2>3. pc \notin Unprepared
        BY DEF Unprepared
    <2> HIDE DEF r, pc
    <2>4. Rests(c.made) /\ FitsCapital(procs[p].plan, c.made.quantity)
        BY <1>1, <1>3, PreparableRests, PreparableFitsCapital
    <2>5. Sound(r)
        BY <2>2, <2>3, <2>4 DEF Sound, Unprepared
    <2> QED
        BY <2>1, <2>5, OneProcessMoves
<1>4. Exit(p) \/ \E c \in Preparable : c.plan = procs[p].plan /\ Moves(c)
    BY Zenon DEF PreparesMaker
<1> QED
    BY <1>2, <1>3, <1>4

-----------------------------------------------------------------------------
(* The other steps of a process go on with what it has, or drop it         *)

LEMMA MainStepsKeepSound ==
    ASSUME MakersAreSound, MainSteps
    PROVE  MakersAreSound'
<1>1. CASE MainScans
    <2>1. "main" \in Processes => procs["main"].made = None
        BY <1>1 DEF MainScans, MakersAreSound, Sound, Unprepared
    <2>2. Goto("main", "load")
        BY <1>1 DEF MainScans
    <2> QED
        BY <2>1, <2>2, GotoKeepsSound
<1>2. CASE MainLooksForMaker
    <2>1. "main" \in Processes => /\ procs["main"].made = None
                                  /\ OwnPlan(procs["main"].plan)
        BY <1>2 DEF MainLooksForMaker, MakersAreSound, Sound, Unprepared
    <2>2. Joins("session") \/ Goto("main", "prepare") \/ Exit("main")
        BY <1>2 DEF MainLooksForMaker
    <2> QED
        BY <2>1, <2>2, JoinsKeepsSound, GotoKeepsSound, ExitKeepsSound
<1>3. CASE Synchronizes
    <2>1. Exit("main") \/ Joins("running") \/ Joins("session") \/ Goto("main", "recheck")
        BY <1>3 DEF Synchronizes
    <2> QED
        BY <2>1, JoinsKeepsSound, GotoKeepsSound, ExitKeepsSound DEF Unprepared
<1>4. CASE SavesSession
    <2>1. Exit("main") \/ Joins("running")
        BY <1>4 DEF SavesSession
    <2> QED
        BY <2>1, JoinsKeepsSound, ExitKeepsSound
<1>5. CASE WorkerCloses
    BY <1>5, StutterKeepsSound DEF WorkerCloses
<1> QED
    BY <1>1, <1>2, <1>3, <1>4, <1>5 DEF MainSteps

LEMMA StepsKeepSound ==
    ASSUME MakersAreSound, NEW p \in Processes,
           Steps(p) \/ SubmitUnknown(p) \/ ProcessEnds(p)
    PROVE  MakersAreSound'
<1> DEFINE Later == {"reorders", "leverage", "lookup", "commit", "send"}
<1>1. ASSUME Exit(p) \/ Joins("session") \/ \E pc \in Later : Goto(p, pc)
      PROVE  MakersAreSound'
    BY <1>1, ExitKeepsSound, JoinsKeepsSound, GotoKeepsSound DEF Unprepared
<1>2. CASE LoadsPlan(p)
    BY <1>2, LoadKeepsSound
<1>3. CASE PreparesMaker(p)
    BY <1>3, PreparationKeepsSound
<1>4. CASE RefusesPlan(p) \/ ProcessEnds(p)
    BY <1>1, <1>4 DEF RefusesPlan, ProcessEnds
<1>5. CASE RechecksPosition(p) \/ RechecksOpenOrders(p) \/ ConfirmsLeverage(p)
    BY <1>1, <1>5 DEF RechecksPosition, RechecksOpenOrders, ConfirmsLeverage
<1>6. CASE FindsRow(p) \/ CommitsRow(p)
    BY <1>1, <1>6 DEF FindsRow, CommitsRow
<1>7. CASE SubmitAccepted(p) \/ SubmitExpired(p) \/ SubmitRejected(p) \/ SubmitUnknown(p)
    BY <1>1, <1>7 DEF SubmitAccepted, SubmitExpired, SubmitRejected, SubmitUnknown,
                      Answered, AfterAnswer
<1> QED
    BY <1>2, <1>3, <1>4, <1>5, <1>6, <1>7 DEF Steps

LEMMA NextKeepsSound ==
    ASSUME MakersAreSound, [Next]_vars
    PROVE  MakersAreSound'
<1>1. CASE Monitor \/ Exchange \/ UNCHANGED vars
    <2>1. UNCHANGED procs
        BY <1>1 DEF Monitor, launchVars, Exchange, MakerFills, MakerEnds, vars
    <2> QED
        BY <2>1, StutterKeepsSound
<1>2. CASE Starts
    BY <1>2, StartsKeepSound
<1>3. CASE MainSteps
    BY <1>3, MainStepsKeepSound
<1>4. CASE OperatorStops
    BY <1>4, ExitKeepsSound DEF OperatorStops
<1>5. CASE \E p \in Processes : Steps(p) \/ SubmitUnknown(p) \/ ProcessEnds(p)
    BY <1>5, StepsKeepSound
<1> QED
    BY <1>1, <1>2, <1>3, <1>4, <1>5 DEF Next

LEMMA InvariantHolds == Spec => []MakersAreSound
<1>1. Init => MakersAreSound
    BY IdleIsSound DEF Init, MakersAreSound
<1>2. MakersAreSound /\ [Next]_vars => MakersAreSound'
    BY NextKeepsSound
<1> QED
    BY <1>1, <1>2, PTL DEF Spec

(* Whichever plan was loaded and however often the file was replaced, the  *)
(* account read and a process killed: a maker on its way to the exchange   *)
(* rests above the bid, on the grid, not below the fair value              *)
(* (FundingOrderExecutor.prepare_perpetual_maker).                         *)
THEOREM PreparedMakersRest == Spec => []PreparedMakerRests
<1>1. MakersAreSound => PreparedMakerRests
    BY DEF MakersAreSound, Sound, PreparedMakerRests, Prepared
<1> QED
    BY <1>1, InvariantHolds, PTL

(* And its quantity makes two legs that the capital of the running process *)
(* pays for, although a monitor of other settings writes the plan file     *)
(* too (validate_plan_settings, prepare_perpetual_maker).                  *)
THEOREM PreparedMakersFit == Spec => []PreparedFitsCapital
<1>1. MakersAreSound => PreparedFitsCapital
    BY DEF MakersAreSound, Sound, PreparedFitsCapital, Prepared
<1> QED
    BY <1>1, InvariantHolds, PTL

-----------------------------------------------------------------------------
(* One entry and one session per symbol.  The inductive invariant says of  *)
(* each process what it has found out on its way to the exchange and still *)
(* holds, and of each order how its row, its session, the plan file and    *)
(* the exchange agree; some of it only until the history "overlapped".     *)

WithPlan == {"adopt", "prepare", "sync", "recheck", "reorders", "leverage", "lookup", "commit", "send",
             "session", "running"}

\* In the account that was found, the symbol is not held; or, as far as a
\* position read sees it, on no side.
Untouched(s) == \A row \in account.positions : row.symbol = s => row.quantity = 0

SeenFlat(s) ==
    \A row \in account.positions : row.symbol = s /\ row.side = "BOTH" => row.quantity = 0

\* What holds of a process.
Stands(r) ==
    /\ r.pc \in {"off", "scan", "load"} => r.id = 0
    /\ r.pc \notin {"off", "scan", "load"} => r.pc \in WithPlan /\ r.id \in PlanIds
    /\ r.pc # "off" => r.symbol \in Confirmed
    /\ r.id # 0 =>
          /\ orders[r.id].row # "ABSENT" => orders[r.id].symbol = r.symbol
          /\ planFile.id = r.id => planFile.plan.symbol = r.symbol
    /\ r.pc \in {"send", "session", "running"} => orders[r.id].row # "ABSENT"
    /\ r.pc = "sync" /\ orders[r.id].row = "ABSENT" => SeenFlat(r.symbol)
    /\ r.pc \in {"recheck", "reorders", "leverage", "lookup", "commit", "send"} =>
          Untouched(r.symbol) /\ ~account.dualSidePosition
    /\ ~overlapped =>
          /\ r.pc \in {"reorders", "leverage", "lookup", "commit", "send"} => Filled(r.symbol) = {}
          /\ r.pc \in {"leverage", "lookup", "commit", "send"} => OpenOrders(r.symbol) = {}
          /\ r.pc \in {"commit", "send"} =>
                /\ orders[r.id].row \in {"ABSENT", "SUBMITTING"}
                /\ orders[r.id].venue = "NONE"
                /\ sessions[r.id] \notin {"FAILED", "CLOSED"}

\* The running main() knows of the only session it could disturb.
Knows(r) ==
    r.pc # "off" =>
        \A i \in PlanIds : sessions[i] = "ACTIVE" /\ orders[i].symbol = r.symbol => i = r.id

OrderFields == {"symbol", "price", "row", "venue"}

\* What holds of an order.
Agrees(i) ==
    /\ orders[i] = [f \in OrderFields |-> orders[i][f]]
    /\ orders[i].row = "ABSENT" =>
          orders[i].symbol = None /\ orders[i].venue = "NONE" /\ sessions[i] = "NONE"
    /\ orders[i].row # "ABSENT" =>
          /\ orders[i].symbol \in Confirmed /\ Untouched(orders[i].symbol)
          /\ planFile.id = i => planFile.plan.symbol = orders[i].symbol
    /\ orders[i].row = "ENDED" => orders[i].venue = "ENDED"
    /\ ~overlapped =>
          /\ orders[i].row = "REJECTED" => orders[i].venue = "NONE"
          /\ sessions[i] \in {"FAILED", "CLOSED"} => orders[i].venue \in {"NONE", "ENDED"}

Tables ==
    /\ orders = [i \in PlanIds |-> orders[i]]
    /\ sessions = [i \in PlanIds |-> sessions[i]]
    /\ overlapped \in BOOLEAN /\ account \in Accounts
    /\ planFile.id \in PlanIds \cup {0}

\* The manual command passes the preflight before it prepares.
PreflightIsPassed ==
    \A p \in Processes \ {"main"} :
        procs[p].pc = "prepare" => ~account.dualSidePosition

PlansAreTold ==
    \A p, q \in Processes :
        procs[p].id = procs[q].id /\ procs[p].id # 0 => procs[p].symbol = procs[q].symbol

OneActive ==
    \A i, j \in PlanIds :
        /\ sessions[i] = "ACTIVE" /\ sessions[j] = "ACTIVE"
        /\ orders[i].symbol = orders[j].symbol
        => i = j

OneEntered ==
    ~overlapped =>
        \A i, j \in PlanIds :
            /\ orders[i].venue \in {"OPEN", "FILLED"} /\ orders[j].venue \in {"OPEN", "FILLED"}
            /\ orders[i].symbol = orders[j].symbol
            => i = j

LaunchInv ==
    /\ Tables
    /\ \A p \in Processes : Stands(procs[p])
    /\ Knows(procs["main"])
    /\ \A i \in PlanIds : Agrees(i)
    /\ PreflightIsPassed /\ PlansAreTold /\ OneActive /\ OneEntered

-----------------------------------------------------------------------------
(* How the processes move *)

Others(p) == \A q \in Processes \ {p} : procs'[q] = procs[q]

Goes(p, pc) ==
    /\ Others(p)
    /\ procs'[p].pc = pc /\ procs'[p].symbol = procs[p].symbol /\ procs'[p].id = procs[p].id

Ends(p) == Others(p) /\ procs'[p] = Idle

LEMMA ProcessBecomes ==
    ASSUME MakersAreSound, NEW p \in Processes, NEW r, procs' = [procs EXCEPT ![p] = r]
    PROVE  Others(p) /\ procs'[p] = r
BY DEF MakersAreSound, Others

LEMMA ProcessGoes ==
    ASSUME MakersAreSound, NEW p \in Processes, NEW pc, Goto(p, pc)
    PROVE  Goes(p, pc)
<1> DEFINE r == [procs[p] EXCEPT !.pc = pc]
<1>1. procs' = [procs EXCEPT ![p] = r]
    BY DEF Goto
<1>2. Sound(procs[p])
    BY DEF MakersAreSound
<1>3. r.pc = pc /\ r.symbol = procs[p].symbol /\ r.id = procs[p].id
    BY <1>2 DEF Sound, Fields
<1> HIDE DEF r
<1> QED
    BY <1>1, <1>3, ProcessBecomes DEF Goes

LEMMA MainJoins ==
    ASSUME MakersAreSound, NEW pc, Joins(pc)
    PROVE  Goes("main", pc)
<1> DEFINE r == [procs["main"] EXCEPT !.pc = pc, !.plan = NoCandidate, !.made = None]
<1>0. "main" \in Processes
    BY LaunchAssumption
<1>1. procs' = [procs EXCEPT !["main"] = r]
    BY DEF Joins
<1>2. Sound(procs["main"])
    BY <1>0 DEF MakersAreSound
<1>3. r.pc = pc /\ r.symbol = procs["main"].symbol /\ r.id = procs["main"].id
    BY <1>2 DEF Sound, Fields
<1> HIDE DEF r
<1> QED
    BY <1>0, <1>1, <1>3, ProcessBecomes DEF Goes

LEMMA ProcessExits ==
    ASSUME MakersAreSound, NEW p \in Processes, Exit(p)
    PROVE  Ends(p)
BY ProcessBecomes DEF Exit, Ends

(* A step of one process that changes nothing else.                        *)
Alone == UNCHANGED <<planFile, account, orders, sessions, overlapped>>

LEMMA OthersStand ==
    ASSUME Alone, NEW q, Stands(procs[q]), procs'[q] = procs[q]
    PROVE  Stands(procs[q])'
BY DEF Alone, Stands, Filled, OpenOrders, Untouched, SeenFlat

LEMMA MoverStands ==
    ASSUME Alone, NEW p, Stands(procs'[p])
    PROVE  Stands(procs[p])'
BY DEF Alone, Stands, Filled, OpenOrders, Untouched, SeenFlat

LEMMA TablesStay ==
    ASSUME Alone, LaunchInv
    PROVE  Tables' /\ (\A i \in PlanIds : Agrees(i))' /\ OneActive' /\ OneEntered'
<1>1. Tables' /\ OneActive' /\ OneEntered'
    BY DEF Alone, LaunchInv, Tables, OneActive, OneEntered
<1>2. ASSUME NEW i \in PlanIds PROVE Agrees(i)'
    BY DEF Alone, LaunchInv, Agrees, Untouched
<1> QED
    BY <1>1, <1>2

LEMMA ProcessMoves ==
    ASSUME Alone, LaunchInv, NEW p \in Processes, Others(p),
           Stands(procs'[p]), p = "main" => Knows(procs'[p]),
           p # "main" /\ procs'[p].pc = "prepare" => ~account.dualSidePosition,
           procs'[p].id # 0 =>
               \A q \in Processes \ {p} :
                   procs[q].id = procs'[p].id => procs[q].symbol = procs'[p].symbol
    PROVE  LaunchInv'
<1>1. \A q \in Processes : Stands(procs[q])'
    BY OthersStand, MoverStands DEF LaunchInv, Others
<1>2. Knows(procs["main"])'
    <2>1. Knows(procs'["main"])
        BY LaunchAssumption DEF LaunchInv, Others
    <2> QED
        BY <2>1 DEF Alone, Knows
<1>3. PlansAreTold'
    BY DEF LaunchInv, PlansAreTold, Others
<1>4. PreflightIsPassed'
    BY DEF LaunchInv, PreflightIsPassed, Others, Alone
<1> QED
    BY <1>1, <1>2, <1>3, <1>4, TablesStay DEF LaunchInv

LEMMA ProcessEndsAlone ==
    ASSUME Alone, LaunchInv, NEW p \in Processes, Ends(p)
    PROVE  LaunchInv'
<1>1. procs'[p].pc = "off" /\ procs'[p].id = 0
    BY DEF Ends, Idle
<1>2. Stands(procs'[p]) /\ Knows(procs'[p])
    <2> HIDE DEF Idle
    <2> QED
        BY <1>1 DEF Stands, Knows
<1> QED
    BY <1>1, <1>2, ProcessMoves DEF Ends

LEMMA ProcessGoesOn ==
    ASSUME Alone, LaunchInv, NEW p \in Processes, NEW pc, Goes(p, pc),
           procs[p].pc # "off", Stands(procs'[p]),
           p # "main" => pc # "prepare"
    PROVE  LaunchInv'
<1>1. p = "main" => Knows(procs'[p])
    BY DEF LaunchInv, Knows, Goes
<1>2. procs'[p].id # 0 =>
          \A q \in Processes \ {p} :
              procs[q].id = procs'[p].id => procs[q].symbol = procs'[p].symbol
    BY DEF LaunchInv, PlansAreTold, Goes
<1> QED
    BY <1>1, <1>2, ProcessMoves DEF Goes

-----------------------------------------------------------------------------
(* What the reads of the position tell *)

LEMMA ReportedRows ==
    ASSUME LaunchInv, NEW row \in account.positions
    PROVE  \E item \in Reported.positions :
               /\ item.symbol = row.symbol /\ item.side = row.side
               /\ item.quantity = row.quantity - Cardinality(Filled(row.symbol))
<1> DEFINE item == [row EXCEPT !.quantity = @ - Cardinality(Filled(row.symbol))]
<1>1. /\ "positions" \in DOMAIN account
      /\ DOMAIN row = {"symbol", "side", "quantity"}
    BY AccountAssumption DEF LaunchInv, Tables
<1>2. item \in Reported.positions
    BY <1>1 DEF Reported
<1>3. /\ item.symbol = row.symbol /\ item.side = row.side
      /\ item.quantity = row.quantity - Cardinality(Filled(row.symbol))
    BY <1>1
<1> QED
    BY <1>2, <1>3

LEMMA ReportedOnly ==
    ASSUME LaunchInv, NEW item \in Reported.positions
    PROVE  \E row \in account.positions :
               /\ item.symbol = row.symbol /\ item.side = row.side
               /\ item.quantity = row.quantity - Cardinality(Filled(row.symbol))
<1>1. "positions" \in DOMAIN account
    BY AccountAssumption DEF LaunchInv, Tables
<1>2. PICK row \in account.positions :
          item = [row EXCEPT !.quantity = @ - Cardinality(Filled(row.symbol))]
    BY <1>1 DEF Reported
<1>3. DOMAIN row = {"symbol", "side", "quantity"}
    BY AccountAssumption DEF LaunchInv, Tables
<1> QED
    BY <1>2, <1>3

(* A symbol whose position is read as flat is flat in some row of it.      *)
LEMMA FlatRow ==
    ASSUME LaunchInv, NEW s, Flat(s),
           \E row \in account.positions : row.symbol = s /\ row.side = "BOTH"
    PROVE  \E row \in account.positions :
               row.symbol = s /\ row.side = "BOTH" /\ row.quantity - Cardinality(Filled(s)) = 0
<1> DEFINE oneWay == {item \in Reported.positions : item.symbol = s /\ item.side = "BOTH"}
           item == CHOOSE i \in oneWay : TRUE
<1>1. oneWay # {}
    BY ReportedRows
<1>2. item \in oneWay
    BY <1>1
<1>3. item.quantity = 0
    BY <1>1 DEF Flat, PositionQuantity
<1>4. item \in Reported.positions /\ item.symbol = s /\ item.side = "BOTH"
    BY <1>2
<1> HIDE DEF item
<1> QED
    BY <1>3, <1>4, ReportedOnly

LEMMA FlatIsSeen ==
    ASSUME LaunchInv, SnapshotReadable(account), NEW s, Flat(s)
    PROVE  SeenFlat(s)
<1> SUFFICES ASSUME NEW row \in account.positions, row.symbol = s, row.side = "BOTH"
             PROVE  row.quantity = 0
    BY DEF SeenFlat
<1>1. row.quantity - Cardinality(Filled(s)) = 0
    BY FlatRow DEF SnapshotReadable
<1>2. CASE Filled(s) = {}
    BY <1>1, <1>2, FS_EmptySet, AccountAssumption DEF LaunchInv, Tables
<1>3. CASE Filled(s) # {}
    <2>1. PICK i \in PlanIds : orders[i].symbol = s /\ orders[i].venue = "FILLED"
        BY <1>3 DEF Filled
    <2>2. Untouched(s)
        BY <2>1 DEF LaunchInv, Agrees
    <2> QED
        BY <2>2 DEF Untouched
<1> QED
    BY <1>2, <1>3

LEMMA SeenIsUntouched ==
    ASSUME LaunchInv, NEW s, SeenFlat(s), ~account.dualSidePosition
    PROVE  Untouched(s)
BY AccountAssumption DEF LaunchInv, Tables, SeenFlat, Untouched

LEMMA FlatIsUnfilled ==
    ASSUME LaunchInv, NEW s \in Confirmed, Untouched(s), ~account.dualSidePosition, Flat(s)
    PROVE  Filled(s) = {}
<1>1. \E row \in account.positions : row.symbol = s /\ row.side = "BOTH"
    BY AccountAssumption DEF LaunchInv, Tables
<1>2. PICK row \in account.positions :
          row.symbol = s /\ row.quantity - Cardinality(Filled(s)) = 0
    BY <1>1, FlatRow
<1>3. row.quantity = 0
    BY <1>2 DEF Untouched
<1>4. IsFiniteSet(Filled(s)) /\ Cardinality(Filled(s)) \in Nat
    BY LaunchAssumption, FS_Subset, FS_CardinalityType DEF Filled
<1> QED
    BY <1>2, <1>3, <1>4, FS_EmptySet

-----------------------------------------------------------------------------
(* The steps of one process that change nothing else *)

LEMMA ResumeKeeps ==
    ASSUME MakersAreSound, LaunchInv, NEW s \in Confirmed, MainResumes(s)
    PROVE  LaunchInv'
<1>0. "main" \in Processes /\ Alone
    BY LaunchAssumption DEF MainResumes, Alone
<1>1. PICK i \in PlanIds :
          /\ Active(s) = {i} /\ orders[i].row # "ABSENT"
          /\ procs' = [procs EXCEPT !["main"] =
                           [Idle EXCEPT !.pc = "sync", !.symbol = s, !.id = i]]
    BY Zenon DEF MainResumes
<1> DEFINE r == [Idle EXCEPT !.pc = "sync", !.symbol = s, !.id = i]
<1>2. r.pc = "sync" /\ r.symbol = s /\ r.id = i
    BY DEF Idle
<1>3. Others("main") /\ procs'["main"] = r
    BY <1>0, <1>1, ProcessBecomes
<1> HIDE DEF r
<1>4. orders[i].symbol = s /\ i \in Nat \ {0}
    BY <1>1, LaunchAssumption DEF Active
<1>5. planFile.id = i => planFile.plan.symbol = s
    BY <1>1, <1>4 DEF LaunchInv, Agrees
<1>6. Stands(r)
    BY <1>1, <1>2, <1>4, <1>5 DEF Stands, WithPlan
<1>7. Knows(r)
    BY <1>1, <1>2 DEF Knows, Active
<1>8. \A q \in Processes \ {"main"} : procs[q].id = r.id => procs[q].symbol = r.symbol
    BY <1>1, <1>2, <1>4 DEF LaunchInv, Stands
<1> QED
    BY <1>0, <1>3, <1>6, <1>7, <1>8, ProcessMoves

LEMMA StartKeeps ==
    ASSUME MakersAreSound, LaunchInv, NEW s \in Confirmed,
           MainStarts(s) \/ (OrderStarts(s) /\ "order" \in Processes)
    PROVE  LaunchInv'
<1> DEFINE R(pc) == [Idle EXCEPT !.pc = pc, !.symbol = s]
<1>1. \A pc : R(pc).pc = pc /\ R(pc).symbol = s /\ R(pc).id = 0
    BY DEF Idle
<1>2. \E p \in Processes, pc \in {"scan", "load"} :
          /\ procs' = [procs EXCEPT ![p] = R(pc)]
          /\ p = "main" => Active(s) = {}
    BY LaunchAssumption DEF MainStarts, OrderStarts
<1>3. Alone
    BY DEF MainStarts, OrderStarts, Alone
<1>4. PICK p \in Processes, pc \in {"scan", "load"} :
          /\ procs' = [procs EXCEPT ![p] = R(pc)]
          /\ p = "main" => Active(s) = {}
    BY <1>2
<1>5. Others(p) /\ procs'[p] = R(pc)
    BY <1>4, ProcessBecomes
<1> HIDE DEF R
<1>6. Stands(R(pc))
    BY <1>1 DEF Stands
<1>7. p = "main" => Knows(R(pc))
    BY <1>1, <1>4 DEF Knows, Active
<1> QED
    BY <1>1, <1>3, <1>4, <1>5, <1>6, <1>7, ProcessMoves

LEMMA LoadKeeps ==
    ASSUME MakersAreSound, LaunchInv, NEW p \in Processes, LoadsPlan(p)
    PROVE  LaunchInv'
<1> DEFINE pc == IF p = "main" THEN "adopt" ELSE "prepare"
           r == [procs[p] EXCEPT !.pc = pc, !.plan = planFile.plan, !.id = planFile.id]
<1>1. procs' = [procs EXCEPT ![p] = r] /\ Alone
    BY DEF LoadsPlan, Alone
<1>2. /\ procs[p].pc = "load" /\ procs[p].id = 0 /\ procs[p].symbol \in Confirmed
      /\ Sound(procs[p]) /\ Stands(procs[p])
    BY DEF LoadsPlan, LaunchInv, Stands, MakersAreSound
<1>3. /\ planFile.id \in PlanIds /\ planFile.id # 0
      /\ planFile.plan.symbol = procs[p].symbol
      /\ p = "order" => ~account.dualSidePosition
    BY DEF LoadsPlan, PlanAcceptable, PreflightPasses, LaunchInv, Tables
<1>4. r.pc = pc /\ r.symbol = procs[p].symbol /\ r.id = planFile.id
    BY <1>2 DEF Sound, Fields
<1>5. Others(p) /\ procs'[p] = r
    BY <1>1, ProcessBecomes
<1>6. r.pc \in {"adopt", "prepare"}
    BY <1>4
<1> HIDE DEF r, pc
<1>7. orders[r.id].row # "ABSENT" => orders[r.id].symbol = r.symbol
    BY <1>3, <1>4 DEF LaunchInv, Agrees
<1>8. Stands(r)
    BY <1>2, <1>3, <1>4, <1>6, <1>7 DEF Stands, WithPlan
<1>9. p = "main" => Knows(r)
    <2>1. p = "main" => \A i \in PlanIds :
              sessions[i] = "ACTIVE" /\ orders[i].symbol = procs[p].symbol => i = 0
        BY <1>2 DEF LaunchInv, Knows
    <2>2. 0 \notin PlanIds
        BY LaunchAssumption
    <2> QED
        BY <1>4, <2>1, <2>2 DEF Knows
<1>10. \A q \in Processes \ {p} : procs[q].id = r.id => procs[q].symbol = r.symbol
    BY <1>3, <1>4 DEF LaunchInv, Stands
<1>11. p # "main" => ~account.dualSidePosition
    BY <1>3, LaunchAssumption
<1> QED
    BY <1>1, <1>5, <1>8, <1>9, <1>10, <1>11, ProcessMoves

LEMMA EndsKeep ==
    ASSUME MakersAreSound, LaunchInv, NEW p \in Processes, Exit(p), Alone
    PROVE  LaunchInv'
BY ProcessExits, ProcessEndsAlone

LEMMA AdoptKeeps ==
    ASSUME MakersAreSound, LaunchInv, MainLooksForMaker
    PROVE  LaunchInv'
<1>0. "main" \in Processes /\ Alone /\ procs["main"].pc = "adopt"
    BY LaunchAssumption DEF MainLooksForMaker, Alone
<1>1. Stands(procs["main"])
    BY <1>0 DEF LaunchInv
<1>2. ASSUME Joins("session"), orders[procs["main"].id].row # "ABSENT" PROVE LaunchInv'
    <2>1. Goes("main", "session")
        BY <1>2, MainJoins
    <2>2. Stands(procs'["main"])
        BY <1>0, <1>1, <1>2, <2>1 DEF Stands, Goes, WithPlan
    <2> QED
        BY <1>0, <2>1, <2>2, ProcessGoesOn
<1>3. ASSUME Goto("main", "prepare") PROVE LaunchInv'
    <2>1. Goes("main", "prepare")
        BY <1>0, <1>3, ProcessGoes
    <2>2. Stands(procs'["main"])
        BY <1>0, <1>1, <2>1 DEF Stands, Goes, WithPlan
    <2> QED
        BY <1>0, <2>1, <2>2, ProcessGoesOn
<1>4. CASE Exit("main")
    BY <1>0, <1>4, EndsKeep
<1> QED
    BY <1>2, <1>3, <1>4 DEF MainLooksForMaker

LEMMA PrepareKeeps ==
    ASSUME MakersAreSound, LaunchInv, NEW p \in Processes, PreparesMaker(p)
    PROVE  LaunchInv'
<1> DEFINE pc == IF p = "main" THEN "sync" ELSE "recheck"
           Moves(c) == procs' = [procs EXCEPT ![p].pc = IF p = "main" THEN "sync" ELSE "recheck",
                                              ![p].made = c.made]
<1>0. Alone /\ procs[p].pc = "prepare" /\ Stands(procs[p]) /\ Sound(procs[p])
    BY DEF PreparesMaker, Alone, LaunchInv, MakersAreSound
<1>1. \/ Exit(p)
      \/ Flat(procs[p].symbol) /\ \E c \in Preparable : c.account = account /\ Moves(c)
    BY Zenon DEF PreparesMaker
<1>2. ASSUME Flat(procs[p].symbol), NEW c \in Preparable, c.account = account, Moves(c)
      PROVE  LaunchInv'
    <2> DEFINE r == [procs[p] EXCEPT !.pc = pc, !.made = c.made]
    <2>1. SnapshotReadable(account)
        <3>1. PICK plan \in ReadyPlans, book \in PerpBooks, acc \in Accounts :
                  MakerApproved(plan, book, acc) /\ c.account = acc
            BY DEF Preparable
        <3> QED
            BY <1>2, <3>1 DEF MakerApproved
    <2>2. SeenFlat(procs[p].symbol)
        BY <1>2, <2>1, FlatIsSeen
    <2>3. procs' = [procs EXCEPT ![p] = r]
        BY <1>2
    <2>4. r.pc = pc /\ r.symbol = procs[p].symbol /\ r.id = procs[p].id
        BY <1>0 DEF Sound, Fields
    <2>5. Others(p) /\ procs'[p] = r
        BY <2>3, ProcessBecomes
    <2> HIDE DEF r
    <2>6. Goes(p, pc)
        BY <2>4, <2>5 DEF Goes
    <2>7. p # "main" => Untouched(procs[p].symbol) /\ ~account.dualSidePosition
        BY <1>0, <2>2, SeenIsUntouched DEF LaunchInv, PreflightIsPassed
    <2>8. Stands(procs'[p])
        BY <1>0, <2>2, <2>4, <2>5, <2>7 DEF Stands, WithPlan
    <2> QED
        BY <1>0, <2>6, <2>8, ProcessGoesOn
<1>3. CASE Exit(p)
    BY <1>0, <1>3, EndsKeep
<1> QED
    BY <1>1, <1>2, <1>3

LEMMA SynchronizeKeeps ==
    ASSUME MakersAreSound, LaunchInv, Synchronizes
    PROVE  LaunchInv'
<1>0. "main" \in Processes /\ Alone /\ procs["main"].pc = "sync"
    BY LaunchAssumption DEF Synchronizes, Alone
<1>1. Stands(procs["main"])
    BY <1>0 DEF LaunchInv
<1> DEFINE i == procs["main"].id
<1>2. i \in PlanIds
    BY <1>0, <1>1 DEF Stands
<1>3. ASSUME NEW pc \in {"running", "session"}, Joins(pc), orders[i].row # "ABSENT"
      PROVE  LaunchInv'
    <2>1. Goes("main", pc)
        BY <1>3, MainJoins
    <2>2. Stands(procs'["main"])
        BY <1>0, <1>1, <1>3, <2>1 DEF Stands, Goes, WithPlan
    <2> QED
        BY <1>0, <2>1, <2>2, ProcessGoesOn
<1>4. ASSUME Goto("main", "recheck"), orders[i].row = "ABSENT", PreflightPasses(account)
      PROVE  LaunchInv'
    <2>1. Goes("main", "recheck")
        BY <1>0, <1>4, ProcessGoes
    <2>2. SeenFlat(procs["main"].symbol) /\ ~account.dualSidePosition
        BY <1>0, <1>1, <1>4 DEF Stands, PreflightPasses
    <2>3. Untouched(procs["main"].symbol)
        BY <2>2, SeenIsUntouched
    <2>4. Stands(procs'["main"])
        BY <1>0, <1>1, <2>1, <2>2, <2>3 DEF Stands, Goes, WithPlan
    <2> QED
        BY <1>0, <2>1, <2>4, ProcessGoesOn
<1>5. CASE Exit("main")
    BY <1>0, <1>5, EndsKeep
<1>6. sessions[i] # "NONE" => orders[i].row # "ABSENT"
    BY <1>2 DEF LaunchInv, Agrees
<1> QED
    BY <1>3, <1>4, <1>5, <1>6 DEF Synchronizes

LEMMA RecheckKeeps ==
    ASSUME MakersAreSound, LaunchInv, NEW p \in Processes,
           RechecksPosition(p) \/ RechecksOpenOrders(p) \/ ConfirmsLeverage(p)
    PROVE  LaunchInv'
<1>0. Alone /\ procs[p].pc \in {"recheck", "reorders", "leverage"} /\ Stands(procs[p])
    BY DEF RechecksPosition, RechecksOpenOrders, ConfirmsLeverage, Alone, LaunchInv
<1> DEFINE s == procs[p].symbol
<1>1. s \in Confirmed /\ Untouched(s) /\ ~account.dualSidePosition
    BY <1>0 DEF Stands
<1>2. ASSUME Goto(p, "reorders"), Flat(s) PROVE LaunchInv'
    <2>1. Goes(p, "reorders") /\ Filled(s) = {}
        BY <1>1, <1>2, ProcessGoes, FlatIsUnfilled
    <2>2. Stands(procs'[p])
        BY <1>0, <1>1, <2>1 DEF Stands, Goes, WithPlan
    <2> QED
        BY <1>0, <2>1, <2>2, ProcessGoesOn
<1>3. ASSUME Goto(p, "leverage"), OpenOrders(s) = {}, procs[p].pc = "reorders"
      PROVE  LaunchInv'
    <2>1. Goes(p, "leverage")
        BY <1>3, ProcessGoes
    <2>2. Stands(procs'[p])
        BY <1>0, <1>1, <1>3, <2>1 DEF Stands, Goes, WithPlan
    <2> QED
        BY <1>0, <2>1, <2>2, ProcessGoesOn
<1>4. ASSUME Goto(p, "lookup"), procs[p].pc = "leverage"
      PROVE  LaunchInv'
    <2>1. Goes(p, "lookup")
        BY <1>4, ProcessGoes
    <2>2. Stands(procs'[p])
        BY <1>0, <1>1, <1>4, <2>1 DEF Stands, Goes, WithPlan
    <2> QED
        BY <1>0, <2>1, <2>2, ProcessGoesOn
<1>5. CASE Exit(p)
    BY <1>0, <1>5, EndsKeep
<1> QED
    BY <1>2, <1>3, <1>4, <1>5 DEF RechecksPosition, RechecksOpenOrders, ConfirmsLeverage

LEMMA LookupKeeps ==
    ASSUME MakersAreSound, LaunchInv, NEW p \in Processes, FindsRow(p)
    PROVE  LaunchInv'
<1>0. Alone /\ procs[p].pc = "lookup" /\ Stands(procs[p])
    BY DEF FindsRow, Alone, LaunchInv
<1> DEFINE i == procs[p].id
<1>1. i \in PlanIds
    BY <1>0 DEF Stands
<1>2. ASSUME Goto(p, "commit"), orders[i].row = "ABSENT" PROVE LaunchInv'
    <2>1. Goes(p, "commit")
        BY <1>2, ProcessGoes
    <2>2. orders[i].venue = "NONE" /\ sessions[i] = "NONE"
        BY <1>1, <1>2 DEF LaunchInv, Agrees
    <2>3. Stands(procs'[p])
        BY <1>0, <1>2, <2>1, <2>2 DEF Stands, Goes, WithPlan
    <2> QED
        BY <1>0, <2>1, <2>3, ProcessGoesOn
<1>3. ASSUME Joins("session"), p = "main", orders[i].row # "ABSENT" PROVE LaunchInv'
    <2>1. Goes(p, "session")
        BY <1>3, MainJoins
    <2>2. Stands(procs'[p])
        BY <1>0, <1>3, <2>1 DEF Stands, Goes, WithPlan
    <2> QED
        BY <1>0, <2>1, <2>2, ProcessGoesOn
<1>4. CASE Exit(p)
    BY <1>0, <1>4, EndsKeep
<1> QED
    BY <1>2, <1>3, <1>4 DEF FindsRow

-----------------------------------------------------------------------------
(* The plan file is replaced: its id is new, or none is left *)

LEMMA IdsAreNew ==
    ASSUME LaunchInv, CanScan
    PROVE  /\ NewId \in PlanIds
           /\ \A p \in Processes : procs[p].id # NewId
           /\ orders[NewId].row = "ABSENT"
<1>1. NewId \in PlanIds \ Used
    BY DEF CanScan, NewId
<1> QED
    BY <1>1 DEF Used

LEMMA FileKeeps ==
    ASSUME LaunchInv, UNCHANGED <<account, orders, sessions, overlapped>>,
           \A p \in Processes :
               \/ procs'[p] = procs[p]
               \/ /\ procs[p].pc = "scan" /\ procs'[p].pc = "load"
                  /\ procs'[p].symbol = procs[p].symbol /\ procs'[p].id = procs[p].id,
           \/ planFile' = planFile
           \/ planFile'.id = 0
           \/ CanScan /\ planFile'.id = NewId
    PROVE  LaunchInv'
<1>1. \/ planFile' = planFile
      \/ /\ planFile'.id \in PlanIds \cup {0}
         /\ planFile'.id # 0 =>
               /\ \A p \in Processes : procs[p].id # planFile'.id
               /\ orders[planFile'.id].row = "ABSENT"
    BY IdsAreNew
<1>2. Tables'
    BY <1>1 DEF LaunchInv, Tables
<1>3. ASSUME NEW p \in Processes PROVE Stands(procs[p])'
    <2>1. /\ procs'[p].symbol = procs[p].symbol /\ procs'[p].id = procs[p].id
          /\ procs'[p].pc = procs[p].pc \/ (procs[p].pc = "scan" /\ procs'[p].pc = "load")
        BY <1>3
    <2>2. Stands(procs[p])
        BY DEF LaunchInv
    <2>3. procs[p].id # 0 /\ planFile'.id = procs[p].id => planFile'.plan.symbol = procs[p].symbol
        BY <1>1, <2>2 DEF Stands
    <2> QED
        BY <2>1, <2>2, <2>3 DEF Stands, Filled, OpenOrders, Untouched, SeenFlat
<1>4. Knows(procs["main"])'
    BY LaunchAssumption DEF LaunchInv, Knows
<1>5. ASSUME NEW i \in PlanIds PROVE Agrees(i)'
    <2>1. i # 0
        BY LaunchAssumption
    <2> QED
        BY <1>1, <2>1 DEF LaunchInv, Agrees, Untouched
<1>6. PreflightIsPassed' /\ PlansAreTold'
    BY DEF LaunchInv, PreflightIsPassed, PlansAreTold
<1>7. OneActive' /\ OneEntered'
    BY DEF LaunchInv, OneActive, OneEntered
<1> QED
    BY <1>2, <1>3, <1>4, <1>5, <1>6, <1>7 DEF LaunchInv

LEMMA MonitorKeeps ==
    ASSUME LaunchInv, Monitor
    PROVE  LaunchInv'
<1>1. UNCHANGED <<account, procs, orders, sessions, overlapped>>
    BY DEF Monitor, launchVars
<1>2. planFile' = planFile \/ planFile'.id = NextId
    BY DEF Monitor, MonitorStarts, MonitorScans, MonitorFails, MonitorStops, Replace, Written
<1> QED
    BY <1>1, <1>2, FileKeeps DEF NextId

LEMMA ScanKeeps ==
    ASSUME MakersAreSound, LaunchInv, MainScans
    PROVE  LaunchInv'
<1>1. Goes("main", "load")
    BY LaunchAssumption, ProcessGoes DEF MainScans
<1>2. planFile'.id = NewId
    BY DEF MainScans, Replace, Written
<1>3. \A p \in Processes :
          \/ procs'[p] = procs[p]
          \/ /\ procs[p].pc = "scan" /\ procs'[p].pc = "load"
             /\ procs'[p].symbol = procs[p].symbol /\ procs'[p].id = procs[p].id
    BY <1>1 DEF Goes, Others, MainScans
<1> QED
    BY <1>2, <1>3, FileKeeps DEF MainScans

-----------------------------------------------------------------------------
(* A row is committed *)

LEMMA RowKeeps ==
    ASSUME MakersAreSound, LaunchInv, NEW p \in Processes, CommitsRow(p)
    PROVE  LaunchInv'
<1> DEFINE i == procs[p].id
           s == procs[p].symbol
<1>0. /\ procs[p].pc = "commit" /\ Stands(procs[p])
      /\ UNCHANGED <<planFile, account, sessions, overlapped>>
    BY DEF CommitsRow, LaunchInv
<1>1. CASE Exit(p) /\ UNCHANGED orders
    BY <1>0, <1>1, EndsKeep DEF Alone
<1>2. ASSUME Goto(p, "send"),
             orders' = [orders EXCEPT ![i].symbol = s, ![i].price = procs[p].made.price,
                                      ![i].row = "SUBMITTING"]
      PROVE  LaunchInv'
    <2>1. /\ i \in PlanIds /\ i # 0 /\ s \in Confirmed /\ Untouched(s)
          /\ orders[i].row # "ABSENT" => orders[i].symbol = s
          /\ planFile.id = i => planFile.plan.symbol = s
          /\ ~overlapped => orders[i].venue = "NONE" /\ sessions[i] \notin {"FAILED", "CLOSED"}
        BY <1>0, LaunchAssumption DEF Stands
    <2>2. orders[i].row = "ABSENT" => orders[i].venue = "NONE" /\ sessions[i] = "NONE"
        BY <2>1 DEF LaunchInv, Agrees
    <2>3. Goes(p, "send")
        BY <1>2, ProcessGoes
    <2>4. /\ orders' = [j \in PlanIds |-> orders'[j]]
          /\ \A j \in PlanIds \ {i} : orders'[j] = orders[j]
          /\ orders'[i] = [f \in OrderFields |-> orders'[i][f]]
          /\ orders'[i].symbol = s /\ orders'[i].row = "SUBMITTING"
          /\ orders'[i].venue = orders[i].venue
        <3>1. orders = [j \in PlanIds |-> orders[j]] /\ orders[i] = [f \in OrderFields |-> orders[i][f]]
            BY <2>1 DEF LaunchInv, Tables, Agrees
        <3> DEFINE o == [orders[i] EXCEPT !.symbol = s, !.price = procs[p].made.price,
                                          !.row = "SUBMITTING"]
        <3>2. orders' = [orders EXCEPT ![i] = o]
            BY <1>2, <2>1, <3>1
        <3>3. /\ o = [f \in OrderFields |-> o[f]]
              /\ o.symbol = s /\ o.row = "SUBMITTING" /\ o.venue = orders[i].venue
            BY <3>1 DEF OrderFields
        <3> HIDE DEF o
        <3> QED
            BY <2>1, <3>1, <3>2, <3>3
    <2> HIDE DEF i, s
    <2>5. \A x : x \in Confirmed => Filled(x)' = Filled(x) /\ OpenOrders(x)' = OpenOrders(x)
        BY <2>1, <2>2, <2>4 DEF Filled, OpenOrders
    <2>6. ASSUME NEW q \in Processes PROVE Stands(procs[q])'
        <3>1. Stands(procs[q]) /\ (procs[q].id = i => procs[q].symbol = s)
            BY <2>1 DEF LaunchInv, PlansAreTold, i, s
        <3>2. /\ procs'[q].id = procs[q].id /\ procs'[q].symbol = procs[q].symbol
              /\ procs'[q].pc = IF q = p THEN "send" ELSE procs[q].pc
            BY <2>3 DEF Goes, Others
        <3>3. CASE procs[q].id = i
            <4>1. /\ orders'[i].symbol = s /\ orders'[i].row = "SUBMITTING"
                  /\ orders'[i].venue = orders[i].venue
                  /\ i \in PlanIds /\ s \in Confirmed /\ procs[q].symbol = s
                BY <2>1, <2>4, <3>1, <3>3
            <4>2. CASE q = p
                BY <1>0, <2>1, <2>2, <2>5, <3>1, <3>2, <3>3, <4>1, <4>2
                DEF Stands, Untouched, SeenFlat, WithPlan, i, s
            <4>3. CASE q # p
                BY <1>0, <2>1, <2>2, <2>5, <3>1, <3>2, <3>3, <4>1, <4>3
                DEF Stands, Untouched, SeenFlat, WithPlan
            <4> QED
                BY <4>2, <4>3
        <3>4. CASE procs[q].id # i
            <4>1. q # p
                BY <3>4 DEF i
            <4>2. procs[q].id # 0 => procs[q].id \in PlanIds
                BY <3>1 DEF Stands
            <4> QED
                BY <1>0, <2>4, <2>5, <3>1, <3>2, <3>4, <4>1, <4>2
                DEF Stands, Untouched, SeenFlat, WithPlan
        <3> QED
            BY <3>3, <3>4
    <2>7. \A j \in PlanIds : sessions[j] = "ACTIVE" => orders'[j].symbol = orders[j].symbol
        BY <2>1, <2>2, <2>4
    <2>8. Knows(procs["main"])'
        BY <1>0, <2>3, <2>7, LaunchAssumption DEF LaunchInv, Knows, Goes, Others
    <2>9. ASSUME NEW j \in PlanIds PROVE Agrees(j)'
        <3>1. Agrees(j)
            BY DEF LaunchInv
        <3>2. CASE j = i
            BY <1>0, <2>1, <2>4, <3>1, <3>2 DEF Agrees, Untouched
        <3>3. CASE j # i
            BY <1>0, <2>4, <3>1, <3>3 DEF Agrees, Untouched
        <3> QED
            BY <3>2, <3>3
    <2>10. Tables' /\ PreflightIsPassed' /\ PlansAreTold' /\ OneActive'
        BY <1>0, <2>3, <2>4, <2>7
        DEF LaunchInv, Tables, PreflightIsPassed, PlansAreTold, OneActive, Goes, Others
    <2>11. \A j \in PlanIds :
               /\ orders'[j].venue = orders[j].venue
               /\ orders[j].venue # "NONE" => orders'[j].symbol = orders[j].symbol
        BY <2>1, <2>2, <2>4
    <2>12. OneEntered'
        <3>1. ASSUME ~overlapped, NEW j \in PlanIds, NEW k \in PlanIds,
                     orders'[j].venue \in {"OPEN", "FILLED"},
                     orders'[k].venue \in {"OPEN", "FILLED"},
                     orders'[j].symbol = orders'[k].symbol
              PROVE  j = k
            <4>1. /\ orders[j].venue \in {"OPEN", "FILLED"} /\ orders[k].venue \in {"OPEN", "FILLED"}
                  /\ orders[j].symbol = orders[k].symbol
                BY <2>11, <3>1
            <4> QED
                BY <3>1, <4>1 DEF LaunchInv, OneEntered
        <3> QED
            BY <1>0, <3>1 DEF OneEntered
    <2> QED
        BY <2>6, <2>8, <2>9, <2>10, <2>12 DEF LaunchInv
<1> QED
    BY <1>1, <1>2 DEF CommitsRow

-----------------------------------------------------------------------------
(* One order changes, at the exchange or by an answer: its symbol stays,   *)
(* and a process on its way to the exchange with the same symbol is none   *)
(* but the one that was answered, or the history says so.                  *)

OrderBecomes(i, row, venue) ==
    /\ orders' = [j \in PlanIds |-> orders'[j]]
    /\ \A j \in PlanIds \ {i} : orders'[j] = orders[j]
    /\ orders'[i] = [f \in OrderFields |-> orders'[i][f]]
    /\ orders'[i].symbol = orders[i].symbol
    /\ orders'[i].row = row /\ orders'[i].venue = venue

LEMMA RowOnly ==
    ASSUME LaunchInv, NEW i \in PlanIds, NEW venue,
           orders' = [orders EXCEPT ![i].venue = venue]
    PROVE  OrderBecomes(i, orders[i].row, venue)
<1> DEFINE o == [orders[i] EXCEPT !.venue = venue]
<1>1. orders = [j \in PlanIds |-> orders[j]] /\ orders[i] = [f \in OrderFields |-> orders[i][f]]
    BY DEF LaunchInv, Tables, Agrees
<1>2. orders' = [orders EXCEPT ![i] = o]
    BY <1>1
<1>3. /\ o = [f \in OrderFields |-> o[f]]
      /\ o.symbol = orders[i].symbol /\ o.row = orders[i].row /\ o.venue = venue
    BY <1>1 DEF OrderFields
<1> HIDE DEF o
<1> QED
    BY <1>1, <1>2, <1>3 DEF OrderBecomes

LEMMA RowAndVenue ==
    ASSUME LaunchInv, NEW i \in PlanIds, NEW row, NEW venue,
           orders' = [orders EXCEPT ![i].row = row, ![i].venue = venue]
    PROVE  OrderBecomes(i, row, venue)
<1> DEFINE o == [orders[i] EXCEPT !.row = row, !.venue = venue]
<1>1. orders = [j \in PlanIds |-> orders[j]] /\ orders[i] = [f \in OrderFields |-> orders[i][f]]
    BY DEF LaunchInv, Tables, Agrees
<1>2. orders' = [orders EXCEPT ![i] = o]
    BY <1>1
<1>3. /\ o = [f \in OrderFields |-> o[f]]
      /\ o.symbol = orders[i].symbol /\ o.row = row /\ o.venue = venue
    BY <1>1 DEF OrderFields
<1> HIDE DEF o
<1> QED
    BY <1>1, <1>2, <1>3 DEF OrderBecomes

\* A process of the order's symbol is past its last position check.
Disturbs(i, q) ==
    procs'[q].symbol = orders[i].symbol /\ procs'[q].pc \in {"reorders", "leverage", "lookup", "commit", "send"}

LEMMA OrderChanges ==
    ASSUME LaunchInv, UNCHANGED <<planFile, account, sessions>>, overlapped' \in BOOLEAN,
           overlapped => overlapped', NEW i \in PlanIds, NEW row, NEW venue,
           orders[i].row # "ABSENT", OrderBecomes(i, row, venue), row # "ABSENT",
           row = "ENDED" => venue = "ENDED",
           ~overlapped' =>
               /\ row = "REJECTED" => venue = "NONE"
               /\ sessions[i] \in {"FAILED", "CLOSED"} => venue \in {"NONE", "ENDED"},
           ~overlapped' /\ venue \in {"OPEN", "FILLED"} =>
               \/ orders[i].venue \in {"OPEN", "FILLED"}
               \/ Filled(orders[i].symbol) = {} /\ OpenOrders(orders[i].symbol) = {},
           NEW p \in Processes,
           Others(p),
           \/ procs'[p] = procs[p]
           \/ procs'[p] = Idle
           \/ Goes(p, "session") /\ procs[p].pc = "send",
           ~overlapped' /\ (venue # "ENDED" \/ row # orders[i].row \/ orders[i].venue # "OPEN") =>
               \A q \in Processes : ~Disturbs(i, q)
    PROVE  LaunchInv'
<1>1. /\ orders[i].symbol \in Confirmed /\ Untouched(orders[i].symbol)
      /\ planFile.id = i => planFile.plan.symbol = orders[i].symbol
    BY DEF LaunchInv, Agrees
<1>2. \A j \in PlanIds : orders'[j].symbol = orders[j].symbol
    BY DEF OrderBecomes
<1>3. ASSUME NEW q \in Processes
      PROVE  procs'[q].pc # "off" =>
                 /\ Stands(procs[q])
                 /\ procs'[q].id = procs[q].id /\ procs'[q].symbol = procs[q].symbol
                 /\ procs'[q].pc = procs[q].pc \/ (procs'[q].pc = "session" /\ procs[q].pc = "send")
    BY DEF Others, Goes, LaunchInv, Idle
<1>4. ASSUME NEW q \in Processes PROVE procs'[q].pc = "off" => procs'[q].id = 0
    BY DEF Others, Goes, LaunchInv, Idle, Stands
<1>5. ASSUME NEW x, x # orders[i].symbol
      PROVE  Filled(x)' = Filled(x) /\ OpenOrders(x)' = OpenOrders(x)
    BY <1>2, <1>5 DEF Filled, OpenOrders, OrderBecomes
<1>6. ASSUME venue = "ENDED", NEW x
      PROVE  Filled(x)' \subseteq Filled(x) /\ OpenOrders(x)' \subseteq OpenOrders(x)
    BY <1>2, <1>6 DEF Filled, OpenOrders, OrderBecomes
<1> HIDE DEF Disturbs
<1>7. ASSUME NEW q \in Processes PROVE Stands(procs[q])'
    <2>1. CASE procs'[q].pc = "off"
        BY <1>4, <2>1 DEF Stands
    <2>2. CASE procs'[q].pc # "off"
        <3> DEFINE r == procs'[q]
        <3>1. /\ Stands(procs[q])
              /\ r.id = procs[q].id /\ r.symbol = procs[q].symbol
              /\ r.pc = procs[q].pc \/ (r.pc = "session" /\ procs[q].pc = "send")
            BY <1>3, <2>2
        <3>2. r.id # 0 => r.id \in PlanIds
            BY <3>1 DEF Stands
        <3>3. /\ r.pc \in {"off", "scan", "load"} => r.id = 0
              /\ r.pc \notin {"off", "scan", "load"} => r.pc \in WithPlan /\ r.id \in PlanIds
              /\ r.pc # "off" => r.symbol \in Confirmed
            BY <3>1 DEF Stands, WithPlan
        <3>4. r.id # 0 =>
                  /\ orders'[r.id].row # "ABSENT" => orders'[r.id].symbol = r.symbol
                  /\ planFile.id = r.id => planFile.plan.symbol = r.symbol
            BY <1>2, <3>1, <3>2 DEF Stands, OrderBecomes
        <3>5. /\ r.pc \in {"send", "session", "running"} => orders'[r.id].row # "ABSENT"
              /\ r.pc = "sync" /\ orders'[r.id].row = "ABSENT" => SeenFlat(r.symbol)
              /\ r.pc \in {"recheck", "reorders", "leverage", "lookup", "commit", "send"} =>
                    Untouched(r.symbol) /\ ~account.dualSidePosition
            BY <3>1, <3>3 DEF Stands, OrderBecomes
        <3>6. ASSUME ~overlapped', r.pc \in {"reorders", "leverage", "lookup", "commit", "send"}
              PROVE  /\ Filled(procs[q].symbol)' = {}
                     /\ r.pc \in {"leverage", "lookup", "commit", "send"} => OpenOrders(procs[q].symbol)' = {}
                     /\ r.pc \in {"commit", "send"} =>
                           /\ orders'[r.id].row \in {"ABSENT", "SUBMITTING"}
                           /\ orders'[r.id].venue = "NONE"
                           /\ sessions[r.id] \notin {"FAILED", "CLOSED"}
            <4>1. /\ ~overlapped /\ r.pc = procs[q].pc /\ r.id \in PlanIds /\ r.id # 0
                BY <3>1, <3>3, <3>6, LaunchAssumption DEF WithPlan
            <4>2. /\ Filled(r.symbol) = {}
                  /\ r.pc \in {"leverage", "lookup", "commit", "send"} => OpenOrders(r.symbol) = {}
                  /\ r.pc \in {"commit", "send"} =>
                        /\ orders[r.id].row \in {"ABSENT", "SUBMITTING"}
                        /\ orders[r.id].venue = "NONE"
                        /\ sessions[r.id] \notin {"FAILED", "CLOSED"}
                BY <3>1, <3>6, <4>1 DEF Stands
            <4>3. CASE r.symbol # orders[i].symbol
                <5>1. r.id # i
                    BY <3>1, <4>1, <4>3 DEF Stands
                <5>2. /\ Filled(procs[q].symbol)' = Filled(r.symbol)
                      /\ OpenOrders(procs[q].symbol)' = OpenOrders(r.symbol)
                    <6>1. \A x : x # orders[i].symbol =>
                              {j \in PlanIds : orders'[j].symbol = x /\ orders'[j].venue = "FILLED"}
                                  = Filled(x)
                              /\ {j \in PlanIds : orders'[j].symbol = x /\ orders'[j].venue = "OPEN"}
                                  = OpenOrders(x)
                        BY <1>5 DEF Filled, OpenOrders
                    <6> QED
                        BY <4>3, <6>1 DEF Filled, OpenOrders
                <5> QED
                    BY <4>1, <4>2, <5>1, <5>2 DEF OrderBecomes
            <4>4. CASE r.symbol = orders[i].symbol
                <5>1. Disturbs(i, q)
                    BY <3>6, <4>4 DEF Disturbs
                <5>2. venue = "ENDED" /\ orders[i].venue = "OPEN" /\ row = orders[i].row
                    BY <3>6, <5>1
                <5>3. r.pc \in {"commit", "send"} => r.id # i
                    BY <4>2, <5>2
                <5>4. \A j \in PlanIds : orders'[j].symbol = r.symbol =>
                          /\ orders'[j].venue # "FILLED"
                          /\ r.pc \in {"leverage", "lookup", "commit", "send"} => orders'[j].venue # "OPEN"
                    BY <1>2, <4>2, <5>2 DEF Filled, OpenOrders, OrderBecomes
                <5> QED
                    BY <4>1, <4>2, <5>3, <5>4 DEF OrderBecomes, Filled, OpenOrders
            <4> QED
                BY <4>3, <4>4
        <3> QED
            BY <3>3, <3>4, <3>5, <3>6 DEF Stands, Untouched, SeenFlat
    <2> QED
        BY <2>1, <2>2
<1>8. Knows(procs["main"])'
    <2>1. procs'["main"].pc # "off" =>
              /\ procs["main"].pc # "off"
              /\ procs'["main"].id = procs["main"].id
              /\ procs'["main"].symbol = procs["main"].symbol
        BY <1>3, LaunchAssumption
    <2> QED
        BY <1>2, <2>1 DEF LaunchInv, Knows
<1>9. ASSUME NEW j \in PlanIds PROVE Agrees(j)'
    <2>1. Agrees(j)
        BY DEF LaunchInv
    <2>2. CASE j = i
        BY <1>1, <2>1, <2>2 DEF Agrees, Untouched, OrderBecomes
    <2>3. CASE j # i
        BY <2>1, <2>3 DEF Agrees, Untouched, OrderBecomes
    <2> QED
        BY <2>2, <2>3
<1>10. Tables' /\ OneActive'
    BY <1>2 DEF LaunchInv, Tables, OneActive, OrderBecomes
<1>11. PreflightIsPassed' /\ PlansAreTold'
    BY DEF LaunchInv, PreflightIsPassed, PlansAreTold, Others, Goes, Idle
<1>12. OneEntered'
    <2>1. ASSUME ~overlapped', NEW j \in PlanIds, NEW k \in PlanIds,
                 orders'[j].venue \in {"OPEN", "FILLED"},
                 orders'[k].venue \in {"OPEN", "FILLED"},
                 orders'[j].symbol = orders'[k].symbol
          PROVE  j = k
        <3>1. orders[j].symbol = orders[k].symbol
            BY <1>2, <2>1
        <3>2. CASE orders[i].venue \in {"OPEN", "FILLED"} \/ (j # i /\ k # i)
            <4>1. orders[j].venue \in {"OPEN", "FILLED"} /\ orders[k].venue \in {"OPEN", "FILLED"}
                BY <2>1, <3>2 DEF OrderBecomes
            <4> QED
                BY <2>1, <3>1, <4>1 DEF LaunchInv, OneEntered
        <3>3. CASE orders[i].venue \notin {"OPEN", "FILLED"} /\ (j = i \/ k = i)
            <4>1. Filled(orders[i].symbol) = {} /\ OpenOrders(orders[i].symbol) = {}
                BY <2>1, <3>3 DEF OrderBecomes
            <4>2. \A l \in PlanIds \ {i} : orders[l].symbol = orders[i].symbol =>
                      orders'[l].venue \notin {"OPEN", "FILLED"}
                BY <4>1 DEF Filled, OpenOrders, OrderBecomes
            <4> QED
                BY <2>1, <3>1, <3>3, <4>2
        <3> QED
            BY <3>2, <3>3
    <2> QED
        BY <2>1 DEF OneEntered
<1> QED
    BY <1>7, <1>8, <1>9, <1>10, <1>11, <1>12 DEF LaunchInv

LEMMA AnswerKeeps ==
    ASSUME MakersAreSound, LaunchInv, NEW p \in Processes, NEW row, NEW venue,
           procs[p].pc = "send", Answered(p, row, venue), row # "ABSENT",
           row = "ENDED" => venue = "ENDED",
           row = "REJECTED" => venue = orders[procs[p].id].venue,
           venue = orders[procs[p].id].venue \/ orders[procs[p].id].venue = "NONE"
    PROVE  LaunchInv'
<1> DEFINE i == procs[p].id
           s == procs[p].symbol
<1>1. Stands(procs[p])
    BY DEF LaunchInv
<1>2. i \in PlanIds /\ i # 0
    BY <1>1, LaunchAssumption DEF Stands, WithPlan
<1>3. orders[i].row # "ABSENT" /\ orders[i].symbol = s
    BY <1>1, <1>2 DEF Stands
<1>4. OrderBecomes(i, row, venue)
    BY <1>2, RowAndVenue DEF Answered
<1>5. /\ UNCHANGED <<planFile, account, sessions>>
      /\ overlapped' = (overlapped \/ Committed(s) # {p})
    BY DEF Answered
<1>6. overlapped' \in BOOLEAN /\ (overlapped => overlapped')
    BY <1>5 DEF LaunchInv, Tables
<1>7. Ends(p) \/ Goes(p, "session")
    BY MainJoins, ProcessExits DEF Answered, AfterAnswer
<1>8. Others(p) /\ (procs'[p] = Idle \/ Goes(p, "session"))
    BY <1>7 DEF Ends, Goes
<1>9. ~overlapped' => \A q \in Processes : ~Disturbs(i, q)
    <2> SUFFICES ASSUME ~overlapped', NEW q \in Processes, Disturbs(i, q) PROVE FALSE
        OBVIOUS
    <2>1. q # p
        BY <1>8 DEF Disturbs, Goes, Idle
    <2>2. procs'[q] = procs[q]
        BY <1>8, <2>1 DEF Others
    <2>3. q \in Committed(s)
        BY <1>3, <2>2 DEF Disturbs, Committed
    <2> QED
        BY <1>5, <2>1, <2>3
<1>10. ~overlapped =>
           /\ orders[i].venue = "NONE" /\ sessions[i] \notin {"FAILED", "CLOSED"}
           /\ Filled(s) = {} /\ OpenOrders(s) = {}
    BY <1>1 DEF Stands
<1> HIDE DEF i, s, Disturbs
<1>11. /\ row = "REJECTED" => venue = orders[i].venue
       /\ venue = orders[i].venue \/ orders[i].venue = "NONE"
    BY DEF i
<1>12. ~overlapped' =>
           /\ row = "REJECTED" => venue = "NONE"
           /\ sessions[i] \in {"FAILED", "CLOSED"} => venue \in {"NONE", "ENDED"}
    BY <1>6, <1>10, <1>11
<1>13. ~overlapped' /\ venue \in {"OPEN", "FILLED"} =>
           \/ orders[i].venue \in {"OPEN", "FILLED"}
           \/ Filled(orders[i].symbol) = {} /\ OpenOrders(orders[i].symbol) = {}
    BY <1>3, <1>6, <1>10
<1> QED
    BY <1>2, <1>3, <1>4, <1>5, <1>6, <1>8, <1>9, <1>12, <1>13, OrderChanges

LEMMA SubmitKeeps ==
    ASSUME MakersAreSound, LaunchInv, NEW p \in Processes,
           SubmitAccepted(p) \/ SubmitExpired(p) \/ SubmitRejected(p) \/ SubmitUnknown(p)
    PROVE  LaunchInv'
<1>1. CASE SubmitAccepted(p)
    BY <1>1, AnswerKeeps DEF SubmitAccepted
<1>2. CASE SubmitExpired(p)
    BY <1>2, AnswerKeeps DEF SubmitExpired
<1>3. CASE SubmitRejected(p)
    BY <1>3, AnswerKeeps DEF SubmitRejected
<1>4. CASE SubmitUnknown(p)
    <2>1. PICK venue : /\ Answered(p, "UNKNOWN", venue)
                       /\ \/ venue = orders[procs[p].id].venue
                          \/ orders[procs[p].id].venue = "NONE"
        BY <1>4 DEF SubmitUnknown
    <2> QED
        BY <1>4, <2>1, AnswerKeeps DEF SubmitUnknown
<1> QED
    BY <1>1, <1>2, <1>3, <1>4

LEMMA ExchangeKeeps ==
    ASSUME LaunchInv, Exchange
    PROVE  LaunchInv'
<1>1. PICK i \in PlanIds : MakerFills(i) \/ MakerEnds(i)
    BY DEF Exchange
<1>2. /\ orders[i].venue = "OPEN" /\ UNCHANGED <<planFile, account, sessions, procs>>
      /\ "main" \in Processes /\ Others("main") /\ procs'["main"] = procs["main"]
    BY <1>1, LaunchAssumption DEF MakerFills, MakerEnds, Others
<1>3. /\ orders[i].row # "ABSENT" /\ orders[i].row # "ENDED"
      /\ ~overlapped => orders[i].row # "REJECTED" /\ sessions[i] \notin {"FAILED", "CLOSED"}
    BY <1>2 DEF LaunchInv, Agrees
<1>4. CASE MakerFills(i)
    <2>1. OrderBecomes(i, orders[i].row, "FILLED")
        BY <1>4, RowOnly DEF MakerFills
    <2>2. overlapped' = (overlapped \/ Committed(orders[i].symbol) # {})
        BY <1>4 DEF MakerFills
    <2>3. overlapped' \in BOOLEAN /\ (overlapped => overlapped')
        BY <2>2 DEF LaunchInv, Tables
    <2>4. ~overlapped' => \A q \in Processes : ~Disturbs(i, q)
        BY <1>2, <2>2 DEF Disturbs, Committed
    <2> QED
        BY <1>2, <1>3, <2>1, <2>3, <2>4, OrderChanges
<1>5. CASE MakerEnds(i)
    <2>1. OrderBecomes(i, orders[i].row, "ENDED") /\ overlapped' = overlapped
        BY <1>5, RowOnly DEF MakerEnds
    <2>2. overlapped' \in BOOLEAN
        BY <2>1 DEF LaunchInv, Tables
    <2> QED
        BY <1>2, <1>3, <2>1, <2>2, OrderChanges
<1> QED
    BY <1>1, <1>4, <1>5

-----------------------------------------------------------------------------
(* A session is saved, or closed *)

SessionBecomes(i, status) ==
    /\ sessions' = [j \in PlanIds |-> sessions'[j]]
    /\ sessions'[i] = status
    /\ \A j \in PlanIds \ {i} : sessions'[j] = sessions[j]

LEMMA SessionChanges ==
    ASSUME LaunchInv, UNCHANGED <<planFile, account, orders, overlapped>>,
           "main" \in Processes, NEW i \in PlanIds, i = procs["main"].id,
           procs["main"].pc \in {"session", "running"}, Goes("main", "running"),
           NEW status, SessionBecomes(i, status),
           status = sessions[i] \/ status \in {"ACTIVE", "CLOSED", "FAILED"},
           status \in {"FAILED", "CLOSED"} /\ status # sessions[i] /\ ~overlapped =>
               /\ orders[i].row # "SUBMITTING" \/ orders[i].venue # "NONE"
               /\ orders[i].venue \in {"NONE", "ENDED"}
    PROVE  LaunchInv'
<1>1. Stands(procs["main"]) /\ Knows(procs["main"]) /\ i # 0
    BY LaunchAssumption DEF LaunchInv
<1>2. orders[i].row # "ABSENT" /\ orders[i].symbol = procs["main"].symbol
    BY <1>1 DEF Stands, WithPlan
<1>3. \A j \in PlanIds :
          sessions[j] = "ACTIVE" /\ orders[j].symbol = orders[i].symbol => j = i
    BY <1>1, <1>2 DEF Knows
<1>4. ASSUME NEW q \in Processes PROVE Stands(procs[q])'
    <2>1. /\ Stands(procs[q])
          /\ procs'[q].id = procs[q].id /\ procs'[q].symbol = procs[q].symbol
          /\ \/ procs'[q].pc = procs[q].pc
             \/ procs'[q].pc = "running" /\ procs[q].pc \in {"session", "running"}
        BY DEF LaunchInv, Goes, Others
    <2>2. ~overlapped /\ procs'[q].pc \in {"commit", "send"} =>
              sessions'[procs[q].id] \notin {"FAILED", "CLOSED"}
        <3> SUFFICES ASSUME ~overlapped, procs'[q].pc \in {"commit", "send"}
                     PROVE  sessions'[procs[q].id] \notin {"FAILED", "CLOSED"}
            OBVIOUS
        <3>1. /\ procs[q].id \in PlanIds
              /\ orders[procs[q].id].row \in {"ABSENT", "SUBMITTING"}
              /\ orders[procs[q].id].venue = "NONE"
              /\ sessions[procs[q].id] \notin {"FAILED", "CLOSED"}
            BY <2>1 DEF Stands
        <3> QED
            BY <1>2, <3>1 DEF SessionBecomes
    <2> QED
        BY <2>1, <2>2 DEF Stands, Filled, OpenOrders, Untouched, SeenFlat, WithPlan
<1>5. Knows(procs["main"])'
    BY <1>1, <1>3 DEF Knows, Goes, SessionBecomes
<1>6. ASSUME NEW j \in PlanIds PROVE Agrees(j)'
    <2>1. Agrees(j)
        BY DEF LaunchInv
    <2>2. CASE j = i
        BY <1>2, <2>1, <2>2 DEF Agrees, Untouched, SessionBecomes
    <2>3. CASE j # i
        BY <2>1, <2>3 DEF Agrees, Untouched, SessionBecomes
    <2> QED
        BY <2>2, <2>3
<1>7. OneActive'
    BY <1>3 DEF LaunchInv, OneActive, SessionBecomes
<1>8. Tables' /\ PreflightIsPassed' /\ PlansAreTold' /\ OneEntered'
    BY DEF LaunchInv, Tables, PreflightIsPassed, PlansAreTold, OneEntered, SessionBecomes,
           Goes, Others
<1> QED
    BY <1>4, <1>5, <1>6, <1>7, <1>8 DEF LaunchInv

LEMMA SaveKeeps ==
    ASSUME MakersAreSound, LaunchInv, SavesSession
    PROVE  LaunchInv'
<1> DEFINE i == procs["main"].id
           status == IF sessions[i] = "NONE" THEN InitialStatus(orders[i]) ELSE sessions[i]
<1>0. /\ "main" \in Processes /\ procs["main"].pc = "session"
      /\ UNCHANGED <<planFile, account, orders, overlapped>>
    BY LaunchAssumption DEF SavesSession
<1>1. i \in PlanIds
    BY <1>0 DEF LaunchInv, Stands
<1>2. CASE Exit("main") /\ UNCHANGED sessions
    BY <1>0, <1>2, EndsKeep DEF Alone
<1>3. ASSUME sessions' = [sessions EXCEPT ![i] = IF @ = "NONE" THEN InitialStatus(orders[i]) ELSE @],
             Joins("running")
      PROVE  LaunchInv'
    <2>1. Goes("main", "running")
        BY <1>3, MainJoins
    <2>2. sessions' = [sessions EXCEPT ![i] = status] /\ sessions = [j \in PlanIds |-> sessions[j]]
        BY <1>3 DEF LaunchInv, Tables
    <2>3. status = sessions[i] \/ status = InitialStatus(orders[i])
        OBVIOUS
    <2>4. InitialStatus(orders[i]) \in {"ACTIVE", "CLOSED", "FAILED"}
        BY DEF InitialStatus
    <2>5. InitialStatus(orders[i]) \in {"FAILED", "CLOSED"} /\ ~overlapped =>
              /\ orders[i].row # "SUBMITTING" \/ orders[i].venue # "NONE"
              /\ orders[i].venue \in {"NONE", "ENDED"}
        BY <1>1 DEF InitialStatus, LaunchInv, Agrees
    <2> HIDE DEF status
    <2>6. SessionBecomes(i, status)
        BY <1>1, <2>2 DEF SessionBecomes
    <2> QED
        BY <1>0, <1>1, <2>1, <2>3, <2>4, <2>5, <2>6, SessionChanges
<1> QED
    BY <1>2, <1>3 DEF SavesSession

LEMMA CloseKeeps ==
    ASSUME LaunchInv, WorkerCloses
    PROVE  LaunchInv'
<1> DEFINE i == procs["main"].id
<1>0. /\ "main" \in Processes /\ procs["main"].pc = "running"
      /\ UNCHANGED <<planFile, account, orders, overlapped, procs>>
      /\ orders[i].venue = "ENDED" /\ sessions' = [sessions EXCEPT ![i] = "CLOSED"]
    BY LaunchAssumption DEF WorkerCloses
<1>1. i \in PlanIds
    BY <1>0 DEF LaunchInv, Stands
<1>2. Goes("main", "running")
    BY <1>0 DEF Goes, Others
<1>3. SessionBecomes(i, "CLOSED")
    BY <1>0, <1>1 DEF SessionBecomes, LaunchInv, Tables
<1> QED
    BY <1>0, <1>1, <1>2, <1>3, SessionChanges

-----------------------------------------------------------------------------
LEMMA LaunchInit == Init => LaunchInv
<1> SUFFICES ASSUME Init PROVE LaunchInv
    OBVIOUS
<1>1. \A p \in Processes : procs[p].pc = "off" /\ procs[p].id = 0
    BY DEF Init, Idle
<1>2. \A i \in PlanIds :
          /\ orders[i].symbol = None /\ orders[i].row = "ABSENT" /\ orders[i].venue = "NONE"
          /\ orders[i] = [f \in OrderFields |-> orders[i][f]] /\ sessions[i] = "NONE"
    BY DEF Init, NoOrder, OrderFields
<1>3. Tables
    BY DEF Init, MonitorInit, NoFile, Tables
<1>4. \A p \in Processes : Stands(procs[p]) /\ Knows(procs[p])
    BY <1>1 DEF Stands, Knows
<1>5. \A i \in PlanIds : Agrees(i)
    BY <1>2 DEF Agrees
<1>6. PreflightIsPassed /\ PlansAreTold /\ OneActive /\ OneEntered
    BY <1>1, <1>2 DEF PreflightIsPassed, PlansAreTold, OneActive, OneEntered
<1> QED
    BY <1>3, <1>4, <1>5, <1>6, LaunchAssumption DEF LaunchInv

LEMMA LaunchStep ==
    ASSUME MakersAreSound, LaunchInv, [Next]_vars
    PROVE  LaunchInv'
<1>1. CASE UNCHANGED vars
    BY <1>1, FileKeeps DEF vars
<1>2. CASE Monitor
    BY <1>2, MonitorKeeps
<1>3. CASE Exchange
    BY <1>3, ExchangeKeeps
<1>4. CASE Starts
    BY <1>4, ResumeKeeps, StartKeeps DEF Starts
<1>5. CASE MainSteps
    BY <1>5, ScanKeeps, AdoptKeeps, SynchronizeKeeps, SaveKeeps, CloseKeeps DEF MainSteps
<1>6. CASE OperatorStops
    BY <1>6, LaunchAssumption, EndsKeep DEF OperatorStops, Alone
<1>7. ASSUME NEW p \in Processes, Steps(p) \/ SubmitUnknown(p) \/ ProcessEnds(p)
      PROVE  LaunchInv'
    <2>1. CASE LoadsPlan(p)
        BY <2>1, LoadKeeps
    <2>2. CASE RefusesPlan(p) \/ ProcessEnds(p)
        BY <2>2, EndsKeep DEF RefusesPlan, ProcessEnds, Alone
    <2>3. CASE PreparesMaker(p)
        BY <2>3, PrepareKeeps
    <2>4. CASE RechecksPosition(p) \/ RechecksOpenOrders(p) \/ ConfirmsLeverage(p)
        BY <2>4, RecheckKeeps
    <2>5. CASE FindsRow(p)
        BY <2>5, LookupKeeps
    <2>6. CASE CommitsRow(p)
        BY <2>6, RowKeeps
    <2>7. CASE SubmitAccepted(p) \/ SubmitExpired(p) \/ SubmitRejected(p) \/ SubmitUnknown(p)
        BY <2>7, SubmitKeeps
    <2> QED
        BY <1>7, <2>1, <2>2, <2>3, <2>4, <2>5, <2>6, <2>7 DEF Steps
<1> QED
    BY <1>1, <1>2, <1>3, <1>4, <1>5, <1>6, <1>7 DEF Next

LEMMA LaunchInvariance == Spec => []LaunchInv
<1>1. MakersAreSound /\ LaunchInv /\ [Next]_vars => LaunchInv'
    BY LaunchStep
<1> QED
    BY <1>1, LaunchInit, InvariantHolds, PTL DEF Spec

LEMMA AtMostOne ==
    ASSUME NEW S, \A x, y \in S : x = y
    PROVE  Cardinality(S) <= 1
<1>1. CASE S = {}
    BY <1>1, FS_EmptySet
<1>2. CASE S # {}
    <2>1. PICK x \in S : TRUE
        BY <1>2
    <2>2. S = {x}
        BY <2>1
    <2> QED
        BY <2>2, FS_Singleton
<1> QED
    BY <1>1, <1>2

(* However many plans, processes, restarts and lost answers there are: no  *)
(* symbol gets a second maker, unless one is placed or filled between the  *)
(* last check of another process and its submission                        *)
(* (FundingOrderExecutor.submit_perpetual_maker).                          *)
THEOREM OneEntryPerSymbolTheorem == Spec => []OneEntryPerSymbol
<1>1. LaunchInv => OneEntryPerSymbol
    BY AtMostOne DEF LaunchInv, OneEntered, OneEntryPerSymbol, Entered
<1> QED
    BY <1>1, LaunchInvariance, PTL

(* A maker is only requested for a symbol in which the account held        *)
(* nothing: the two reads of the position see it, and the preflight keeps  *)
(* the accounts out in which they would not (prepare_perpetual_maker,      *)
(* submit_perpetual_maker).                                                *)
THEOREM EntryStartsFlatTheorem == Spec => []EntryStartsFlat
<1>1. LaunchInv => EntryStartsFlat
    <2> SUFFICES ASSUME LaunchInv, NEW i \in PlanIds, NEW row \in account.positions,
                        row.symbol = orders[i].symbol
                 PROVE  row.quantity = 0
        BY DEF EntryStartsFlat
    <2>1. row.symbol # None
        BY AccountAssumption DEF LaunchInv, Tables
    <2> QED
        BY <2>1 DEF LaunchInv, Agrees, Untouched
<1> QED
    BY <1>1, LaunchInvariance, PTL

(* main() resumes the one session of its symbol or starts a plan while     *)
(* there is none, and is the only one to save sessions: it never finds two *)
(* (_select_active_session, _create_or_load_session).                      *)
THEOREM OneSessionPerSymbolTheorem == Spec => []OneSessionPerSymbol
<1>1. LaunchInv => OneSessionPerSymbol
    BY AtMostOne DEF LaunchInv, OneActive, OneSessionPerSymbol, Active
<1> QED
    BY <1>1, LaunchInvariance, PTL

(* A session that is over from its start, because its maker's row was      *)
(* rejected or ended, has no maker at the exchange, and neither has one    *)
(* that was closed (_initial_session_status).                              *)
THEOREM EndedSessionHasNoMakerTheorem == Spec => []EndedSessionHasNoMaker
<1>1. LaunchInv => EndedSessionHasNoMaker
    BY DEF LaunchInv, Agrees, EndedSessionHasNoMaker
<1> QED
    BY <1>1, LaunchInvariance, PTL
=============================================================================

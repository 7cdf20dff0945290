------------------------- MODULE FundingEntryProofs -------------------------
(***************************************************************************)
(* What holds of the funding entry for every target, commission, market    *)
(* and number of faults: no fill is hedged twice, one hedge at a time is   *)
(* on its way, a failed hedge stops the session, and an action is not      *)
(* dispatched again while the outcome of its order is unknown.             *)
(***************************************************************************)
EXTENDS FundingEntry, FundingPolicyProofs, WellFoundedInduction, FiniteSetTheorems

-----------------------------------------------------------------------------
(* Induction, by way of the least counterexample.                          *)

LEMMA LeastNumber ==
    ASSUME NEW numbers \in SUBSET Nat, numbers # {}
    PROVE  \E least \in numbers : \A n \in numbers : least <= n
<1> DEFINE less == {pair \in Nat \X Nat : pair[1] < pair[2]}
<1>1. IsWellFoundedOn(less, Nat)
  BY NatLessThanWellFounded DEF OpToRel
<1>2. PICK least \in numbers : \A n \in numbers : ~(<<n, least>> \in less)
  <2> HIDE DEF less
  <2> QED  BY <1>1, WFMin
<1>3. \A n \in numbers : least <= n
  <2> TAKE n \in numbers
  <2>1. least \in Nat /\ n \in Nat /\ ~(n < least)
    BY <1>2
  <2> QED  BY <2>1
<1> QED  BY <1>3

-----------------------------------------------------------------------------
(* Sums over the outbox.                                                   *)

At(f, n) == IF n \in DOMAIN f THEN f[n] ELSE 0

(* g has the sums of f up to each index.                                   *)
Sums(f, m, g) ==
    /\ g \in [0 .. m -> Int]
    /\ \A n \in 0 .. m : g[n] = IF n = 0 THEN 0 ELSE g[n - 1] + At(f, n)

LEMMA SumsExist ==
    ASSUME NEW f, \A n \in DOMAIN f : f[n] \in Int
    PROVE  \A m \in Nat : \E g : Sums(f, m, g)
<1> DEFINE bad == {m \in Nat : ~ \E g : Sums(f, m, g)}
<1> SUFFICES ASSUME bad # {} PROVE FALSE
  OBVIOUS
<1>1. PICK m \in bad : \A k \in bad : m <= k
  <2>1. bad \in SUBSET Nat
    OBVIOUS
  <2> HIDE DEF bad
  <2> QED  BY <2>1, LeastNumber
<1>2. m # 0
  <2>1. Sums(f, 0, [n \in 0 .. 0 |-> 0])
    BY DEF Sums
  <2> QED  BY <2>1
<1>3. m - 1 \in Nat /\ m - 1 \notin bad
  BY <1>1, <1>2
<1>4. PICK g : Sums(f, m - 1, g)
  BY <1>3
<1>5. Sums(f, m, [n \in 0 .. m |-> IF n < m THEN g[n] ELSE g[m - 1] + At(f, m)])
  BY <1>4, <1>2 DEF Sums, At
<1> QED  BY <1>5

LEMMA TotalIsASum ==
    ASSUME NEW f, \A n \in DOMAIN f : f[n] \in Int
    PROVE  \E g : Sums(f, MaxActions, g) /\ Total(f) = g[MaxActions]
<1> DEFINE Recurs(g) == g = [n \in 0 .. MaxActions |->
                                IF n = 0 THEN 0
                                ELSE g[n - 1] + (IF n \in DOMAIN f THEN f[n] ELSE 0)]
           sum == CHOOSE g : Recurs(g)
<1>1. PICK g : Sums(f, MaxActions, g)
  BY SumsExist, EntryBoundsAssumption
<1>2. Recurs(g)
  BY <1>1, EntryBoundsAssumption DEF Sums, At
<1>3. Recurs(sum)
  <2> HIDE DEF Recurs
  <2> QED  BY <1>2
<1>4. Total(f) = sum[MaxActions]
  BY DEF Total
<1>5. \A n \in 0 .. MaxActions : sum[n] = g[n]
  <2> DEFINE bad == {n \in 0 .. MaxActions : sum[n] # g[n]}
  <2> SUFFICES ASSUME bad # {} PROVE FALSE
    OBVIOUS
  <2>1. PICK n \in bad : \A k \in bad : n <= k
    <3>1. bad \in SUBSET Nat
      OBVIOUS
    <3> HIDE DEF bad
    <3> QED  BY <3>1, LeastNumber
  <2>2. sum[n] = IF n = 0 THEN 0
                 ELSE sum[n - 1] + (IF n \in DOMAIN f THEN f[n] ELSE 0)
    <3> HIDE DEF sum
    <3> QED  BY <1>3
  <2>3. g[n] = IF n = 0 THEN 0
               ELSE g[n - 1] + (IF n \in DOMAIN f THEN f[n] ELSE 0)
    BY <1>2
  <2>4. n # 0 => n - 1 \in 0 .. MaxActions /\ n - 1 \notin bad
    BY <2>1, EntryBoundsAssumption
  <2> HIDE DEF sum, Recurs
  <2> QED  BY <2>1, <2>2, <2>3, <2>4
<1> QED  BY <1>1, <1>4, <1>5, EntryBoundsAssumption

(* A sum grows by no more than its terms do.                               *)
LEMMA TotalShifts ==
    ASSUME NEW f, NEW g, NEW k \in Int, NEW d \in Nat,
           \A n \in DOMAIN f : f[n] \in Int,
           \A n \in DOMAIN g : g[n] \in Int,
           \A n \in 1 .. MaxActions :
               At(f, n) <= At(g, n) + (IF n = k THEN d ELSE 0)
    PROVE  Total(f) <= Total(g) + d
<1>1. PICK F : Sums(f, MaxActions, F) /\ Total(f) = F[MaxActions]
  BY TotalIsASum
<1>2. PICK G : Sums(g, MaxActions, G) /\ Total(g) = G[MaxActions]
  BY TotalIsASum
<1> DEFINE bound(n) == G[n] + (IF n >= k THEN d ELSE 0)
           bad == {n \in 0 .. MaxActions : ~(F[n] <= bound(n))}
<1>3. bad = {}
  <2> SUFFICES ASSUME bad # {} PROVE FALSE
    OBVIOUS
  <2>1. PICK n \in bad : \A m \in bad : n <= m
    <3>1. bad \in SUBSET Nat
      OBVIOUS
    <3> HIDE DEF bad
    <3> QED  BY <3>1, LeastNumber
  <2>2. n \in 0 .. MaxActions /\ n - 1 \notin bad
    BY <2>1
  <2>3. n # 0
    BY <2>1, <1>1, <1>2 DEF Sums
  <2>4. n \in 1 .. MaxActions /\ F[n - 1] <= bound(n - 1)
    BY <2>2, <2>3, EntryBoundsAssumption
  <2>5. /\ F[n] = F[n - 1] + At(f, n) /\ G[n] = G[n - 1] + At(g, n)
        /\ F[n - 1] \in Int /\ G[n - 1] \in Int
    <3>1. n \in 0 .. MaxActions /\ n - 1 \in 0 .. MaxActions /\ n # 0
      BY <2>4, EntryBoundsAssumption
    <3> HIDE DEF bad
    <3> QED  BY <3>1, <1>1, <1>2 DEF Sums
  <2>6. At(f, n) \in Int /\ At(g, n) \in Int
    BY DEF At
  <2>7. At(f, n) <= At(g, n) + (IF n = k THEN d ELSE 0)
    BY <2>4
  <2>8. F[n] <= bound(n)
    <3> HIDE DEF At
    <3> QED  BY <2>4, <2>5, <2>6, <2>7, EntryBoundsAssumption
  <2> QED  BY <2>1, <2>8
<1>4. F[MaxActions] \in Int /\ G[MaxActions] \in Int /\ MaxActions \in 0 .. MaxActions
  BY <1>1, <1>2, EntryBoundsAssumption DEF Sums
<1> QED  BY <1>1, <1>2, <1>3, <1>4

(* Sums are subtracted term by term.                                       *)
LEMMA TotalSubtracts ==
    ASSUME NEW f, NEW g, NEW h,
           \A n \in DOMAIN f : f[n] \in Int,
           \A n \in DOMAIN g : g[n] \in Int,
           \A n \in DOMAIN h : h[n] \in Int,
           \A n \in 1 .. MaxActions : At(h, n) = At(f, n) - At(g, n)
    PROVE  Total(h) = Total(f) - Total(g) /\ Total(f) \in Int /\ Total(g) \in Int
<1>1. PICK F : Sums(f, MaxActions, F) /\ Total(f) = F[MaxActions]
  BY TotalIsASum
<1>2. PICK G : Sums(g, MaxActions, G) /\ Total(g) = G[MaxActions]
  BY TotalIsASum
<1>3. PICK H : Sums(h, MaxActions, H) /\ Total(h) = H[MaxActions]
  BY TotalIsASum
<1> DEFINE bad == {n \in 0 .. MaxActions : H[n] # F[n] - G[n]}
<1>4. bad = {}
  <2> SUFFICES ASSUME bad # {} PROVE FALSE
    OBVIOUS
  <2>1. PICK n \in bad : \A m \in bad : n <= m
    <3>1. bad \in SUBSET Nat
      OBVIOUS
    <3> HIDE DEF bad
    <3> QED  BY <3>1, LeastNumber
  <2>2. n \in 0 .. MaxActions /\ n - 1 \notin bad
    BY <2>1
  <2>3. n # 0
    BY <2>1, <1>1, <1>2, <1>3 DEF Sums
  <2>4. n \in 1 .. MaxActions /\ H[n - 1] = F[n - 1] - G[n - 1]
    BY <2>2, <2>3, EntryBoundsAssumption
  <2>5. /\ F[n] = F[n - 1] + At(f, n) /\ G[n] = G[n - 1] + At(g, n)
        /\ H[n] = H[n - 1] + At(h, n)
        /\ F[n - 1] \in Int /\ G[n - 1] \in Int
    BY <2>4, <1>1, <1>2, <1>3, EntryBoundsAssumption DEF Sums
  <2>6. At(f, n) \in Int /\ At(g, n) \in Int /\ At(h, n) = At(f, n) - At(g, n)
    <3>1. At(f, n) \in Int /\ At(g, n) \in Int
      BY DEF At
    <3> QED  BY <3>1, <2>4
  <2>7. H[n] = F[n] - G[n]
    <3> HIDE DEF At
    <3> QED  BY <2>4, <2>5, <2>6
  <2> QED  BY <2>1, <2>7
<1>5. /\ F[MaxActions] \in Int /\ G[MaxActions] \in Int
      /\ MaxActions \in 0 .. MaxActions
  BY <1>1, <1>2, EntryBoundsAssumption DEF Sums
<1> QED  BY <1>1, <1>2, <1>3, <1>4, <1>5

-----------------------------------------------------------------------------
(* Members in order.                                                       *)

(* list has exactly the members that are below n, the smaller ones first.  *)
ListsBelow(slots, n, list) ==
    /\ list \in Seq(Nat)
    /\ \A i \in DOMAIN list : list[i] \in slots /\ list[i] < n
    /\ \A k \in slots : k < n => \E i \in DOMAIN list : list[i] = k
    /\ \A i, j \in DOMAIN list : i < j => list[i] < list[j]

LEMMA NextMember ==
    ASSUME NEW slots \in SUBSET Nat, NEW n \in Nat, NEW list,
           ListsBelow(slots, n, list)
    PROVE  ListsBelow(slots, n + 1, IF n \in slots THEN Append(list, n) ELSE list)
<1>1. list \in Seq(Nat) /\ Len(list) \in Nat /\ DOMAIN list = 1 .. Len(list)
  BY DEF ListsBelow
<1>2. CASE n \notin slots
  BY <1>2 DEF ListsBelow
<1>3. CASE n \in slots
  <2> DEFINE longer == Append(list, n)
  <2>1. /\ longer \in Seq(Nat) /\ DOMAIN longer = 1 .. Len(list) + 1
        /\ \A i \in 1 .. Len(list) : longer[i] = list[i]
        /\ longer[Len(list) + 1] = n
    BY <1>1
  <2> HIDE DEF longer
  <2>2. \A i \in DOMAIN longer : longer[i] \in slots /\ longer[i] < n + 1
    BY <1>1, <1>3, <2>1 DEF ListsBelow
  <2>3. \A k \in slots : k < n + 1 => \E i \in DOMAIN longer : longer[i] = k
    <3> SUFFICES ASSUME NEW k \in slots, k < n + 1
                 PROVE  \E i \in DOMAIN longer : longer[i] = k
      OBVIOUS
    <3>1. CASE k = n
      BY <3>1, <2>1, <1>1
    <3>2. CASE k < n
      BY <3>2, <2>1, <1>1 DEF ListsBelow
    <3> QED  BY <3>1, <3>2
  <2>4. \A i, j \in DOMAIN longer : i < j => longer[i] < longer[j]
    <3> SUFFICES ASSUME NEW i \in DOMAIN longer, NEW j \in DOMAIN longer, i < j
                 PROVE  longer[i] < longer[j]
      OBVIOUS
    <3>1. i \in 1 .. Len(list) /\ (j \in 1 .. Len(list) \/ j = Len(list) + 1)
      BY <2>1, <1>1
    <3> QED  BY <3>1, <2>1, <1>1 DEF ListsBelow
  <2> QED  BY <1>3, <2>1, <2>2, <2>3, <2>4 DEF ListsBelow, longer
<1> QED  BY <1>2, <1>3

(* g has the members below each index.                                     *)
Lists(slots, m, g) ==
    /\ g \in [0 .. m -> Seq(Nat)]
    /\ \A n \in 0 .. m : /\ ListsBelow(slots, n, g[n])
                         /\ g[n] = IF n = 0 THEN <<>>
                                   ELSE IF n - 1 \in slots
                                   THEN Append(g[n - 1], n - 1) ELSE g[n - 1]

LEMMA ListsExist ==
    ASSUME NEW slots \in SUBSET Nat
    PROVE  \A m \in Nat : \E g : Lists(slots, m, g)
<1> DEFINE bad == {m \in Nat : ~ \E g : Lists(slots, m, g)}
<1> SUFFICES ASSUME bad # {} PROVE FALSE
  OBVIOUS
<1>1. PICK m \in bad : \A k \in bad : m <= k
  <2>1. bad \in SUBSET Nat
    OBVIOUS
  <2> HIDE DEF bad
  <2> QED  BY <2>1, LeastNumber
<1>2. m # 0
  <2>1. ListsBelow(slots, 0, <<>>)
    BY DEF ListsBelow
  <2>2. Lists(slots, 0, [n \in 0 .. 0 |-> <<>>])
    BY <2>1 DEF Lists
  <2> QED  BY <2>2
<1>3. m - 1 \in Nat /\ m - 1 \notin bad
  BY <1>1, <1>2
<1>4. PICK g : Lists(slots, m - 1, g)
  BY <1>3
<1> DEFINE last == IF m - 1 \in slots THEN Append(g[m - 1], m - 1) ELSE g[m - 1]
           h == [n \in 0 .. m |-> IF n < m THEN g[n] ELSE last]
<1>5. ListsBelow(slots, m, last)
  <2>1. ListsBelow(slots, m - 1, g[m - 1])
    BY <1>3, <1>4 DEF Lists
  <2> QED  BY <2>1, <1>3, NextMember
<1>6. Lists(slots, m, h)
  <2> HIDE DEF last
  <2>1. \A n \in 0 .. m : n = m \/ n \in 0 .. m - 1
    BY <1>3
  <2>2. \A n \in 0 .. m - 1 : h[n] = g[n] /\ ListsBelow(slots, n, h[n])
    BY <1>3, <1>4 DEF Lists
  <2>3. h[m] = last /\ ListsBelow(slots, m, h[m])
    BY <1>3, <1>5
  <2>4. h[m] = IF m - 1 \in slots THEN Append(h[m - 1], m - 1) ELSE h[m - 1]
    BY <2>2, <2>3, <1>3 DEF last
  <2>5. \A n \in 0 .. m - 1 : n # 0 =>
            h[n] = IF n - 1 \in slots THEN Append(h[n - 1], n - 1) ELSE h[n - 1]
    <3> SUFFICES ASSUME NEW n \in 0 .. m - 1, n # 0
                 PROVE  h[n] = IF n - 1 \in slots THEN Append(h[n - 1], n - 1)
                               ELSE h[n - 1]
      OBVIOUS
    <3>1. n - 1 \in 0 .. m - 1
      BY <1>3
    <3>2. h[n] = g[n] /\ h[n - 1] = g[n - 1]
      BY <2>2, <3>1
    <3>3. g[n] = IF n - 1 \in slots THEN Append(g[n - 1], n - 1) ELSE g[n - 1]
      BY <1>4 DEF Lists
    <3> HIDE DEF h
    <3> QED  BY <3>2, <3>3
  <2>6. h[0] = <<>>
    <3>1. 0 \in 0 .. m - 1 /\ g[0] = <<>>
      BY <1>3, <1>4 DEF Lists
    <3> QED  BY <2>2, <3>1
  <2>7. h \in [0 .. m -> Seq(Nat)]
    BY <2>1, <2>2, <2>3 DEF ListsBelow
  <2> HIDE DEF h
  <2> QED  BY <2>1, <2>2, <2>3, <2>4, <2>5, <2>6, <2>7, <1>2 DEF Lists
<1> QED  BY <1>6

LEMMA InOrderLists ==
    ASSUME NEW slots \in SUBSET Slots
    PROVE  ListsBelow(slots, MaxActions + 1, InOrder(slots))
<1> DEFINE Recurs(g) == g = [n \in 0 .. MaxActions + 1 |->
                                IF n = 0 THEN <<>>
                                ELSE IF n - 1 \in slots THEN Append(g[n - 1], n - 1)
                                ELSE g[n - 1]]
           upTo == CHOOSE g : Recurs(g)
<1>1. PICK g : Lists(slots, MaxActions + 1, g)
  BY ListsExist, EntryBoundsAssumption DEF Slots
<1>2. Recurs(g)
  BY <1>1 DEF Lists
<1>3. Recurs(upTo)
  <2> HIDE DEF Recurs
  <2> QED  BY <1>2
<1>4. InOrder(slots) = upTo[MaxActions + 1]
  BY DEF InOrder
<1>5. \A n \in 0 .. MaxActions + 1 : upTo[n] = g[n]
  <2> DEFINE bad == {n \in 0 .. MaxActions + 1 : upTo[n] # g[n]}
  <2> SUFFICES ASSUME bad # {} PROVE FALSE
    OBVIOUS
  <2>1. PICK n \in bad : \A k \in bad : n <= k
    <3>1. bad \in SUBSET Nat
      OBVIOUS
    <3> HIDE DEF bad
    <3> QED  BY <3>1, LeastNumber
  <2>2. upTo[n] = IF n = 0 THEN <<>>
                  ELSE IF n - 1 \in slots THEN Append(upTo[n - 1], n - 1)
                  ELSE upTo[n - 1]
    <3> HIDE DEF upTo
    <3> QED  BY <1>3
  <2>3. g[n] = IF n = 0 THEN <<>>
               ELSE IF n - 1 \in slots THEN Append(g[n - 1], n - 1)
               ELSE g[n - 1]
    BY <1>2
  <2> HIDE DEF upTo, Recurs
  <2>4. n \in 0 .. MaxActions + 1 /\ upTo[n] # g[n]
    BY <2>1
  <2>5. n # 0 => upTo[n - 1] = g[n - 1]
    <3>1. n # 0 => n - 1 \in 0 .. MaxActions + 1 /\ ~(n <= n - 1)
      BY <2>4, EntryBoundsAssumption
    <3>2. n # 0 => n - 1 \notin bad
      <4> HIDE DEF bad
      <4> QED  BY <2>1, <3>1
    <3> QED  BY <3>1, <3>2
  <2> HIDE DEF bad
  <2>6. CASE n = 0
    BY <2>2, <2>3, <2>4, <2>6
  <2>7. CASE n # 0
    BY <2>2, <2>3, <2>4, <2>5, <2>7
  <2> QED  BY <2>6, <2>7
<1>6. ListsBelow(slots, MaxActions + 1, g[MaxActions + 1])
  BY <1>1, EntryBoundsAssumption DEF Lists
<1> HIDE DEF upTo
<1> QED  BY <1>4, <1>5, <1>6, EntryBoundsAssumption

-----------------------------------------------------------------------------
(* The shape of the whole state.                                           *)

Snapshot == Order(Target) \cup {Absent}

EventSource ==
    [from : {"NONE", "dispatch", "stream", "sweep", "startup", "retry", "failure"},
     ref : Nat \cup (Nat \X Slots), state : OrderState \cup {"ABSENT"},
     cum : 0 .. Target, failed : BOOLEAN]

EngineEvent ==
    [kind : OrderEventKind \cup {"NONE"}, order : Slots, source : EventSource]

PolicyCommand == [kind : CommandKind, quantity : 0 .. Target]

OutboxAction ==
    [kind : CommandKind, quantity : 0 .. Target, source : EventSource,
     status : ActionStatus]

Result == [order : Slots, row : Snapshot]

Place ==
    {"down", "sync", "submit", "await", "save", "resume", "startup", "idle",
     "plan", "decide", "persist", "activate", "halt", "dispatch", "execute",
     "finish", "continue", "recover"}

Mode == {"recovery", "events", "stop"}

Actions == Seq(1 .. MaxActions)

Results == Seq(Result)

Commands == Seq(PolicyCommand)

Process ==
    [at : Place, mode : Mode, todo : Actions, results : Results,
     event : EngineEvent, maker : Snapshot, commands : Commands, planned : Actions,
     action : Slots, resumed : BOOLEAN, connection : Nat]

Typed ==
    /\ session \in SessionStatus
    /\ outbox \in Seq(OutboxAction) /\ Len(outbox) <= MaxActions
    /\ rows \in [Slots -> Snapshot]
    /\ real \in [Slots -> Snapshot]
    /\ charged \in [Slots -> 0 .. Target]
    /\ queue \in Seq(EngineEvent)
    /\ worker \in Process
    /\ faults \in 0 .. MaxFaults

-----------------------------------------------------------------------------
(* The orders: what the engine has recorded, and what the exchange has.    *)

Native(i, order) ==
    /\ order.state \in {"NEW", "PARTIALLY_FILLED", "FILLED", "CANCELED", "EXPIRED"}
    /\ order.cum <= Requested(i)
    /\ i # Maker /\ ~IsTerminal(order) => order.cum = 0

Rejected == [state |-> "REJECTED", cum |-> 0]

Acknowledged == {"NEW", "PARTIALLY_FILLED", "PENDING_CANCEL"}

OrderIsRecorded(i) ==
    /\ real[i] = Absent \/ Native(i, real[i])
    /\ rows[i] = Absent => real[i] = Absent
    /\ IsTerminal(rows[i]) => \/ rows[i] = real[i]
                              \/ rows[i] = Rejected /\ real[i] = Absent
    /\ rows[i].state \in Acknowledged => real[i] # Absent
    /\ IsOpen(i) /\ i # Maker => rows[i].cum = 0
    /\ rows[i].cum <= real[i].cum
    /\ charged[i] <= real[i].cum
    /\ rows[i] # Absent => i \in Hedges \cup {Maker}

OrdersAreRecorded == \A i \in Slots : OrderIsRecorded(i)

HedgesBuy == \A i \in Hedges : outbox[i].quantity > 0

-----------------------------------------------------------------------------
(* Where the worker is.                                                    *)

Submission == worker.at = "await" /\ worker.action = 0

Early == worker.at \in {"down", "sync", "submit", "save", "resume"} \/ Submission

EarlyIsClean ==
    Early => /\ worker.todo = <<>> /\ worker.planned = <<>> /\ worker.results = <<>>
             /\ worker.mode = "recovery" /\ worker.action = 0

SessionIsNew ==
    /\ session = "NONE" => Early /\ worker.at # "resume" /\ outbox = <<>>
    /\ worker.at \in {"submit", "save"} \/ Submission => session = "NONE"
    /\ Submission => rows[Maker].state = "SUBMITTING"

Working(i) == worker.action = i /\ worker.at \in {"execute", "await", "finish"}

ActionIsUnderWay ==
    /\ worker.at \in {"execute", "finish"} \/ (worker.at = "await" /\ ~Submission) =>
           /\ worker.action \in DOMAIN outbox
           /\ Current.status = "IN_PROGRESS"
    /\ worker.at = "await" /\ ~Submission =>
           \/ worker.action \in Hedges /\ rows[worker.action].state = "SUBMITTING"
           \/ Current.kind = "CANCEL_MAKER" /\ rows[Maker].state = "PENDING_CANCEL"
    /\ worker.at = "finish" /\ Current.kind \in DOMAIN StatusAfter => worker.results = <<>>

PlansAreSeparate ==
    /\ worker.at = "dispatch" => worker.todo # <<>>
    /\ worker.at \in {"startup", "idle"} => worker.todo = <<>>
    /\ worker.at \notin {"persist", "activate", "halt"} => worker.planned = <<>>
    /\ worker.mode = "recovery" =>
           worker.at \notin {"idle", "plan", "decide", "persist", "activate", "halt"}
    /\ worker.at = "startup" => worker.mode = "recovery"
    /\ worker.mode # "events" /\ worker.at \notin {"finish", "continue"} =>
           worker.results = <<>>
    /\ worker.at \in {"startup", "idle"} => worker.results = <<>>
    /\ worker.at \in {"plan", "decide"} /\ worker.event.source.from # "dispatch" =>
           worker.results = <<>>
    /\ worker.at = "activate" => session = "ENTERING"
    /\ worker.at = "persist" => worker.commands # <<>>

Ahead == worker.todo \o worker.planned

AheadIsSaved == \A n \in DOMAIN Ahead : Ahead[n] \in DOMAIN outbox

-----------------------------------------------------------------------------
(* The one hedge that is not over.                                         *)

Unfinished(i) == outbox[i].status \in {"PENDING", "IN_PROGRESS"}

Live(i) == i \in Hedges /\ (Unfinished(i) \/ IsOpen(i))

OneIsLive == \A i, j \in Hedges : Live(i) /\ Live(j) => i = j

(* What a hedge has bought, or may still buy.                              *)
Claim(i) == IF Live(i) THEN Requested(i) ELSE real[i].cum - Commission(real[i].cum)

Claimed == Total([i \in Hedges |-> Claim(i)])

ClaimsAreCovered == Claimed <= real[Maker].cum

MakerIsRead == worker.at = "decide" => worker.maker.cum <= real[Maker].cum

(* A command for a hedge, or to open, is the last of its plan, and was     *)
(* planned while no hedge was live.                                        *)
CommandsAreCovered ==
    worker.at = "persist" =>
        \A n \in DOMAIN worker.commands :
            worker.commands[n].kind \in {"SUBMIT_HEDGE", "MARK_OPEN"} =>
                /\ n = Len(worker.commands)
                /\ session \in ActiveStatus
                /\ \A i \in Hedges : ~Live(i)
                /\ worker.commands[n].kind = "SUBMIT_HEDGE" =>
                       /\ worker.commands[n].quantity > 0
                       /\ Claimed + worker.commands[n].quantity <= real[Maker].cum

(* A hedge that was sent is finished before an active session plans again. *)
SentIsFinished ==
    session \in ActiveStatus =>
        \A i \in Hedges : Unfinished(i) /\ rows[i] # Absent =>
            \/ Early
            \/ worker.mode = "recovery" /\ \E n \in DOMAIN worker.todo : worker.todo[n] = i
            \/ Working(i)

-----------------------------------------------------------------------------
(* The order in which the outbox is dispatched.                            *)

Opening(i) == outbox[i].kind = "MARK_OPEN" /\ Unfinished(i)

(* A hedge is dispatched once, and after it the session is not opened.     *)
HedgesAreLast ==
    /\ \A m, n \in DOMAIN Ahead : \A i \in Hedges :
           m < n /\ Ahead[m] = i /\ Live(i) =>
               Ahead[n] # i /\ \A k \in DOMAIN outbox : Opening(k) => Ahead[n] # k
    /\ \A i \in Hedges : Working(i) =>
           \A n \in DOMAIN Ahead :
               Ahead[n] # i /\ \A k \in DOMAIN outbox : Opening(k) => Ahead[n] # k

OpeningsComeFirst ==
    \A k \in DOMAIN outbox : Opening(k) =>
        /\ \A i \in Hedges : Unfinished(i) => k < i
        /\ Early \/ Working(k) \/ \E n \in DOMAIN Ahead : Ahead[n] = k

FailureIsLast ==
    \A j \in Hedges : outbox[j].status = "FAILED" =>
        /\ session \in {"PAUSED", "RECOVERING"}
        /\ \A i \in Hedges : ~Unfinished(i)
        /\ \A k \in DOMAIN outbox : ~Opening(k)

ResumptionIsClean ==
    worker.at = "continue" => \A i \in Hedges : outbox[i].status = "COMPLETED"

UnknownIsLeft ==
    \A i \in Hedges : rows[i].state = "UNKNOWN" =>
        \/ worker.at \in {"down", "sync"}
        \/ /\ worker.at # "resume"
           /\ \A n \in DOMAIN Ahead : Ahead[n] # i
           /\ ~(worker.at = "execute" /\ worker.action = i)

-----------------------------------------------------------------------------
(* Where a plan or a dispatch leaves the worker.                           *)

Goes(w) ==
    /\ w \in Process
    /\ w.at \in {"plan", "dispatch", "startup", "idle"}
    /\ w.planned = <<>>
    /\ w.at = "dispatch" => w.todo # <<>>
    /\ w.at \in {"startup", "idle"} => w.todo = <<>>
    /\ w.mode = "recovery" => w.at \notin {"plan", "idle"}
    /\ w.at = "startup" => w.mode = "recovery"
    /\ w.mode # "events" => w.results = <<>>
    /\ w.at \in {"startup", "idle"} => w.results = <<>>
    /\ w.at = "plan" /\ w.event.source.from # "dispatch" => w.results = <<>>

LEMMA ResultEventType ==
    ASSUME NEW action \in 0 .. MaxActions, NEW result \in Result
    PROVE  ResultEvent(action, result) \in EngineEvent
BY EntryBoundsAssumption, TargetAssumption
   DEF ResultEvent, Result, EngineEvent, OrderEvent, Source, EventSource, ResultKind,
       OrderEventKind, Snapshot, Order, Absent

LEMMA ProceedGoes ==
    ASSUME NEW w \in Process, w.planned = <<>>,
           w.mode # "events" => w.results = <<>>
    PROVE  /\ Goes(Proceed(w))
           /\ Proceed(w).todo = w.todo
           /\ w.mode # "recovery" => Proceed(w).mode # "recovery"
           /\ w.mode = "recovery" => Proceed(w).mode = "recovery"
<1>1. CASE w.results # <<>>
  <2>1. Head(w.results) \in Result /\ Tail(w.results) \in Results
    BY <1>1 DEF Process, Results
  <2>2. ResultEvent(w.action, Head(w.results)) \in EngineEvent
    BY <2>1, ResultEventType DEF Process, Slots
  <2>3. Proceed(w) = [w EXCEPT !.at = "plan", !.results = Tail(w.results),
                               !.event = ResultEvent(w.action, Head(w.results))]
    BY <1>1 DEF Proceed
  <2>4. Proceed(w) \in Process
    <3>1. "plan" \in Place
      BY DEF Place
    <3> QED  BY <2>1, <2>2, <2>3, <3>1 DEF Process
  <2>5. Proceed(w).event.source.from = "dispatch"
    BY <2>3, <2>4 DEF Process, ResultEvent, OrderEvent, Source
  <2> QED  BY <1>1, <2>3, <2>4, <2>5 DEF Goes, Process
<1>2. CASE w.results = <<>>
  <2> DEFINE at == IF w.todo # <<>> THEN "dispatch"
                   ELSE IF w.mode = "recovery" THEN "startup" ELSE "idle"
             mode == IF w.mode = "stop" /\ w.todo = <<>> THEN "events" ELSE w.mode
  <2>1. Proceed(w) = [w EXCEPT !.at = at, !.action = 0, !.mode = mode]
    BY <1>2 DEF Proceed
  <2>2. Proceed(w) \in Process
    <3>1. at \in Place
      BY DEF Place
    <3>2. mode \in Mode
      BY DEF Process, Mode
    <3> HIDE DEF at, mode
    <3>3. 0 \in Slots
      BY EntryBoundsAssumption DEF Slots
    <3> QED  BY <2>1, <3>1, <3>2, <3>3 DEF Process
  <2> QED  BY <1>2, <2>1, <2>2 DEF Goes, Process
<1> QED  BY <1>1, <1>2

LEMMA EndPlanGoes ==
    ASSUME NEW w \in Process, w.mode # "events" => w.results = <<>>
    PROVE  /\ Goes(EndPlan(w))
           /\ EndPlan(w).todo = w.todo \o w.planned
           /\ w.mode # "recovery" => EndPlan(w).mode # "recovery"
<1> DEFINE v == [w EXCEPT !.todo = w.todo \o w.planned, !.planned = <<>>,
                          !.event = NoEvent, !.maker = Absent]
<1>1. w.todo \o w.planned \in Actions /\ <<>> \in Actions
  BY DEF Process, Actions
<1>2. NoEvent \in EngineEvent
  BY EntryBoundsAssumption, TargetAssumption
     DEF NoEvent, EngineEvent, OrderEvent, Source, EventSource, Maker, Slots
<1>3. v \in Process /\ v.planned = <<>> /\ v.todo = w.todo \o w.planned
      /\ v.mode = w.mode /\ v.results = w.results
  BY <1>1, <1>2 DEF Process, Snapshot
<1>4. EndPlan(w) = Proceed(v)
  BY DEF EndPlan
<1> HIDE DEF v
<1> QED  BY <1>3, <1>4, ProceedGoes

LEMMA EndDispatchGoes ==
    ASSUME NEW w \in Process, NEW results \in Results, w.planned = <<>>
    PROVE  /\ Goes(EndDispatch(w, results))
           /\ EndDispatch(w, results).todo = w.todo
           /\ w.mode # "recovery" => EndDispatch(w, results).mode # "recovery"
           /\ w.mode = "recovery" => EndDispatch(w, results).mode = "recovery"
<1> DEFINE v == [w EXCEPT !.results = IF w.mode = "events" THEN results ELSE <<>>,
                          !.resumed = FALSE]
<1>1. v \in Process /\ v.planned = <<>> /\ v.todo = w.todo /\ v.mode = w.mode
      /\ (v.mode # "events" => v.results = <<>>)
  <2>1. <<>> \in Results
    BY DEF Results
  <2> QED  BY <2>1 DEF Process
<1>2. EndDispatch(w, results) = Proceed(v)
  BY DEF EndDispatch
<1> HIDE DEF v
<1> QED  BY <1>1, <1>2, ProceedGoes

-----------------------------------------------------------------------------
(* What a decision takes into account.                                     *)

LEMMA TotalHasMembers ==
    ASSUME NEW f, \A n \in DOMAIN f : f[n] \in Nat
    PROVE  /\ Total(f) \in Nat
           /\ \A k \in 1 .. MaxActions : At(f, k) <= Total(f)
<1>1. PICK F : Sums(f, MaxActions, F) /\ Total(f) = F[MaxActions]
  BY TotalIsASum
<1>2. \A k \in 0 .. MaxActions : (IF k = 0 THEN 0 ELSE At(f, k)) <= F[MaxActions]
  <2> SUFFICES ASSUME NEW k \in 0 .. MaxActions
               PROVE  (IF k = 0 THEN 0 ELSE At(f, k)) <= F[MaxActions]
    OBVIOUS
  <2> DEFINE term == IF k = 0 THEN 0 ELSE At(f, k)
             bad == {n \in 0 .. MaxActions :
                        ~(F[n] >= (IF n >= k THEN term ELSE 0))}
  <2>1. term \in Nat
    BY DEF At
  <2> HIDE DEF term
  <2>2. bad = {}
    <3> SUFFICES ASSUME bad # {} PROVE FALSE
      OBVIOUS
    <3>1. PICK n \in bad : \A m \in bad : n <= m
      <4>1. bad \in SUBSET Nat
        OBVIOUS
      <4> HIDE DEF bad
      <4> QED  BY <4>1, LeastNumber
    <3>2. n \in 0 .. MaxActions /\ n - 1 \notin bad
      BY <3>1
    <3>3. n # 0
      <4>1. F[0] = 0
        BY <1>1, EntryBoundsAssumption DEF Sums
      <4>2. k = 0 => term = 0
        BY DEF term
      <4> QED  BY <3>1, <4>1, <4>2, <2>1
    <3>4. n \in 1 .. MaxActions /\ F[n - 1] >= (IF n - 1 >= k THEN term ELSE 0)
      BY <3>2, <3>3, EntryBoundsAssumption
    <3>5. F[n] = F[n - 1] + At(f, n) /\ F[n - 1] \in Int
      <4>1. n \in 0 .. MaxActions /\ n - 1 \in 0 .. MaxActions /\ n # 0
        BY <3>4, EntryBoundsAssumption
      <4> HIDE DEF bad
      <4> QED  BY <4>1, <1>1 DEF Sums
    <3>6. At(f, n) \in Nat /\ (n = k => term = At(f, n))
      BY <3>3 DEF At, term
    <3>7. F[n] >= (IF n >= k THEN term ELSE 0)
      <4> HIDE DEF At
      <4> QED  BY <3>4, <3>5, <3>6, <2>1
    <3> QED  BY <3>1, <3>7
  <2>3. MaxActions \in 0 .. MaxActions /\ F[MaxActions] \in Int
    BY <1>1, EntryBoundsAssumption DEF Sums
  <2>4. F[MaxActions] >= (IF MaxActions >= k THEN term ELSE 0)
    BY <2>2, <2>3
  <2> QED  BY <2>1, <2>3, <2>4, EntryBoundsAssumption DEF term
<1>3. F[MaxActions] \in Int /\ 0 <= F[MaxActions]
  BY <1>1, <1>2, EntryBoundsAssumption DEF Sums
<1> QED  BY <1>1, <1>2, <1>3

LEMMA HedgeTypes ==
    ASSUME Typed, HedgesBuy, NEW i \in Hedges
    PROVE  /\ i \in 1 .. MaxActions /\ i \in Slots /\ i # Maker /\ i \in DOMAIN outbox
           /\ Requested(i) = outbox[i].quantity /\ Requested(i) \in 1 .. Target
           /\ rows[i].cum \in 0 .. Target /\ real[i].cum \in 0 .. Target
           /\ charged[i] \in 0 .. Target
<1>1. /\ i \in DOMAIN outbox /\ DOMAIN outbox = 1 .. Len(outbox)
      /\ Len(outbox) \in Nat /\ Len(outbox) <= MaxActions
      /\ outbox[i] \in OutboxAction
  BY DEF Typed, Hedges
<1>2. i \in 1 .. MaxActions /\ i \in Slots /\ i # Maker
  BY <1>1, EntryBoundsAssumption DEF Slots, Maker
<1>3. Requested(i) = outbox[i].quantity /\ Requested(i) \in 1 .. Target
  BY <1>1, <1>2, TargetAssumption DEF Requested, OutboxAction, HedgesBuy
<1>4. rows[i].cum \in 0 .. Target /\ real[i].cum \in 0 .. Target
      /\ charged[i] \in 0 .. Target
  BY <1>2, TargetAssumption DEF Typed, Snapshot, Order, Absent
<1> QED  BY <1>1, <1>2, <1>3, <1>4

LEMMA ClaimIsANumber ==
    ASSUME Typed, HedgesBuy, NEW i \in Hedges
    PROVE  Claim(i) \in Nat
<1>1. Commission(real[i].cum) \in 0 .. real[i].cum
  BY HedgeTypes, CommissionAssumption
<1> QED  BY <1>1, HedgeTypes DEF Claim

LEMMA ReservedIsANumber ==
    ASSUME Typed, OrdersAreRecorded, HedgesBuy, NEW i \in Hedges
    PROVE  /\ Reserved(i) \in Nat
           /\ Reserved(i) = 0 =>
                  ~IsOpen(i) /\ (rows[i] = Absent => ~Unfinished(i))
<1>1. IsOpen(i) => rows[i].cum = 0
  BY HedgeTypes DEF OrdersAreRecorded, OrderIsRecorded
<1> QED  BY <1>1, HedgeTypes DEF Reserved, IsOpen, Unfinished

(* Without a live hedge the engine's records are the exchange's.           *)
LEMMA SpotIsClaimed ==
    ASSUME Typed, OrdersAreRecorded, HedgesBuy, \A i \in Hedges : ~Live(i)
    PROVE  /\ Claimed \in Nat
           /\ SpotBought - SpotCharged \in Int
           /\ Claimed <= SpotBought - SpotCharged
<1> DEFINE bought == [i \in Hedges |-> rows[i].cum]
           fees == [i \in Hedges |-> Commission(charged[i])]
           net == [i \in Hedges |-> rows[i].cum - Commission(charged[i])]
           claims == [i \in Hedges |-> Claim(i)]
<1>1. \A i \in Hedges : /\ rows[i].cum \in Nat /\ Commission(charged[i]) \in Nat
                        /\ Claim(i) \in Nat
                        /\ Claim(i) <= rows[i].cum - Commission(charged[i])
  <2> SUFFICES ASSUME NEW i \in Hedges
               PROVE  /\ rows[i].cum \in Nat /\ Commission(charged[i]) \in Nat
                      /\ Claim(i) \in Nat
                      /\ Claim(i) <= rows[i].cum - Commission(charged[i])
    OBVIOUS
  <2>1. OrderIsRecorded(i)
    BY HedgeTypes DEF OrdersAreRecorded
  <2>2. rows[i].cum = real[i].cum
    BY <2>1 DEF OrderIsRecorded, Live, IsOpen, Rejected, Absent
  <2>3. /\ Commission(charged[i]) \in 0 .. charged[i]
        /\ Commission(charged[i]) <= Commission(real[i].cum)
        /\ Commission(real[i].cum) \in 0 .. real[i].cum
    <3>1. charged[i] \in 0 .. real[i].cum
      BY <2>1, HedgeTypes DEF OrderIsRecorded
    <3> QED  BY <3>1, HedgeTypes, CommissionAssumption
  <2>4. Claim(i) = real[i].cum - Commission(real[i].cum)
    BY DEF Claim
  <2> QED  BY <2>2, <2>3, <2>4, HedgeTypes
<1>2. Total(net) = Total(bought) - Total(fees) /\ Total(bought) \in Int
      /\ Total(fees) \in Int
  <2>1. \A n \in 1 .. MaxActions : At(net, n) = At(bought, n) - At(fees, n)
    BY DEF At
  <2>2. /\ \A n \in DOMAIN bought : bought[n] \in Int
        /\ \A n \in DOMAIN fees : fees[n] \in Int
        /\ \A n \in DOMAIN net : net[n] \in Int
    BY <1>1
  <2> HIDE DEF bought, fees, net
  <2> QED  BY <2>1, <2>2, TotalSubtracts
<1>3. Total(claims) <= Total(net) + 0
  <2>1. \A n \in 1 .. MaxActions :
            At(claims, n) <= At(net, n) + (IF n = 0 THEN 0 ELSE 0)
    BY <1>1 DEF At
  <2>2. /\ \A n \in DOMAIN claims : claims[n] \in Int
        /\ \A n \in DOMAIN net : net[n] \in Int
    BY <1>1
  <2> HIDE DEF claims, net
  <2> QED  BY <2>1, <2>2, TotalShifts
<1>4. Total(claims) \in Nat
  <2>1. \A n \in DOMAIN claims : claims[n] \in Nat
    BY <1>1
  <2> HIDE DEF claims
  <2> QED  BY <2>1, TotalHasMembers
<1>5. Claimed = Total(claims) /\ SpotBought = Total(bought) /\ SpotCharged = Total(fees)
  BY DEF Claimed, SpotBought, SpotCharged
<1> HIDE DEF claims, bought, fees, net
<1> QED  BY <1>2, <1>3, <1>4, <1>5

(* What is decided is quiet, or ends with a hedge or with the opening.     *)
Quiet == {Command(k) : k \in {"CANCEL_MAKER", "RECONCILE", "PAUSE", "RECOVER"}}

Last(c) ==
    IF c.hedge.tradable > 0 THEN HedgeCommand(c.hedge.tradable) ELSE Command("MARK_OPEN")

LEMMA ShortLists ==
    ASSUME NEW S, NEW a \in S, NEW b \in S
    PROVE  /\ <<>> \in Seq(S) /\ <<a>> \in Seq(S) /\ <<a, b>> \in Seq(S)
           /\ <<>> \o <<>> = <<>> /\ <<>> \o <<a>> = <<a>> /\ <<a>> \o <<>> = <<a>>
           /\ <<a>> \o <<b>> = <<a, b>>
           /\ <<>> \o <<a, b>> = <<a, b>>
<1>1. <<>> \in Seq(S) /\ <<a>> \in Seq(S) /\ <<a, b>> \in Seq(S)
  OBVIOUS
<1>2. <<>> \o <<>> = <<>> /\ <<>> \o <<a>> = <<a>> /\ <<a>> \o <<>> = <<a>>
  OBVIOUS
<1>3. <<a>> \o <<b>> = <<a, b>>
  <2> DEFINE both == <<a>> \o <<b>>
  <2>1. both \in Seq(S) /\ Len(both) = 2
    OBVIOUS
  <2>2. both[1] = a /\ both[2] = b
    OBVIOUS
  <2> HIDE DEF both
  <2>3. both = <<both[1], both[2]>>
    BY <2>1
  <2> QED  BY <2>2, <2>3 DEF both
<1>4. <<>> \o <<a, b>> = <<a, b>>
  OBVIOUS
<1> QED  BY <1>1, <1>2, <1>3, <1>4

LEMMA DecidedCommands ==
    ASSUME NEW c
    PROVE  \/ Decide(c) \in Seq(Quiet)
           \/ /\ \E limit \in {<<>>, <<Command("CANCEL_MAKER")>>} :
                     Decide(c) = limit \o <<Last(c)>>
              /\ c.status \in ActiveStatus /\ ~(c.hedge.pending > 0)
<1>1. /\ Command("CANCEL_MAKER") \in Quiet /\ Command("RECONCILE") \in Quiet
      /\ Command("PAUSE") \in Quiet /\ Command("RECOVER") \in Quiet
  BY DEF Quiet
<1>2. CASE Decide(c) = <<>>
  BY <1>2
<1>3. ASSUME NEW r \in {"PAUSE", "RECOVER"}, Decide(c) = StopAndInspect(c, r)
      PROVE  Decide(c) \in Seq(Quiet)
  <2>1. Command(r) \in Quiet
    BY DEF Quiet
  <2>2. CancelIfOpen(c) \in Seq(Quiet)
    BY <1>1, CancelsOnly, ShortLists
  <2>3. StopAndInspect(c, r) = CancelIfOpen(c) \o <<Command("RECONCILE"), Command(r)>>
    BY DEF StopAndInspect
  <2> QED  BY <1>1, <1>3, <2>1, <2>2, <2>3
<1>4. CASE Decide(c) = <<Command("RECONCILE"), Command("PAUSE")>>
  BY <1>1, <1>4
<1>5. CASE c.status \in ActiveStatus /\ Decide(c) = LimitExposure(c) \o ContinueEntry(c)
  <2>1. PICK limit \in {<<>>, <<Command("CANCEL_MAKER")>>} : LimitExposure(c) = limit
    BY CancelsOnly
  <2>2. limit \in Seq(Quiet)
    BY <1>1, ShortLists
  <2>3. CASE ContinueEntry(c) = <<>>
    <3>1. Decide(c) = limit \o <<>>
      BY <1>5, <2>1, <2>3
    <3>2. \A list \in Seq(Quiet) : list \o <<>> = list
      OBVIOUS
    <3> QED  BY <2>2, <3>1, <3>2
  <2>4. CASE ContinueEntry(c) = <<Last(c)>> /\ ~(c.hedge.pending > 0)
    BY <1>5, <2>1, <2>4
  <2>5. CASE ContinueEntry(c) = <<Command("RECONCILE"), Command("RECOVER")>>
    BY <1>1, <1>5, <2>1, <2>2, <2>5
  <2>6. \/ ContinueEntry(c) = <<>>
        \/ ContinueEntry(c) = <<Command("RECONCILE"), Command("RECOVER")>>
        \/ ContinueEntry(c) = <<Last(c)>> /\ ~(c.hedge.pending > 0)
    BY EntryGoesOn, Zenon DEF Last
  <2> QED  BY <2>3, <2>4, <2>5, <2>6
<1> QED  BY <1>2, <1>3, <1>4, <1>5 DEF Decide

(* A decision that plans a hedge, or the opening, finds no live hedge, and *)
(* the hedge is covered by what the maker has sold.                        *)
LEMMA DecisionIsCovered ==
    ASSUME Typed, OrdersAreRecorded, HedgesBuy, PlansAreSeparate, SentIsFinished,
           MakerIsRead, worker.at = "decide", NEW price \in Prices,
           session \in ActiveStatus, ~(Context(price).hedge.pending > 0)
    PROVE  /\ \A i \in Hedges : ~Live(i)
           /\ Context(price).hedge.tradable > 0 =>
                  /\ Context(price).hedge.tradable \in 1 .. Target
                  /\ Claimed + Context(price).hedge.tradable <= real[Maker].cum
<1> DEFINE hedge == CurrentHedge(price)
<1>1. Context(price).hedge = hedge
  BY DEF Context
<1>2. hedge.pending = SpotReserved
  BY DEF CurrentHedge, HedgeDecision
<1>3. SpotReserved = 0 /\ \A i \in Hedges : Reserved(i) = 0
  <2> DEFINE reserved == [i \in Hedges |-> Reserved(i)]
  <2>1. \A i \in DOMAIN reserved : reserved[i] \in Nat
    BY ReservedIsANumber
  <2>2. Total(reserved) \in Nat /\ \A k \in 1 .. MaxActions : At(reserved, k) <= Total(reserved)
    <3> HIDE DEF reserved
    <3> QED  BY <2>1, TotalHasMembers
  <2>3. Total(reserved) = 0
    BY <1>1, <1>2, <2>2 DEF SpotReserved
  <2>4. \A i \in Hedges : Reserved(i) <= 0
    BY <2>2, <2>3, HedgeTypes DEF At
  <2> QED  BY <2>3, <2>4, ReservedIsANumber DEF SpotReserved
<1>4. \A i \in Hedges : ~Live(i)
  <2> SUFFICES ASSUME NEW i \in Hedges PROVE ~Live(i)
    OBVIOUS
  <2>1. ~IsOpen(i) /\ (rows[i] = Absent => ~Unfinished(i))
    BY <1>3, ReservedIsANumber
  <2>2. Unfinished(i) => rows[i] = Absent
    BY DEF SentIsFinished, Early, Submission, Working, PlansAreSeparate
  <2> QED  BY <2>1, <2>2 DEF Live
<1>5. Claimed \in Nat /\ SpotBought - SpotCharged \in Int
      /\ Claimed <= SpotBought - SpotCharged
  BY <1>4, SpotIsClaimed
<1>6. worker.maker.cum \in 0 .. Target /\ worker.maker.cum <= real[Maker].cum
      /\ real[Maker].cum \in 0 .. Target
  <2>1. worker.maker \in Snapshot /\ real[Maker] \in Snapshot
    BY EntryBoundsAssumption DEF Typed, Process, Slots, Maker
  <2>2. \A row \in Snapshot : row.cum \in 0 .. Target
    BY TargetAssumption DEF Snapshot, Order, Absent
  <2> QED  BY <2>1, <2>2 DEF MakerIsRead
<1>7. price \in Nat
  BY PricesAssumption
<1>8. Quantities(worker.maker.cum, SpotBought - SpotCharged, SpotReserved, price)
  BY <1>3, <1>5, <1>6, <1>7 DEF Quantities
<1>9. hedge.tradable \in Nat
  BY <1>8, DecisionTypes DEF CurrentHedge
<1>10. hedge.tradable > 0 =>
          SpotBought - SpotCharged + hedge.tradable <= worker.maker.cum
  <2>1. hedge.tradable > 0 =>
            SpotBought - SpotCharged + SpotReserved + hedge.tradable <= worker.maker.cum
    BY <1>8, HedgeCoversOnce DEF CurrentHedge
  <2> QED  BY <2>1, <1>3, <1>5, <1>6, <1>9
<1> HIDE DEF hedge
<1>11. hedge.tradable > 0 =>
          /\ hedge.tradable \in 1 .. Target
          /\ Claimed + hedge.tradable <= real[Maker].cum
  <2> DEFINE bought == SpotBought - SpotCharged
             t == hedge.tradable
  <2>1. bought \in Int /\ t \in Nat /\ Claimed \in Nat /\ Claimed <= bought
        /\ (t > 0 => bought + t <= worker.maker.cum)
    BY <1>5, <1>9, <1>10
  <2> HIDE DEF bought, t
  <2>2. t > 0 => t \in 1 .. Target /\ Claimed + t <= real[Maker].cum
    BY <2>1, <1>6, TargetAssumption
  <2> QED  BY <2>2 DEF t
<1> QED  BY <1>1, <1>4, <1>11

(* The commands that a decision leaves to be saved.                        *)
LEMMA DecisionIsSound ==
    ASSUME Typed, OrdersAreRecorded, HedgesBuy, PlansAreSeparate, SentIsFinished,
           MakerIsRead, worker.at = "decide", NEW price \in Prices
    PROVE  LET commands == Decide(Context(price))
           IN  /\ commands \in Commands
               /\ \A n \in DOMAIN commands :
                      commands[n].kind \in {"SUBMIT_HEDGE", "MARK_OPEN"} =>
                          /\ n = Len(commands)
                          /\ session \in ActiveStatus
                          /\ \A i \in Hedges : ~Live(i)
                          /\ commands[n].kind = "SUBMIT_HEDGE" =>
                                 /\ commands[n].quantity > 0
                                 /\ Claimed + commands[n].quantity <= real[Maker].cum
<1> DEFINE c == Context(price)
           commands == Decide(c)
           last == Last(c)
<1>1. \A command \in Quiet : /\ command \in PolicyCommand
                             /\ command.kind \notin {"SUBMIT_HEDGE", "MARK_OPEN"}
  BY TargetAssumption DEF Quiet, Command, PolicyCommand, CommandKind
<1>2. CASE commands \in Seq(Quiet)
  <2>1. \A n \in DOMAIN commands : commands[n] \in Quiet
    BY <1>2
  <2>2. commands \in Seq(PolicyCommand)
    <3> HIDE DEF commands
    <3> QED  BY <1>1, <1>2, <2>1
  <2> QED  BY <1>1, <2>1, <2>2 DEF Commands
<1>3. ASSUME NEW limit \in {<<>>, <<Command("CANCEL_MAKER")>>},
             commands = limit \o <<last>>,
             session \in ActiveStatus, ~(c.hedge.pending > 0)
      PROVE  /\ commands \in Commands
             /\ \A n \in DOMAIN commands :
                    commands[n].kind \in {"SUBMIT_HEDGE", "MARK_OPEN"} =>
                        n = Len(commands) /\ commands[n] = last
  <2>1. Command("CANCEL_MAKER") \in Quiet
    BY DEF Quiet
  <2>2. last \in PolicyCommand
    <3>1. CASE c.hedge.tradable > 0
      <4>1. c.hedge.tradable \in 1 .. Target
        BY <1>3, <3>1, DecisionIsCovered
      <4>2. last = HedgeCommand(c.hedge.tradable)
        BY <3>1 DEF Last
      <4> HIDE DEF c, last
      <4> QED  BY <4>1, <4>2 DEF HedgeCommand, PolicyCommand, CommandKind
    <3>2. CASE ~(c.hedge.tradable > 0)
      BY <3>2, TargetAssumption DEF Last, Command, PolicyCommand, CommandKind
    <3> QED  BY <3>1, <3>2
  <2> DEFINE cancel == Command("CANCEL_MAKER")
  <2>3. cancel \in PolicyCommand /\ cancel.kind \notin {"SUBMIT_HEDGE", "MARK_OPEN"}
    BY <1>1, <2>1
  <2> HIDE DEF cancel, last, commands
  <2>4. CASE limit = <<>>
    <3>1. commands = <<last>>
      BY <1>3, <2>4
    <3> QED  BY <2>2, <3>1 DEF Commands
  <2>5. CASE limit = <<cancel>>
    <3>1. commands = <<cancel, last>>
      BY <1>3, <2>2, <2>3, <2>5, ShortLists
    <3> QED  BY <2>2, <2>3, <3>1 DEF Commands
  <2> QED  BY <1>3, <2>4, <2>5 DEF cancel
<1>4. ASSUME NEW limit \in {<<>>, <<Command("CANCEL_MAKER")>>},
             commands = limit \o <<last>>,
             session \in ActiveStatus, ~(c.hedge.pending > 0)
      PROVE  /\ \A i \in Hedges : ~Live(i)
             /\ last.kind = "SUBMIT_HEDGE" =>
                    last.quantity > 0 /\ Claimed + last.quantity <= real[Maker].cum
  <2>1. last.kind = "SUBMIT_HEDGE" =>
            c.hedge.tradable > 0 /\ last.quantity = c.hedge.tradable
    BY DEF Last, HedgeCommand, Command
  <2> HIDE DEF last
  <2> QED  BY <1>4, <2>1, DecisionIsCovered
<1>5. c.status = session
  BY DEF Context
<1>6. \/ commands \in Seq(Quiet)
      \/ /\ \E limit \in {<<>>, <<Command("CANCEL_MAKER")>>} : commands = limit \o <<last>>
         /\ session \in ActiveStatus /\ ~(c.hedge.pending > 0)
  BY <1>5, DecidedCommands
<1> HIDE DEF commands, c, last
<1>7. CASE ~(commands \in Seq(Quiet))
  <2>1. PICK limit \in {<<>>, <<Command("CANCEL_MAKER")>>} : commands = limit \o <<last>>
    BY <1>6, <1>7
  <2>2. session \in ActiveStatus /\ ~(c.hedge.pending > 0)
    BY <1>6, <1>7
  <2>3. /\ commands \in Commands
        /\ \A n \in DOMAIN commands :
               commands[n].kind \in {"SUBMIT_HEDGE", "MARK_OPEN"} =>
                   n = Len(commands) /\ commands[n] = last
    BY <1>3, <2>1, <2>2, Zenon
  <2>4. /\ \A i \in Hedges : ~Live(i)
        /\ last.kind = "SUBMIT_HEDGE" =>
               last.quantity > 0 /\ Claimed + last.quantity <= real[Maker].cum
    BY <1>4, <2>1, <2>2, Zenon
  <2> QED  BY <2>2, <2>3, <2>4 DEF commands, c
<1> QED  BY <1>2, <1>7 DEF commands, c
-----------------------------------------------------------------------------
(* What a step does to the orders and to the actions that are saved.       *)

RealMoves(i) ==
    \/ real'[i] = real[i]
    \/ /\ IsOpen(i) /\ ~IsTerminal(real[i])
       /\ Native(i, real'[i]) /\ real[i].cum <= real'[i].cum

(* A row is the exchange's, or says what has been asked for.               *)
RowMoves(i) ==
    \/ rows'[i] = rows[i]
    \/ /\ rows'[i] = [state |-> "SUBMITTING", cum |-> 0]
       /\ \/ i = Maker
          \/ rows[i] = Absent /\ i \in Hedges /\ Unfinished(i)
    \/ /\ IsOpen(i)
       /\ \/ rows'[i] = real'[i] /\ real'[i] # Absent
          \/ rows'[i] = Rejected /\ real'[i] = Absent
          \/ rows'[i].state = "UNKNOWN" /\ rows'[i].cum \in {0, rows[i].cum}
          \/ /\ rows[i].state \in Acknowledged
             /\ rows'[i].state = "PENDING_CANCEL" /\ rows'[i].cum = rows[i].cum

OrdersMove ==
    \A i \in Slots : /\ RealMoves(i) /\ RowMoves(i)
                     /\ charged'[i] \in {charged[i], real'[i].cum}

(* No action is unfinished again, and what is added is not a hedge.        *)
OutboxMoves ==
    /\ DOMAIN outbox \subseteq DOMAIN outbox'
    /\ \A i \in DOMAIN outbox :
           /\ outbox'[i].kind = outbox[i].kind
           /\ outbox'[i].quantity = outbox[i].quantity
           /\ outbox'[i].status \in {"PENDING", "IN_PROGRESS"} => Unfinished(i)
    /\ \A i \in DOMAIN outbox' : i \notin DOMAIN outbox =>
           outbox'[i].kind # "SUBMIT_HEDGE"

OrdersAreSound == OrdersAreRecorded /\ HedgesBuy /\ OneIsLive /\ ClaimsAreCovered

LEMMA SlotTypes ==
    ASSUME Typed, NEW i \in Slots
    PROVE  /\ rows[i] \in Snapshot /\ real[i] \in Snapshot
           /\ rows[i].cum \in 0 .. Target /\ real[i].cum \in 0 .. Target
           /\ charged[i] \in 0 .. Target
<1>1. rows[i] \in Snapshot /\ real[i] \in Snapshot /\ charged[i] \in 0 .. Target
  BY DEF Typed
<1>2. \A row \in Snapshot : row.cum \in 0 .. Target
  BY TargetAssumption DEF Snapshot, Order, Absent
<1> QED  BY <1>1, <1>2

LEMMA SlotTypesNext ==
    ASSUME Typed', NEW i \in Slots
    PROVE  /\ rows'[i] \in Snapshot /\ real'[i] \in Snapshot
           /\ rows'[i].cum \in 0 .. Target /\ real'[i].cum \in 0 .. Target
           /\ charged'[i] \in 0 .. Target
<1>1. rows'[i] \in Snapshot /\ real'[i] \in Snapshot /\ charged'[i] \in 0 .. Target
  BY DEF Typed
<1>2. \A row \in Snapshot : row.cum \in 0 .. Target
  BY TargetAssumption DEF Snapshot, Order, Absent
<1> QED  BY <1>1, <1>2

LEMMA HedgesStay ==
    ASSUME Typed, OutboxMoves
    PROVE  /\ Hedges' = Hedges
           /\ \A i \in Hedges \cup {Maker} : Requested(i)' = Requested(i)
<1>1. Hedges' = Hedges
  BY DEF Hedges, OutboxMoves
<1> QED  BY <1>1 DEF Hedges, OutboxMoves, Requested

(* A live hedge was live: nothing becomes open that was not unfinished.    *)
LEMMA LiveStays ==
    ASSUME Typed, OutboxMoves, OrdersMove, NEW i \in Hedges, Live(i)'
    PROVE  Live(i)
<1>1. Hedges' = Hedges
  BY HedgesStay
<1>2. i \in Slots /\ i # Maker /\ i \in DOMAIN outbox
  BY EntryBoundsAssumption DEF Typed, Hedges, Slots, Maker
<1>3. CASE Unfinished(i)'
  BY <1>2, <1>3 DEF Live, Unfinished, OutboxMoves
<1>4. CASE IsOpen(i)'
  BY <1>2, <1>4 DEF Live, IsOpen, OrdersMove, RowMoves
<1> QED  BY <1>1, <1>3, <1>4 DEF Live

LEMMA RecordsStay ==
    ASSUME Typed, Typed', OrdersAreRecorded, OutboxMoves, OrdersMove,
           NEW i \in Slots
    PROVE  OrderIsRecorded(i)'
<1>1. OrderIsRecorded(i) /\ RealMoves(i) /\ RowMoves(i)
      /\ charged'[i] \in {charged[i], real'[i].cum}
  BY DEF OrdersAreRecorded, OrdersMove
<1>2. Hedges' = Hedges
  BY HedgesStay
<1>3. rows[i] # Absent => i \in Hedges \cup {Maker}
  BY <1>1 DEF OrderIsRecorded
<1>4. rows[i] # Absent => Requested(i)' = Requested(i)
  BY <1>3, HedgesStay
<1>5. real[i].cum <= real'[i].cum
  BY <1>1, SlotTypes DEF RealMoves
<1>6. real'[i] = Absent \/ Native(i, real'[i])
  BY <1>1 DEF OrderIsRecorded, RealMoves
<1>7. real'[i] # Absent => rows[i] # Absent
  BY <1>1 DEF OrderIsRecorded, RealMoves, IsOpen
<1>8. (real[i] = Absent \/ Native(i, real[i]))'
  BY <1>4, <1>6, <1>7 DEF Native
<1>9. (rows[i] = Absent => real[i] = Absent)'
  BY <1>1, <1>7 DEF RowMoves, Rejected, Absent
<1>10. (IsTerminal(rows[i]) => \/ rows[i] = real[i]
                               \/ rows[i] = Rejected /\ real[i] = Absent)'
  BY <1>1 DEF RowMoves, RealMoves, OrderIsRecorded, IsOpen, IsTerminal,
              TerminalOrderState, Absent
<1>11. (IsOpen(i) /\ i # Maker => rows[i].cum = 0)'
  <2>1. (real'[i] # Absent /\ rows'[i] = real'[i]) =>
            (~IsTerminal(rows'[i]) /\ i # Maker => rows'[i].cum = 0)
    BY <1>6 DEF Native
  <2>2. rows'[i] = rows[i] => (IsOpen(i)' => IsOpen(i))
    BY DEF IsOpen
  <2> QED  BY <1>1, <2>1, <2>2 DEF RowMoves, OrderIsRecorded, IsOpen, Rejected
<1>12. (rows[i].cum <= real[i].cum)'
  BY <1>1, <1>5, SlotTypes, SlotTypesNext DEF RowMoves, OrderIsRecorded, Rejected, Absent
<1>13. (charged[i] <= real[i].cum)'
  BY <1>1, <1>5, SlotTypes, SlotTypesNext DEF OrderIsRecorded
<1>14. (rows[i] # Absent => i \in Hedges \cup {Maker})'
  BY <1>1, <1>2, <1>3 DEF RowMoves, IsOpen
<1>15. (rows[i].state \in Acknowledged => real[i] # Absent)'
  <2>1. real[i] # Absent => real'[i] # Absent
    BY <1>1 DEF RealMoves, Native, Absent
  <2> QED
    BY <1>1, <2>1 DEF RowMoves, OrderIsRecorded, Acknowledged, Rejected
<1> QED  BY <1>8, <1>9, <1>10, <1>11, <1>12, <1>13, <1>14, <1>15 DEF OrderIsRecorded

LEMMA ClaimShrinks ==
    ASSUME Typed, Typed', OrdersAreRecorded, HedgesBuy, OutboxMoves, OrdersMove,
           NEW i \in Hedges
    PROVE  Claim(i)' \in Nat /\ Claim(i) \in Nat /\ Claim(i)' <= Claim(i)
<1>1. i \in Slots /\ i # Maker /\ i \in Hedges' /\ Requested(i)' = Requested(i)
      /\ Requested(i) \in 1 .. Target
  BY HedgeTypes, HedgesStay
<1>2. real'[i].cum \in 0 .. Target /\ real[i].cum \in 0 .. Target
  BY <1>1, SlotTypes, SlotTypesNext
<1>3. Commission(real'[i].cum) \in 0 .. real'[i].cum
  BY <1>2, CommissionAssumption
<1>4. Claim(i) \in Nat
  BY ClaimIsANumber
<1>5. CASE Live(i)'
  <2>1. Live(i)
    BY <1>5, LiveStays
  <2> QED  BY <1>1, <1>4, <1>5, <2>1 DEF Claim
<1>6. CASE ~Live(i)' /\ Live(i)
  <2>1. OrderIsRecorded(i)'
    BY <1>1, RecordsStay
  <2>2. real'[i].cum <= Requested(i)
    BY <1>1, <1>2, <2>1 DEF OrderIsRecorded, Native, Absent
  <2>3. Claim(i)' = real'[i].cum - Commission(real'[i].cum) /\ Claim(i) = Requested(i)
    BY <1>6 DEF Claim
  <2> QED  BY <1>1, <1>2, <1>3, <2>2, <2>3
<1>7. CASE ~Live(i)' /\ ~Live(i)
  <2>1. real'[i] = real[i]
    BY <1>1, <1>7 DEF Live, OrdersMove, RealMoves
  <2>2. Claim(i)' = real'[i].cum - Commission(real'[i].cum)
        /\ Claim(i) = real[i].cum - Commission(real[i].cum)
    BY <1>7 DEF Claim
  <2> QED  BY <1>2, <1>3, <2>1, <2>2
<1> QED  BY <1>5, <1>6, <1>7

LEMMA ClaimedShrinks ==
    ASSUME Typed, Typed', OrdersAreRecorded, HedgesBuy, OutboxMoves, OrdersMove
    PROVE  Claimed' \in Nat /\ Claimed \in Nat /\ Claimed' <= Claimed
<1> DEFINE before == [i \in Hedges |-> Claim(i)]
           after == [i \in Hedges |-> Claim(i)']
<1>1. \A i \in Hedges : Claim(i)' \in Nat /\ Claim(i) \in Nat /\ Claim(i)' <= Claim(i)
  BY ClaimShrinks
<1>2. Claimed = Total(before) /\ Claimed' = Total(after)
  <2>1. Claimed = Total(before)
    BY DEF Claimed
  <2>2. Claimed' = Total([i \in Hedges' |-> Claim(i)'])
    BY DEF Claimed, Total
  <2> QED  BY <2>1, <2>2, HedgesStay
<1>3. Total(before) \in Nat /\ Total(after) \in Nat
  <2>1. (\A n \in DOMAIN before : before[n] \in Nat) /\ \A n \in DOMAIN after : after[n] \in Nat
    BY <1>1
  <2> HIDE DEF before, after
  <2> QED  BY <2>1, TotalHasMembers
<1>4. Total(after) <= Total(before) + 0
  <2>1. \A n \in 1 .. MaxActions :
            At(after, n) <= At(before, n) + (IF n = 0 THEN 0 ELSE 0)
    BY <1>1 DEF At
  <2>2. /\ \A n \in DOMAIN after : after[n] \in Int
        /\ \A n \in DOMAIN before : before[n] \in Int
    BY <1>1
  <2> HIDE DEF before, after
  <2> QED  BY <2>1, <2>2, TotalShifts
<1> HIDE DEF before, after
<1> QED  BY <1>2, <1>3, <1>4

LEMMA OrdersStaySound ==
    ASSUME Typed, Typed', OrdersAreSound, OutboxMoves, OrdersMove
    PROVE  OrdersAreSound'
<1>1. OrdersAreRecorded'
  BY RecordsStay DEF OrdersAreSound, OrdersAreRecorded
<1>2. HedgesBuy'
  BY HedgesStay DEF OrdersAreSound, HedgesBuy, Hedges, OutboxMoves
<1>3. OneIsLive'
  BY HedgesStay, LiveStays DEF OrdersAreSound, OneIsLive
<1>4. ClaimsAreCovered'
  <2>1. Claimed' \in Nat /\ Claimed \in Nat /\ Claimed' <= Claimed
    BY ClaimedShrinks DEF OrdersAreSound
  <2>2. Maker \in Slots
    BY EntryBoundsAssumption DEF Maker, Slots
  <2>3. real[Maker].cum <= real'[Maker].cum
    BY <2>2, SlotTypes DEF OrdersMove, RealMoves
  <2>4. real[Maker].cum \in Nat /\ real'[Maker].cum \in Nat
    BY <2>2, SlotTypes, SlotTypesNext
  <2> QED  BY <2>1, <2>3, <2>4 DEF OrdersAreSound, ClaimsAreCovered
<1> QED  BY <1>1, <1>2, <1>3, <1>4 DEF OrdersAreSound

(* Most steps leave the orders and the outbox alone.                       *)
LEMMA NothingMoves ==
    ASSUME Typed, UNCHANGED <<outbox, rows, real>>,
           \A i \in Slots : charged'[i] \in {charged[i], real[i].cum}
    PROVE  OutboxMoves /\ OrdersMove
BY DEF OutboxMoves, OrdersMove, RealMoves, RowMoves, Unfinished

(* Or mark one action, which is not pending before.                        *)
LEMMA MarkMoves ==
    ASSUME Typed, NEW i \in DOMAIN outbox, NEW status \in ActionStatus,
           outbox' = Marked(outbox, i, status),
           status \in {"PENDING", "IN_PROGRESS"} => Unfinished(i)
    PROVE  /\ OutboxMoves /\ outbox' \in Seq(OutboxAction) /\ Len(outbox') = Len(outbox)
           /\ DOMAIN outbox' = DOMAIN outbox
           /\ \A k \in DOMAIN outbox :
                  outbox'[k].status = IF k = i THEN status ELSE outbox[k].status
<1>1. outbox \in Seq(OutboxAction)
  BY DEF Typed
<1>2. \A k \in DOMAIN outbox :
          /\ outbox'[k].kind = outbox[k].kind
          /\ outbox'[k].quantity = outbox[k].quantity
          /\ outbox'[k].status = IF k = i THEN status ELSE outbox[k].status
  BY <1>1 DEF Marked, OutboxAction
<1>3. DOMAIN outbox' = DOMAIN outbox
  BY <1>1 DEF Marked
<1>4. outbox' \in Seq(OutboxAction) /\ Len(outbox') = Len(outbox)
  <2> DEFINE action == [outbox[i] EXCEPT !.status = status]
  <2>1. action \in OutboxAction
    <3>1. outbox[i] \in OutboxAction
      BY <1>1
    <3> QED  BY <3>1 DEF OutboxAction
  <2>2. outbox' = [outbox EXCEPT ![i] = action]
    BY DEF Marked
  <2> HIDE DEF action
  <2> QED  BY <1>1, <2>1, <2>2
<1>5. OutboxMoves
  BY <1>2, <1>3 DEF OutboxMoves, Unfinished
<1> QED  BY <1>2, <1>3, <1>4, <1>5

-----------------------------------------------------------------------------
(* The inductive invariant.                                                *)

WorkerIsPlaced ==
    /\ EarlyIsClean /\ SessionIsNew /\ ActionIsUnderWay /\ PlansAreSeparate
    /\ MakerIsRead /\ CommandsAreCovered /\ ResumptionIsClean

DispatchIsOrdered ==
    /\ AheadIsSaved /\ SentIsFinished /\ HedgesAreLast /\ OpeningsComeFirst
    /\ FailureIsLast /\ UnknownIsLeft

Inv == Typed /\ OrdersAreSound /\ WorkerIsPlaced /\ DispatchIsOrdered

-----------------------------------------------------------------------------
(* Steps of the exchange and of the engine's other thread.                 *)

SameWork ==
    /\ worker'.at = worker.at /\ worker'.mode = worker.mode
    /\ worker'.todo = worker.todo /\ worker'.results = worker.results
    /\ worker'.event = worker.event /\ worker'.maker = worker.maker
    /\ worker'.commands = worker.commands /\ worker'.planned = worker.planned
    /\ worker'.action = worker.action

(* What the worker relies on is left to it: the outbox, the row of a call  *)
(* that is under way, and which orders are there.                          *)
LEMMA WorldStep ==
    ASSUME Inv, Typed', OrdersMove, SameWork, UNCHANGED <<session, outbox>>,
           \A i \in Slots : /\ rows[i] = Absent => rows'[i] = Absent
                            /\ rows'[i].state = "UNKNOWN" => rows[i].state = "UNKNOWN"
                            /\ InCall(i) => rows'[i] = rows[i]
    PROVE  Inv'
<1> USE DEF Inv, OrdersAreSound, WorkerIsPlaced, DispatchIsOrdered
<1>1. OutboxMoves /\ \A i \in DOMAIN outbox : Unfinished(i)' = Unfinished(i)
  BY DEF OutboxMoves, Unfinished
<1>2. OrdersAreSound'
  BY <1>1, OrdersStaySound
<1>3. Hedges' = Hedges
  BY DEF Hedges
<1>4. \A i \in Hedges : i \in Slots /\ i # Maker /\ i \in DOMAIN outbox /\ (Live(i)' => Live(i))
  BY <1>1, HedgeTypes, LiveStays
<1>5. Early' = Early /\ Submission' = Submission /\ Ahead' = Ahead
  BY DEF Early, Submission, Ahead, SameWork
<1>6. Maker \in Slots /\ Maker \notin Hedges
  BY <1>4, EntryBoundsAssumption DEF Maker, Slots
<1>7. worker.at = "await" =>
          IF worker.action \in Hedges THEN rows'[worker.action] = rows[worker.action]
          ELSE rows'[Maker] = rows[Maker]
  BY <1>4, <1>6 DEF InCall
<1>8. EarlyIsClean'
  BY <1>5 DEF EarlyIsClean, SameWork
<1>9. SessionIsNew'
  BY <1>5, <1>6, <1>7 DEF SessionIsNew, SameWork, Submission, Maker
<1>10. ActionIsUnderWay'
  <2>1. Current.kind = "CANCEL_MAKER" => worker.action \notin Hedges
    BY DEF Current, Hedges
  <2>2. Current' = Current
    BY DEF Current, SameWork
  <2> QED  BY <1>3, <1>5, <1>7, <2>1, <2>2 DEF ActionIsUnderWay, SameWork
<1>11. PlansAreSeparate'
  BY DEF PlansAreSeparate, SameWork
<1>12. real[Maker].cum <= real'[Maker].cum /\ real[Maker].cum \in Nat
       /\ real'[Maker].cum \in Nat
  BY <1>6, SlotTypes, SlotTypesNext DEF OrdersMove, RealMoves
<1>13. MakerIsRead'
  <2>1. worker.maker.cum \in Nat
    <3>1. worker.maker \in Snapshot
      BY DEF Typed, Process
    <3> QED  BY <3>1, TargetAssumption DEF Snapshot, Order, Absent
  <2> QED  BY <1>12, <2>1 DEF MakerIsRead, SameWork
<1>14. CommandsAreCovered'
  <2> SUFFICES ASSUME worker'.at = "persist", NEW n \in DOMAIN worker'.commands,
                      worker'.commands[n].kind \in {"SUBMIT_HEDGE", "MARK_OPEN"}
               PROVE  /\ n = Len(worker'.commands)
                      /\ session' \in ActiveStatus
                      /\ \A i \in Hedges' : ~Live(i)'
                      /\ worker'.commands[n].kind = "SUBMIT_HEDGE" =>
                             /\ worker'.commands[n].quantity > 0
                             /\ Claimed' + worker'.commands[n].quantity <= real'[Maker].cum
    BY DEF CommandsAreCovered
  <2>1. worker.commands = worker'.commands /\ worker.at = "persist"
    BY DEF SameWork
  <2>2. worker.commands[n].quantity \in Nat
    <3>1. worker.commands \in Seq(PolicyCommand)
      BY DEF Typed, Process, Commands
    <3>2. worker.commands[n] \in PolicyCommand
      BY <2>1, <3>1
    <3> QED  BY <3>2, TargetAssumption DEF PolicyCommand
  <2>3. Claimed' \in Nat /\ Claimed \in Nat /\ Claimed' <= Claimed
    BY <1>1, ClaimedShrinks
  <2>4. /\ n = Len(worker.commands) /\ session \in ActiveStatus
        /\ \A i \in Hedges : ~Live(i)
        /\ worker.commands[n].kind = "SUBMIT_HEDGE" =>
               /\ worker.commands[n].quantity > 0
               /\ Claimed + worker.commands[n].quantity <= real[Maker].cum
    BY <2>1 DEF CommandsAreCovered
  <2>5. \A i \in Hedges' : ~Live(i)'
    BY <1>3, <1>4, <2>4
  <2>6. worker.commands[n].kind = "SUBMIT_HEDGE" =>
            Claimed' + worker.commands[n].quantity <= real'[Maker].cum
    <3> DEFINE q == worker.commands[n].quantity
               sold == real[Maker].cum
               now == real'[Maker].cum
               left == Claimed'
    <3>1. q \in Nat /\ sold \in Nat /\ now \in Nat /\ sold <= now
      BY <1>12, <2>2
    <3>2. worker.commands[n].kind = "SUBMIT_HEDGE" => Claimed + q <= sold
      BY <2>4
    <3>3. left \in Nat /\ Claimed \in Nat /\ left <= Claimed
      BY <2>3
    <3> HIDE DEF q, sold, now, left
    <3>4. Claimed + q <= sold => left + q <= now
      BY <3>1, <3>3
    <3> QED  BY <3>2, <3>4 DEF q, now, left
  <2> QED  BY <2>1, <2>4, <2>5, <2>6
<1>15. ResumptionIsClean'
  BY <1>3 DEF ResumptionIsClean, SameWork
<1>16. AheadIsSaved'
  BY <1>5 DEF AheadIsSaved
<1>17. \A i : Working(i)' = Working(i) /\ Opening(i)' = Opening(i)
  BY DEF Working, Opening, Unfinished, SameWork
<1>18. SentIsFinished'
  BY <1>1, <1>3, <1>4, <1>5, <1>17 DEF SentIsFinished, SameWork
<1>19. HedgesAreLast'
  <2>1. \A i : Live(i)' => Live(i)
    BY <1>3, <1>4 DEF Live
  <2> QED  BY <1>3, <1>5, <1>17, <2>1 DEF HedgesAreLast
<1>20. OpeningsComeFirst'
  BY <1>1, <1>3, <1>4, <1>5, <1>17 DEF OpeningsComeFirst
<1>21. FailureIsLast'
  BY <1>1, <1>3, <1>4, <1>17 DEF FailureIsLast
<1>22. UnknownIsLeft'
  BY <1>3, <1>4, <1>5 DEF UnknownIsLeft, SameWork
<1> QED
  BY <1>2, <1>8, <1>9, <1>10, <1>11, <1>13, <1>14, <1>15, <1>16, <1>18, <1>19, <1>20,
     <1>21, <1>22

(* The process ends: the database keeps what was committed.                *)
LEMMA StopStep ==
    ASSUME Inv, Typed', OrdersMove, worker' = Off, UNCHANGED <<session, outbox>>
    PROVE  Inv'
<1> USE DEF Inv, OrdersAreSound, WorkerIsPlaced, DispatchIsOrdered
<1>1. OutboxMoves /\ \A i \in DOMAIN outbox : Unfinished(i)' = Unfinished(i)
  BY DEF OutboxMoves, Unfinished
<1>2. OrdersAreSound'
  BY <1>1, OrdersStaySound
<1>3. Hedges' = Hedges
  BY DEF Hedges
<1>4. /\ worker'.at = "down" /\ worker'.todo = <<>> /\ worker'.planned = <<>>
      /\ worker'.results = <<>> /\ worker'.mode = "recovery" /\ worker'.action = 0
  BY DEF Off
<1>5. Early' /\ ~Submission'
  BY <1>4 DEF Early, Submission
<1>6. Ahead' = <<>>
  BY <1>4 DEF Ahead
<1>7. EarlyIsClean' /\ ActionIsUnderWay' /\ PlansAreSeparate' /\ MakerIsRead'
      /\ CommandsAreCovered' /\ ResumptionIsClean'
  BY <1>4, <1>5 DEF EarlyIsClean, ActionIsUnderWay, PlansAreSeparate, MakerIsRead,
                    CommandsAreCovered, ResumptionIsClean
<1>8. SessionIsNew'
  BY <1>4, <1>5 DEF SessionIsNew
<1>9. AheadIsSaved' /\ HedgesAreLast' /\ SentIsFinished' /\ UnknownIsLeft'
  BY <1>4, <1>5, <1>6 DEF AheadIsSaved, HedgesAreLast, SentIsFinished, UnknownIsLeft, Working
<1>10. \A i : Opening(i)' = Opening(i)
  BY DEF Opening, Unfinished
<1>11. OpeningsComeFirst'
  BY <1>1, <1>3, <1>5, <1>10 DEF OpeningsComeFirst, Hedges
<1>12. FailureIsLast'
  BY <1>1, <1>3, <1>10 DEF FailureIsLast, Hedges
<1> QED  BY <1>2, <1>7, <1>8, <1>9, <1>11, <1>12

-----------------------------------------------------------------------------
(* Steps of the exchange.                                                  *)

LEMMA MakerIsASlot == Maker \in Slots
BY EntryBoundsAssumption DEF Maker, Slots

(* An order that has not ended at the exchange is open.                    *)
LEMMA PlacedIsOpen ==
    ASSUME Typed, OrdersAreRecorded, NEW i \in Slots, real[i] # Absent,
           ~IsTerminal(real[i])
    PROVE  IsOpen(i)
BY DEF OrdersAreRecorded, OrderIsRecorded, IsOpen

LEMMA RequestedTypes ==
    ASSUME Typed, OrdersAreRecorded, HedgesBuy, NEW i \in Slots, IsOpen(i)
    PROVE  i \in Hedges \cup {Maker} /\ Requested(i) \in 1 .. Target
<1>1. i \in Hedges \cup {Maker}
  BY DEF OrdersAreRecorded, OrderIsRecorded, IsOpen
<1>2. CASE i = Maker
  BY <1>2, TargetAssumption DEF Requested
<1>3. CASE i \in Hedges
  BY <1>3, HedgeTypes
<1> QED  BY <1>1, <1>2, <1>3

(* The exchange moves one order.                                           *)
LEMMA ExchangeStep ==
    ASSUME Inv, NEW i \in Slots, NEW order, order \in Order(Target),
           real' = [real EXCEPT ![i] = order],
           UNCHANGED <<session, outbox, rows, charged, queue, worker>>,
           faults' \in 0 .. MaxFaults,
           IsOpen(i), ~IsTerminal(real[i]), Native(i, order), real[i].cum <= order.cum
    PROVE  Inv'
<1>1. Typed /\ order \in Snapshot
  BY DEF Inv, Snapshot
<1>2. real' \in [Slots -> Snapshot]
  BY <1>1 DEF Typed
<1>3. Typed'
  BY <1>1, <1>2 DEF Typed
<1>4. OrdersMove
  BY <1>1 DEF Typed, OrdersMove, RealMoves, RowMoves
<1>5. SameWork
  BY DEF SameWork
<1> QED  BY <1>3, <1>4, <1>5, WorldStep

LEMMA Exchanges ==
    ASSUME Inv, Exchange \/ \E i \in Slots : ExchangeExpiresHedge(i)
    PROVE  Inv'
<1>1. Typed /\ OrdersAreRecorded /\ HedgesBuy
  BY DEF Inv, OrdersAreSound
<1>2. ASSUME NEW i \in Slots, ExchangeAccepts(i) PROVE Inv'
  <2>1. PICK state \in {"NEW", IF i = Maker THEN "EXPIRED" ELSE "FILLED"} :
            real' = [real EXCEPT ![i] =
                        [state |-> state,
                         cum |-> IF state = "FILLED" THEN Requested(i) ELSE 0]]
    BY <1>2 DEF ExchangeAccepts
  <2>2. Requested(i) \in 1 .. Target /\ IsOpen(i) /\ real[i] = Absent
    BY <1>1, <1>2, RequestedTypes DEF ExchangeAccepts
  <2> DEFINE order == [state |-> state,
                       cum |-> IF state = "FILLED" THEN Requested(i) ELSE 0]
  <2>3. order \in Order(Target) /\ Native(i, order) /\ real[i].cum <= order.cum
    BY <2>2, TargetAssumption
       DEF Order, OrderState, Native, IsTerminal, TerminalOrderState, Absent
  <2>4. ~IsTerminal(real[i])
    BY <2>2 DEF Absent, IsTerminal, TerminalOrderState
  <2>5. faults' \in 0 .. MaxFaults
    BY <1>1, <1>2 DEF ExchangeAccepts, Typed
  <2> HIDE DEF order
  <2>6. real' = [real EXCEPT ![i] = order]
    BY <2>1 DEF order
  <2> QED  BY <1>2, <2>2, <2>3, <2>4, <2>5, <2>6, ExchangeStep DEF ExchangeAccepts
<1>3. ASSUME NEW i \in Slots, ExchangeFills(i) PROVE Inv'
  <2>1. real[i].state \in {"NEW", "PARTIALLY_FILLED"}
    BY <1>3 DEF ExchangeFills, OpenAtExchange
  <2>2. ~IsTerminal(real[i]) /\ real[i] # Absent
    BY <2>1 DEF IsTerminal, TerminalOrderState, Absent
  <2>3. IsOpen(i) /\ Requested(i) \in 1 .. Target
    BY <1>1, <2>2, PlacedIsOpen, RequestedTypes
  <2>4. real[i].cum \in 0 .. Target /\ real[i].cum <= Requested(i)
        /\ (i # Maker => real[i].cum = 0)
    BY <1>1, <2>2, SlotTypes DEF OrdersAreRecorded, OrderIsRecorded, Native
  <2>5. PICK cum \in IF i = Maker THEN real[i].cum + 1 .. Target ELSE {Requested(i)} :
            real' = [real EXCEPT ![i] =
                        [state |-> StateAfterTrade(Requested(i), cum), cum |-> cum]]
    BY <1>3 DEF ExchangeFills
  <2> DEFINE order == [state |-> StateAfterTrade(Requested(i), cum), cum |-> cum]
  <2>6. cum \in 1 .. Requested(i) /\ real[i].cum <= cum /\ (i # Maker => cum = Requested(i))
    BY <2>3, <2>4, TargetAssumption DEF Requested
  <2>7. order \in Order(Target) /\ Native(i, order) /\ real[i].cum <= order.cum
    BY <2>3, <2>6, TargetAssumption
       DEF Order, OrderState, Native, IsTerminal, TerminalOrderState, StateAfterTrade
  <2>8. faults' \in 0 .. MaxFaults
    BY <1>1, <1>3 DEF ExchangeFills, Typed
  <2> HIDE DEF order
  <2>9. real' = [real EXCEPT ![i] = order]
    BY <2>5 DEF order
  <2> QED  BY <1>3, <2>2, <2>3, <2>7, <2>8, <2>9, ExchangeStep DEF ExchangeFills
<1>4. CASE ExchangeCancelsMaker
  <2>1. real[Maker].state \in {"NEW", "PARTIALLY_FILLED"}
    BY <1>4 DEF ExchangeCancelsMaker, OpenAtExchange
  <2>2. ~IsTerminal(real[Maker]) /\ real[Maker] # Absent
    BY <2>1 DEF IsTerminal, TerminalOrderState, Absent
  <2>3. IsOpen(Maker) /\ Native(Maker, real[Maker])
    BY <1>1, <2>2, PlacedIsOpen, MakerIsASlot DEF OrdersAreRecorded, OrderIsRecorded
  <2>4. real[Maker] \in Order(Target)
    BY <1>1, <2>2, MakerIsASlot DEF Typed, Snapshot
  <2> DEFINE order == [real[Maker] EXCEPT !.state = "CANCELED"]
  <2>5. order \in Order(Target) /\ Native(Maker, order) /\ real[Maker].cum <= order.cum
    <3>1. order.state = "CANCELED" /\ order.cum = real[Maker].cum
      BY <2>4 DEF Order
    <3>2. order \in Order(Target)
      BY <2>4 DEF Order, OrderState
    <3> HIDE DEF order
    <3> QED  BY <2>3, <2>4, <3>1, <3>2, TargetAssumption DEF Native, Order
  <2>6. faults' \in 0 .. MaxFaults
    BY <1>1, <1>4 DEF ExchangeCancelsMaker, Typed
  <2>7. real' = [real EXCEPT ![Maker] = order]
    BY <1>4 DEF ExchangeCancelsMaker
  <2> HIDE DEF order
  <2> QED
    BY <1>4, <2>2, <2>3, <2>5, <2>6, <2>7, ExchangeStep, MakerIsASlot
       DEF ExchangeCancelsMaker
<1>5. ASSUME NEW i \in Slots, ExchangeExpiresHedge(i) PROVE Inv'
  <2>1. IsOpen(i) /\ real[i].state \in {"ABSENT", "NEW"} /\ i \in Hedges
    BY <1>5 DEF ExchangeExpiresHedge
  <2>2. ~IsTerminal(real[i])
    BY <2>1 DEF IsTerminal, TerminalOrderState
  <2>3. Requested(i) \in 1 .. Target /\ i # Maker
    BY <1>1, <2>1, RequestedTypes, HedgeTypes
  <2>4. real[i].cum = 0
    BY <1>1, <2>2, <2>3 DEF OrdersAreRecorded, OrderIsRecorded, Native, Absent
  <2>5. PICK cum \in 0 .. Requested(i) - 1 :
            real' = [real EXCEPT ![i] = [state |-> "EXPIRED", cum |-> cum]]
    BY <1>5 DEF ExchangeExpiresHedge
  <2> DEFINE order == [state |-> "EXPIRED", cum |-> cum]
  <2>6. order \in Order(Target) /\ Native(i, order) /\ real[i].cum <= order.cum
    BY <2>3, <2>4, TargetAssumption
       DEF Order, OrderState, Native, IsTerminal, TerminalOrderState
  <2>7. faults' \in 0 .. MaxFaults
    BY <1>1, <1>5, EntryBoundsAssumption DEF ExchangeExpiresHedge, Fault, Typed
  <2> HIDE DEF order
  <2>8. real' = [real EXCEPT ![i] = order]
    BY <2>5 DEF order
  <2> QED  BY <1>5, <2>1, <2>2, <2>6, <2>7, <2>8, ExchangeStep DEF ExchangeExpiresHedge
<1> QED  BY <1>2, <1>3, <1>4, <1>5 DEF Exchange

-----------------------------------------------------------------------------
(* Steps of the stream and of the sweeps.                                  *)

Origin == {"NONE", "dispatch", "stream", "sweep", "startup", "retry", "failure"}

LEMMA EventTypes ==
    ASSUME NEW kind \in OrderEventKind, NEW i \in Slots, NEW from \in Origin,
           NEW ref \in Nat \cup (Nat \X Slots), NEW row \in Snapshot
    PROVE  OrderEvent(kind, i, Source(from, ref, row.state, row.cum)) \in EngineEvent
<1>1. row.state \in OrderState \cup {"ABSENT"} /\ row.cum \in 0 .. Target
  BY TargetAssumption DEF Snapshot, Order, Absent
<1>2. Source(from, ref, row.state, row.cum) \in EventSource
  BY <1>1 DEF Source, EventSource, Origin
<1> QED  BY <1>2 DEF OrderEvent, EngineEvent

LEMMA StreamEventTypes ==
    ASSUME Typed, NEW kind \in OrderEventKind, NEW i \in Slots
    PROVE  StreamEvent(kind, i) \in EngineEvent
<1>1. real[i] \in Snapshot /\ i \in Nat /\ "stream" \in Origin
  BY SlotTypes, EntryBoundsAssumption DEF Slots, Origin
<1> QED  BY <1>1, EventTypes DEF StreamEvent

(* What the open orders are swept to.                                      *)
LEMMA SweepRows ==
    ASSUME Typed, OrdersAreRecorded
    PROVE  /\ Swept \in [Slots -> Snapshot]
           /\ \A i \in Slots :
                  /\ rows[i] = Absent => Swept[i] = Absent
                  /\ Swept[i] = rows[i] \/ (/\ IsOpen(i) /\ real[i] # Absent
                                            /\ Swept[i] = real[i])
                  /\ Swept[i].state = "UNKNOWN" =>
                         rows[i].state = "UNKNOWN" /\ real[i] = Absent
<1>1. \A i \in Slots : Swept[i] = IF IsOpen(i) /\ real[i] # Absent THEN real[i] ELSE rows[i]
  BY DEF Swept
<1>2. Swept \in [Slots -> Snapshot]
  BY DEF Swept, Typed
<1>3. ASSUME NEW i \in Slots, Swept[i].state = "UNKNOWN"
      PROVE  rows[i].state = "UNKNOWN" /\ real[i] = Absent
  <2>1. real[i] # Absent => real[i].state # "UNKNOWN"
    BY DEF OrdersAreRecorded, OrderIsRecorded, Native
  <2>2. rows[i].state = "UNKNOWN" /\ ~(IsOpen(i) /\ real[i] # Absent)
    BY <1>1, <1>3, <2>1
  <2>3. IsOpen(i)
    BY <2>2 DEF IsOpen, IsTerminal, TerminalOrderState, Absent
  <2> QED  BY <2>2, <2>3
<1> QED  BY <1>1, <1>2, <1>3 DEF IsOpen

LEMMA SweepMoves ==
    ASSUME Typed, OrdersAreRecorded, rows' = Swept, UNCHANGED <<real, charged>>
    PROVE  OrdersMove
BY SweepRows DEF OrdersMove, RealMoves, RowMoves

LEMMA SweepEventTypes ==
    ASSUME Typed, OrdersAreRecorded, NEW connection \in Nat
    PROVE  SweepEvents(connection) \in Seq(EngineEvent)
<1> DEFINE open == {i \in Slots : IsOpen(i)}
<1>1. ListsBelow(open, MaxActions + 1, OpenOrders)
  BY InOrderLists DEF OpenOrders
<1>2. OpenOrders \in Seq(Nat) /\ \A n \in DOMAIN OpenOrders : OpenOrders[n] \in Slots
  BY <1>1 DEF ListsBelow
<1>3. ASSUME NEW i \in Slots
      PROVE  OrderEvent("RECONCILED", i,
                 Source("sweep", <<connection, i>>, Swept[i].state, Swept[i].cum)) \in EngineEvent
  <2>1. Swept[i] \in Snapshot /\ <<connection, i>> \in Nat \cup (Nat \X Slots)
    BY SweepRows
  <2>2. "RECONCILED" \in OrderEventKind /\ "sweep" \in Origin
    BY DEF OrderEventKind, Origin
  <2> QED  BY <2>1, <2>2, EventTypes
<1>4. \A n \in DOMAIN OpenOrders : SweepEvents(connection)[n] \in EngineEvent
  BY <1>2, <1>3 DEF SweepEvents
<1>5. DOMAIN SweepEvents(connection) = DOMAIN OpenOrders
      /\ SweepEvents(connection)
             = [n \in DOMAIN OpenOrders |-> SweepEvents(connection)[n]]
  BY DEF SweepEvents
<1> DEFINE events == SweepEvents(connection)
<1> HIDE DEF events
<1>6. DOMAIN OpenOrders = 1 .. Len(OpenOrders) /\ Len(OpenOrders) \in Nat
  BY <1>2
<1>7. events = [n \in 1 .. Len(OpenOrders) |-> events[n]]
      /\ \A n \in 1 .. Len(OpenOrders) : events[n] \in EngineEvent
  BY <1>4, <1>5, <1>6 DEF events
<1>8. events \in Seq(EngineEvent)
  BY <1>6, <1>7
<1> QED  BY <1>8 DEF events

LEMMA StreamStep ==
    ASSUME Inv, NEW i \in Slots, StreamCommits(i) \/ StreamRepeats(i)
    PROVE  Inv'
<1>1. Typed /\ OrdersAreRecorded /\ HedgesBuy
  BY DEF Inv, OrdersAreSound
<1>2. StreamEvent("TRADE", i) \in EngineEvent
      /\ StreamEvent("CANCELED", i) \in EngineEvent
      /\ StreamEvent("EXPIRED", i) \in EngineEvent
  BY <1>1, StreamEventTypes DEF OrderEventKind
<1>3. real[i] \in Snapshot /\ real[i].cum \in 0 .. Target /\ rows[i].cum \in 0 .. Target
  BY <1>1, SlotTypes
<1>4. CASE StreamCommits(i)
  <2>1. IsOpen(i) /\ real[i] # Absent /\ ~InCall(i)
    BY <1>4 DEF StreamCommits, IsNews
  <2>2. rows' = [rows EXCEPT ![i] = real[i]] /\ rows' \in [Slots -> Snapshot]
    BY <1>1, <1>3, <1>4 DEF StreamCommits, Typed
  <2>3. charged' \in [Slots -> 0 .. Target]
        /\ \A k \in Slots : charged'[k] \in {charged[k], real[k].cum}
    BY <1>1, <1>3, <1>4 DEF StreamCommits, Typed
  <2>4. queue' \in Seq(EngineEvent)
    <3> DEFINE trade == IF real[i].cum > rows[i].cum THEN <<StreamEvent("TRADE", i)>> ELSE <<>>
               end == IF real[i].state \in {"CANCELED", "EXPIRED"}
                      THEN <<StreamEvent(real[i].state, i)>> ELSE <<>>
    <3>1. trade \in Seq(EngineEvent) /\ end \in Seq(EngineEvent)
      BY <1>2
    <3>2. queue' = queue \o trade \o end /\ queue \in Seq(EngineEvent)
      BY <1>1, <1>4 DEF StreamCommits, Typed
    <3> HIDE DEF trade, end
    <3> QED  BY <3>1, <3>2
  <2>5. UNCHANGED <<session, outbox, real, worker, faults>>
    BY <1>4 DEF StreamCommits
  <2>6. Typed'
    BY <1>1, <2>2, <2>3, <2>4, <2>5 DEF Typed
  <2>7. OrdersMove
    BY <1>1, <2>1, <2>2, <2>3, <2>5 DEF OrdersMove, RealMoves, RowMoves, Typed
  <2>8. real[i].state # "UNKNOWN" /\ rows[i] # Absent
    BY <1>1, <2>1 DEF OrdersAreRecorded, OrderIsRecorded, Native, IsOpen
  <2>9. \A k \in Slots : /\ rows[k] = Absent => rows'[k] = Absent
                         /\ rows'[k].state = "UNKNOWN" => rows[k].state = "UNKNOWN"
                         /\ InCall(k) => rows'[k] = rows[k]
    BY <1>1, <2>1, <2>2, <2>8 DEF Typed
  <2> QED  BY <2>5, <2>6, <2>7, <2>9, WorldStep DEF SameWork
<1>5. CASE StreamRepeats(i)
  <2>1. queue' \in Seq(EngineEvent) /\ UNCHANGED <<session, outbox, rows, real, worker>>
    BY <1>1, <1>2, <1>5 DEF StreamRepeats, Typed
  <2>2. /\ charged' \in [Slots -> 0 .. Target]
        /\ \A k \in Slots : charged'[k] \in {charged[k], real[k].cum}
        /\ faults' \in 0 .. MaxFaults
    <3>1. faults' \in 0 .. MaxFaults
      BY <1>1, <1>5, EntryBoundsAssumption DEF StreamRepeats, Typed, Fault
    <3>2. charged' = charged \/ charged' = [charged EXCEPT ![i] = real[i].cum]
      BY <1>5 DEF StreamRepeats
    <3>3. charged \in [Slots -> 0 .. Target] /\ real[i].cum \in 0 .. Target
      BY <1>1, <1>3 DEF Typed
    <3> QED  BY <3>1, <3>2, <3>3
  <2>3. Typed'
    BY <1>1, <2>1, <2>2 DEF Typed
  <2>4. OrdersMove
    BY <1>1, <2>1, <2>2, NothingMoves
  <2> QED  BY <2>1, <2>3, <2>4, WorldStep DEF SameWork
<1> QED  BY <1>4, <1>5

LEMMA OffIsTyped == Off \in Process /\ <<>> \in Seq(EngineEvent)
<1>1. NoEvent \in EngineEvent
  <2>1. Source("NONE", 0, "ABSENT", 0) \in EventSource
    BY TargetAssumption DEF Source, EventSource
  <2> QED  BY <2>1, EntryBoundsAssumption DEF NoEvent, OrderEvent, EngineEvent, Maker, Slots
<1>2. <<>> \in Actions /\ <<>> \in Results /\ <<>> \in Commands
  BY DEF Actions, Results, Commands
<1>3. "down" \in Place /\ "recovery" \in Mode /\ Absent \in Snapshot /\ 0 \in Slots
  BY EntryBoundsAssumption DEF Place, Mode, Snapshot, Slots
<1> QED  BY <1>1, <1>2, <1>3 DEF Off, Process

LEMMA ReconnectStep ==
    ASSUME Inv, Reconnect
    PROVE  Inv'
<1>1. Typed /\ OrdersAreRecorded /\ HedgesBuy
  BY DEF Inv, OrdersAreSound
<1>2. /\ \A i \in Slots : IsOpen(i) => ~InCall(i)
      /\ rows' = Swept /\ UNCHANGED <<session, outbox, real, charged>>
      /\ faults' \in 0 .. MaxFaults
  BY <1>1, EntryBoundsAssumption DEF Reconnect, Fault, Typed
<1>3. OrdersMove /\ rows' \in [Slots -> Snapshot]
  BY <1>1, <1>2, SweepMoves, SweepRows
<1>4. CASE Unresolved
  <2>1. worker' = Off /\ queue' = <<>>
    BY <1>4 DEF Reconnect, StopProcess
  <2>2. Typed'
    BY <1>1, <1>2, <1>3, <2>1, OffIsTyped DEF Typed
  <2> QED  BY <1>2, <1>3, <2>1, <2>2, StopStep
<1>5. CASE ~Unresolved
  <2>1. queue' = queue \o SweepEvents(worker.connection + 1)
        /\ worker' = [worker EXCEPT !.connection = worker.connection + 1]
    BY <1>5 DEF Reconnect
  <2>2. worker.connection + 1 \in Nat /\ worker' \in Process /\ SameWork
    <3>1. worker.connection + 1 \in Nat /\ worker \in Process
      BY <1>1 DEF Typed, Process
    <3>2. PICK connection \in Nat : connection = worker.connection + 1
      BY <3>1
    <3>3. worker' = [worker EXCEPT !.connection = connection]
      BY <2>1, <3>2
    <3> QED  BY <3>1, <3>3 DEF Process, SameWork
  <2>3. queue' \in Seq(EngineEvent)
    BY <1>1, <2>1, <2>2, SweepEventTypes DEF Typed
  <2>4. Typed'
    BY <1>1, <1>2, <1>3, <2>2, <2>3 DEF Typed
  <2>5. \A i \in Slots : /\ rows[i] = Absent => rows'[i] = Absent
                         /\ rows'[i].state = "UNKNOWN" => rows[i].state = "UNKNOWN"
                         /\ InCall(i) => rows'[i] = rows[i]
    BY <1>1, <1>2, SweepRows
  <2> QED  BY <1>2, <1>3, <2>2, <2>4, <2>5, WorldStep
<1> QED  BY <1>4, <1>5

LEMMA CrashStep ==
    ASSUME Inv, Crash
    PROVE  Inv'
<1>1. Typed
  BY DEF Inv
<1>2. /\ worker' = Off /\ queue' = <<>>
      /\ UNCHANGED <<session, outbox, rows, real, charged>>
      /\ faults' \in 0 .. MaxFaults
  BY <1>1, EntryBoundsAssumption DEF Crash, StopProcess, Fault, Typed
<1>3. Typed'
  BY <1>1, <1>2, OffIsTyped DEF Typed
<1>4. OrdersMove
  BY <1>1, <1>2, NothingMoves
<1> QED  BY <1>2, <1>3, <1>4, StopStep

-----------------------------------------------------------------------------
(* Steps of a start, up to the resumption of the outbox.                   *)

LEMMA EarlyStep ==
    ASSUME Inv, Typed', OrdersMove, outbox' = outbox, Early', SessionIsNew',
           worker'.todo = <<>>, worker'.planned = <<>>, worker'.results = <<>>,
           worker'.mode = "recovery", worker'.action = 0,
           session' = session \/ outbox = <<>>,
           \/ worker'.at = "sync"
           \/ \A i \in Hedges : rows'[i].state # "UNKNOWN"
    PROVE  Inv'
<1> USE DEF Inv, OrdersAreSound, WorkerIsPlaced, DispatchIsOrdered
<1>1. OutboxMoves /\ \A i \in DOMAIN outbox : Unfinished(i)' = Unfinished(i)
  BY DEF OutboxMoves, Unfinished
<1>2. OrdersAreSound'
  BY <1>1, OrdersStaySound
<1>3. Hedges' = Hedges
  BY DEF Hedges
<1>4. worker'.at \in {"down", "sync", "submit", "save", "resume"}
      \/ (worker'.at = "await" /\ Submission')
  BY DEF Early, Submission
<1>5. Ahead' = <<>>
  BY DEF Ahead
<1>6. EarlyIsClean' /\ ActionIsUnderWay' /\ PlansAreSeparate' /\ MakerIsRead'
      /\ CommandsAreCovered' /\ ResumptionIsClean'
  BY <1>4 DEF EarlyIsClean, ActionIsUnderWay, PlansAreSeparate, MakerIsRead,
              CommandsAreCovered, ResumptionIsClean
<1>7. \A i \in Hedges : i # 0
  BY HedgeTypes DEF Maker
<1>8. AheadIsSaved' /\ HedgesAreLast' /\ SentIsFinished'
  BY <1>3, <1>5, <1>7 DEF AheadIsSaved, HedgesAreLast, SentIsFinished, Working
<1>9. UnknownIsLeft'
  BY <1>3, <1>4 DEF UnknownIsLeft
<1>10. \A i : Opening(i)' = Opening(i)
  BY DEF Opening, Unfinished
<1>11. OpeningsComeFirst'
  BY <1>1, <1>3, <1>10 DEF OpeningsComeFirst, Hedges
<1>12. FailureIsLast'
  BY <1>1, <1>3, <1>10 DEF FailureIsLast, Hedges
<1> QED  BY <1>2, <1>6, <1>8, <1>9, <1>11, <1>12

LEMMA InitialStatusTypes ==
    ASSUME NEW maker
    PROVE  InitialStatus(maker) \in SessionStatus \ {"NONE"}
BY DEF InitialStatus, SessionStatus

LEMMA PlaceTypes ==
    ASSUME NEW w \in Process, NEW at \in Place
    PROVE  /\ [w EXCEPT !.at = at] \in Process
           /\ [w EXCEPT !.at = at, !.connection = 1] \in Process
           /\ \A maker \in Snapshot : [w EXCEPT !.at = at, !.maker = maker] \in Process
           /\ \A results \in Results : [w EXCEPT !.at = at, !.results = results] \in Process
BY DEF Process

LEMMA StartStep ==
    ASSUME Inv, Start
    PROVE  Inv'
<1>1. Typed /\ OrdersAreRecorded /\ EarlyIsClean /\ SessionIsNew
  BY DEF Inv, OrdersAreSound, WorkerIsPlaced
<1>2. /\ worker.at = "down" /\ UNCHANGED <<outbox, rows, real, charged, queue, faults>>
      /\ worker' = [worker EXCEPT !.at = "sync", !.connection = 1]
      /\ session' = session \/ (session = "NONE" /\ session' \in SessionStatus \ {"NONE"})
  BY InitialStatusTypes DEF Start
<1>3. worker \in Process /\ "sync" \in Place
  BY <1>1 DEF Typed, Place
<1>4. /\ worker'.at = "sync" /\ worker'.todo = worker.todo
      /\ worker'.planned = worker.planned /\ worker'.results = worker.results
      /\ worker'.mode = worker.mode /\ worker'.action = worker.action
  BY <1>2, <1>3 DEF Process
<1>5. /\ worker.todo = <<>> /\ worker.planned = <<>> /\ worker.results = <<>>
      /\ worker.mode = "recovery" /\ worker.action = 0
  BY <1>1, <1>2 DEF EarlyIsClean, Early
<1>6. Typed'
  <2>1. worker' \in Process
    BY <1>2, <1>3, PlaceTypes
  <2> QED  BY <1>1, <1>2, <2>1 DEF Typed
<1>7. OrdersMove
  BY <1>1, <1>2, NothingMoves
<1>8. Early' /\ ~Submission'
  BY <1>4 DEF Early, Submission
<1>9. SessionIsNew' /\ (session' = session \/ outbox = <<>>)
  BY <1>1, <1>2, <1>4, <1>8 DEF SessionIsNew
<1> QED  BY <1>2, <1>4, <1>5, <1>6, <1>7, <1>8, <1>9, EarlyStep

LEMMA SynchronizeStep ==
    ASSUME Inv, Synchronize
    PROVE  Inv'
<1>1. Typed /\ OrdersAreRecorded /\ HedgesBuy /\ EarlyIsClean /\ SessionIsNew
  BY DEF Inv, OrdersAreSound, WorkerIsPlaced
<1>2. worker.at = "sync" /\ rows' = Swept /\ UNCHANGED <<session, outbox, real, charged, faults>>
  BY DEF Synchronize
<1>3. OrdersMove /\ rows' \in [Slots -> Snapshot]
  BY <1>1, <1>2, SweepMoves, SweepRows
<1>4. CASE Unresolved
  <2>1. worker' = Off /\ queue' = <<>>
    BY <1>4 DEF Synchronize, StopProcess
  <2>2. Typed'
    BY <1>1, <1>2, <1>3, <2>1, OffIsTyped DEF Typed
  <2> QED  BY <1>2, <1>3, <2>1, <2>2, StopStep
<1>5. CASE ~Unresolved
  <2> DEFINE at == IF session = "NONE" THEN "submit" ELSE "resume"
  <2>1. queue' = SweepEvents(1) /\ worker' = [worker EXCEPT !.at = at]
    BY <1>5 DEF Synchronize
  <2>2. worker \in Process /\ at \in Place
    BY <1>1 DEF Typed, Place
  <2>3. /\ worker'.at = at /\ worker'.todo = worker.todo
        /\ worker'.planned = worker.planned /\ worker'.results = worker.results
        /\ worker'.mode = worker.mode /\ worker'.action = worker.action
    <3> HIDE DEF at
    <3> QED  BY <2>1, <2>2 DEF Process
  <2>4. Typed'
    <3>1. worker' \in Process
      <4> HIDE DEF at
      <4> QED  BY <2>1, <2>2, PlaceTypes
    <3>2. queue' \in Seq(EngineEvent)
      BY <1>1, <2>1, SweepEventTypes
    <3> QED  BY <1>1, <1>2, <1>3, <3>1, <3>2 DEF Typed
  <2>5. /\ worker.todo = <<>> /\ worker.planned = <<>> /\ worker.results = <<>>
        /\ worker.mode = "recovery" /\ worker.action = 0
    BY <1>1, <1>2 DEF EarlyIsClean, Early
  <2>6. Early' /\ SessionIsNew'
    BY <1>1, <1>2, <2>3 DEF SessionIsNew, Early, Submission
  <2>7. \A i \in Hedges : rows'[i].state # "UNKNOWN"
    <3> SUFFICES ASSUME NEW i \in Hedges, rows'[i].state = "UNKNOWN" PROVE FALSE
      OBVIOUS
    <3>1. i \in Slots /\ rows[i].state = "UNKNOWN" /\ real[i] = Absent
      BY <1>1, <1>2, HedgeTypes, SweepRows
    <3>2. IsOpen(i)
      BY <3>1 DEF IsOpen, IsTerminal, TerminalOrderState, Absent
    <3> QED  BY <1>5, <3>1, <3>2 DEF Unresolved
  <2> QED  BY <1>2, <1>3, <2>3, <2>4, <2>5, <2>6, <2>7, EarlyStep
<1> QED  BY <1>4, <1>5

(* While there is no session there is no outbox: the maker is all there is.*)
LEMMA SubmitMakerStep ==
    ASSUME Inv, SubmitMaker
    PROVE  Inv'
<1>1. Typed /\ EarlyIsClean /\ SessionIsNew
  BY DEF Inv, WorkerIsPlaced
<1> DEFINE sent == [state |-> "SUBMITTING", cum |-> 0]
<1>2. /\ worker.at = "submit" /\ rows' = [rows EXCEPT ![Maker] = sent]
      /\ worker' = [worker EXCEPT !.at = "await"]
      /\ UNCHANGED <<session, outbox, real, charged, queue, faults>>
  BY DEF SubmitMaker
<1>3. sent \in Snapshot
  BY TargetAssumption DEF Snapshot, Order, OrderState
<1>4. rows' \in [Slots -> Snapshot] /\ rows'[Maker] = sent
      /\ \A i \in Slots : i # Maker => rows'[i] = rows[i]
  BY <1>1, <1>2, <1>3, MakerIsASlot DEF Typed
<1>5. OrdersMove
  BY <1>2, <1>4 DEF OrdersMove, RealMoves, RowMoves
<1>6. worker \in Process /\ "await" \in Place
  BY <1>1 DEF Typed, Place
<1>7. /\ worker'.at = "await" /\ worker'.todo = worker.todo
      /\ worker'.planned = worker.planned /\ worker'.results = worker.results
      /\ worker'.mode = worker.mode /\ worker'.action = worker.action
  BY <1>2, <1>6 DEF Process
<1>8. Typed'
  <2>1. worker' \in Process
    BY <1>2, <1>6, PlaceTypes
  <2> QED  BY <1>1, <1>2, <1>4, <2>1 DEF Typed
<1>9. /\ worker.todo = <<>> /\ worker.planned = <<>> /\ worker.results = <<>>
      /\ worker.mode = "recovery" /\ worker.action = 0
  BY <1>1, <1>2 DEF EarlyIsClean, Early
<1>10. session = "NONE" /\ outbox = <<>>
  BY <1>1, <1>2 DEF SessionIsNew
<1>11. Early' /\ SessionIsNew'
  BY <1>2, <1>4, <1>7, <1>9, <1>10 DEF SessionIsNew, Early, Submission
<1>12. \A i \in Hedges : rows'[i].state # "UNKNOWN"
  BY <1>10 DEF Hedges
<1> QED  BY <1>2, <1>5, <1>7, <1>8, <1>9, <1>11, <1>12, EarlyStep

LEMMA SaveSessionStep ==
    ASSUME Inv, SaveSession
    PROVE  Inv'
<1>1. Typed /\ EarlyIsClean /\ SessionIsNew
  BY DEF Inv, WorkerIsPlaced
<1>2. /\ worker.at = "save" /\ session' \in SessionStatus \ {"NONE"}
      /\ worker' = [worker EXCEPT !.at = "resume", !.maker = Absent]
      /\ UNCHANGED <<outbox, rows, real, charged, queue, faults>>
  BY InitialStatusTypes DEF SaveSession
<1>3. worker \in Process /\ "resume" \in Place /\ Absent \in Snapshot
  BY <1>1 DEF Typed, Place, Snapshot
<1>4. /\ worker'.at = "resume" /\ worker'.todo = worker.todo
      /\ worker'.planned = worker.planned /\ worker'.results = worker.results
      /\ worker'.mode = worker.mode /\ worker'.action = worker.action
  BY <1>2, <1>3 DEF Process
<1>5. Typed'
  <2>1. worker' \in Process
    BY <1>2, <1>3, PlaceTypes
  <2> QED  BY <1>1, <1>2, <2>1 DEF Typed
<1>6. OrdersMove
  BY <1>1, <1>2, NothingMoves
<1>7. /\ worker.todo = <<>> /\ worker.planned = <<>> /\ worker.results = <<>>
      /\ worker.mode = "recovery" /\ worker.action = 0
  BY <1>1, <1>2 DEF EarlyIsClean, Early
<1>8. session = "NONE" /\ outbox = <<>>
  BY <1>1, <1>2 DEF SessionIsNew
<1>9. Early' /\ SessionIsNew'
  BY <1>2, <1>4 DEF SessionIsNew, Early, Submission
<1>10. \A i \in Hedges : rows'[i].state # "UNKNOWN"
  BY <1>8 DEF Hedges
<1> QED  BY <1>2, <1>4, <1>5, <1>6, <1>7, <1>8, <1>9, <1>10, EarlyStep

-----------------------------------------------------------------------------
(* Steps that leave the worker between two plans or dispatches.            *)

LEMMA GoesPlaced ==
    ASSUME Goes(worker'), session' # "NONE"
    PROVE  /\ WorkerIsPlaced' /\ Ahead' = worker'.todo /\ ~Early'
           /\ \A i : ~Working(i)'
<1>1. /\ worker' \in Process /\ worker'.at \in {"plan", "dispatch", "startup", "idle"}
      /\ worker'.planned = <<>>
  BY DEF Goes
<1>2. ~Early' /\ ~Submission' /\ \A i : ~Working(i)'
  BY <1>1 DEF Early, Submission, Working
<1>3. Ahead' = worker'.todo
  <2>1. worker'.todo \in Seq(1 .. MaxActions)
    BY <1>1 DEF Process, Actions
  <2>2. worker'.todo \o <<>> = worker'.todo
    BY <2>1
  <2> QED  BY <1>1, <2>2 DEF Ahead
<1>4. /\ EarlyIsClean' /\ SessionIsNew' /\ ActionIsUnderWay' /\ MakerIsRead'
      /\ CommandsAreCovered' /\ ResumptionIsClean'
  BY <1>1, <1>2 DEF EarlyIsClean, SessionIsNew, ActionIsUnderWay, MakerIsRead,
                    CommandsAreCovered, ResumptionIsClean
<1>5. PlansAreSeparate'
  BY <1>1 DEF PlansAreSeparate, Goes
<1> QED  BY <1>2, <1>3, <1>4, <1>5 DEF WorkerIsPlaced

(* The orders and the outbox stay, and what is ahead stays ahead.          *)
LEMMA GoesOnStep ==
    ASSUME Inv, Typed', UNCHANGED <<outbox, rows, real>>,
           \A i \in Slots : charged'[i] \in {charged[i], real[i].cum},
           Goes(worker'), worker'.todo = Ahead,
           ~Early, worker.at \notin {"execute", "await", "finish"},
           worker.mode = "recovery" => worker'.mode = "recovery" \/ worker.todo = <<>>,
           \/ session' = session
           \/ session' \in {"PAUSED", "RECOVERING"}
           \/ session' \in ActiveStatus /\ session \in ActiveStatus
           \/ /\ session' \in ActiveStatus
              /\ \A i \in Hedges : outbox[i].status = "COMPLETED"
    PROVE  Inv'
<1> USE DEF Inv, OrdersAreSound, WorkerIsPlaced, DispatchIsOrdered
<1>1. OutboxMoves /\ OrdersMove
  BY NothingMoves
<1>2. OrdersAreSound'
  BY <1>1, OrdersStaySound
<1>3. session' # "NONE"
  BY DEF SessionIsNew, ActiveStatus
<1>4. WorkerIsPlaced' /\ Ahead' = Ahead /\ ~Early' /\ \A i : ~Working(i)'
  BY <1>3, GoesPlaced
<1>5. \A i : ~Working(i)
  BY DEF Working
<1>6. Hedges' = Hedges /\ \A i : Unfinished(i)' = Unfinished(i) /\ Opening(i)' = Opening(i)
                                 /\ Live(i)' = Live(i)
  BY DEF Hedges, Unfinished, Opening, Live, IsOpen
<1>7. worker'.at \in {"plan", "dispatch", "startup", "idle"} /\ worker'.planned = <<>>
  BY DEF Goes
<1>8. AheadIsSaved'
  BY <1>4 DEF AheadIsSaved
<1>9. SentIsFinished'
  <2>1. \A i \in Hedges : outbox[i].status = "COMPLETED" => ~Unfinished(i)
    BY DEF Unfinished
  <2>2. CASE session \notin ActiveStatus
    BY <1>6, <2>1, <2>2 DEF SentIsFinished, ActiveStatus
  <2>3. CASE session \in ActiveStatus
    <3> SUFFICES ASSUME NEW i \in Hedges, Unfinished(i), rows[i] # Absent
                 PROVE  /\ worker'.mode = "recovery"
                        /\ \E n \in DOMAIN worker'.todo : worker'.todo[n] = i
      BY <1>6 DEF SentIsFinished
    <3>1. worker.mode = "recovery" /\ \E n \in DOMAIN worker.todo : worker.todo[n] = i
      BY <1>5, <2>3 DEF SentIsFinished
    <3>2. worker.planned = <<>>
      BY <3>1 DEF PlansAreSeparate
    <3>3. worker.todo \in Seq(1 .. MaxActions)
      BY DEF Typed, Process, Actions
    <3>4. worker'.todo = worker.todo
      BY <3>2, <3>3 DEF Ahead
    <3> QED  BY <3>1, <3>4
  <2> QED  BY <2>2, <2>3
<1>10. HedgesAreLast'
  BY <1>4, <1>6 DEF HedgesAreLast
<1>11. OpeningsComeFirst'
  BY <1>4, <1>5, <1>6 DEF OpeningsComeFirst
<1>12. FailureIsLast'
  BY <1>6 DEF FailureIsLast, ActiveStatus
<1>13. UnknownIsLeft'
  BY <1>4, <1>6, <1>7 DEF UnknownIsLeft, Early
<1> QED  BY <1>2, <1>4, <1>8, <1>9, <1>10, <1>11, <1>12, <1>13

LEMMA Concatenation ==
    ASSUME NEW a \in Actions, NEW b \in Actions, NEW x \in 1 .. MaxActions
    PROVE  a \o b \in Actions /\ a \o Append(b, x) = Append(a \o b, x)
<1> DEFINE S == 1 .. MaxActions
           left == a \o Append(b, x)
           right == Append(a \o b, x)
<1>0. a \in Seq(S) /\ b \in Seq(S) /\ x \in S
  BY DEF Actions
<1> HIDE DEF S
<1>1. a \o b \in Seq(S) /\ Len(a \o b) = Len(a) + Len(b)
  BY <1>0
<1>2. left \in Seq(S) /\ Len(left) = Len(a) + Len(b) + 1
  BY <1>0
<1>3. right \in Seq(S) /\ Len(right) = Len(a) + Len(b) + 1
  BY <1>0, <1>1
<1>4. Len(a) \in Nat /\ Len(b) \in Nat
  BY <1>0
<1>5. \A n \in 1 .. Len(a) + Len(b) + 1 : left[n] = right[n]
  <2> SUFFICES ASSUME NEW n \in 1 .. Len(a) + Len(b) + 1 PROVE left[n] = right[n]
    OBVIOUS
  <2>1. CASE n \in 1 .. Len(a)
    BY <1>0, <1>4, <2>1
  <2>2. CASE n \in Len(a) + 1 .. Len(a) + Len(b)
    BY <1>0, <1>4, <2>2
  <2>3. CASE n = Len(a) + Len(b) + 1
    BY <1>0, <1>4, <2>3
  <2> QED  BY <2>1, <2>2, <2>3, <1>4
<1>6. left = right
  <2> HIDE DEF left, right
  <2> QED  BY <1>2, <1>3, <1>5
<1> QED  BY <1>1, <1>6 DEF S, Actions

LEMMA AheadOfTodo ==
    ASSUME Typed
    PROVE  /\ worker.todo \in Seq(1 .. MaxActions) /\ worker.planned \in Seq(1 .. MaxActions)
           /\ Ahead \in Seq(1 .. MaxActions)
           /\ worker.planned = <<>> => Ahead = worker.todo
<1>1. worker.todo \in Seq(1 .. MaxActions) /\ worker.planned \in Seq(1 .. MaxActions)
  BY DEF Typed, Process, Actions
<1>2. worker.todo \o <<>> = worker.todo
  BY <1>1
<1>3. worker.todo \o worker.planned \in Seq(1 .. MaxActions)
  <2> DEFINE S == 1 .. MaxActions
  <2> HIDE DEF S
  <2>1. worker.todo \in Seq(S) /\ worker.planned \in Seq(S)
    BY <1>1 DEF S
  <2>2. worker.todo \o worker.planned \in Seq(S)
    BY <2>1
  <2> QED  BY <2>2 DEF S
<1> QED  BY <1>1, <1>2, <1>3 DEF Ahead

LEMMA HedgeSlots ==
    ASSUME Typed, NEW i \in Hedges
    PROVE  i \in Slots /\ i # Maker /\ i \in DOMAIN outbox /\ i \in 1 .. MaxActions
<1>1. DOMAIN outbox = 1 .. Len(outbox) /\ Len(outbox) \in Nat /\ Len(outbox) <= MaxActions
  BY DEF Typed
<1> QED  BY <1>1, EntryBoundsAssumption DEF Hedges, Slots, Maker

LEMMA HedgeSlotsNext ==
    ASSUME Typed', NEW i \in Hedges'
    PROVE  i \in Slots /\ i # Maker /\ i \in DOMAIN outbox' /\ i \in 1 .. MaxActions
<1>1. /\ DOMAIN outbox' = 1 .. Len(outbox') /\ Len(outbox') \in Nat
      /\ Len(outbox') <= MaxActions
  BY DEF Typed
<1> QED  BY <1>1, EntryBoundsAssumption DEF Hedges, Slots, Maker

(* A plan starts from an event: nothing is ahead then.                     *)
LEMMA PlanGoes ==
    ASSUME Inv, worker.at \in {"startup", "idle"}, NEW event \in EngineEvent,
           Plan(event)
    PROVE  /\ worker' \in Process /\ Goes(worker') /\ worker'.todo = Ahead /\ ~Early
           /\ worker.todo = <<>>
<1>1. Typed /\ PlansAreSeparate
  BY DEF Inv, WorkerIsPlaced
<1>2. /\ worker \in Process /\ worker.todo = <<>> /\ worker.planned = <<>>
      /\ worker.results = <<>>
  BY <1>1 DEF Typed, PlansAreSeparate
<1>3. worker' \in Process
  <2>1. "plan" \in Place /\ "events" \in Mode
    BY DEF Place, Mode
  <2> QED  BY <1>2, <2>1 DEF Plan, Process
<1>4. /\ worker'.at = "plan" /\ worker'.mode = "events" /\ worker'.todo = worker.todo
      /\ worker'.planned = worker.planned /\ worker'.results = worker.results
  BY <1>2 DEF Plan, Process
<1>5. Goes(worker')
  BY <1>2, <1>3, <1>4 DEF Goes
<1>6. worker'.todo = Ahead
  BY <1>1, <1>2, <1>4, AheadOfTodo
<1> QED  BY <1>2, <1>3, <1>5, <1>6 DEF Early, Submission

LEMMA MakerEventTypes ==
    ASSUME Typed, NEW from \in Origin
    PROVE  OrderEvent("RECONCILED", Maker, Source(from, 0, rows[Maker].state, rows[Maker].cum))
               \in EngineEvent
<1>1. rows[Maker] \in Snapshot /\ "RECONCILED" \in OrderEventKind /\ 0 \in Nat
  BY MakerIsASlot, SlotTypes DEF OrderEventKind
<1> QED  BY <1>1, MakerIsASlot, EventTypes

LEMMA PlanStep ==
    ASSUME Inv, PlanStartup \/ TakeEvent \/ RetryFills
    PROVE  Inv'
<1>1. Typed
  BY DEF Inv
<1>2. "startup" \in Origin /\ "retry" \in Origin
  BY DEF Origin
<1>3. /\ worker.at \in {"startup", "idle"}
      /\ \E event \in EngineEvent : Plan(event)
      /\ UNCHANGED <<session, outbox, rows, real, charged, faults>>
      /\ queue' \in Seq(EngineEvent)
  <2>1. CASE PlanStartup
    BY <1>1, <1>2, <2>1, MakerEventTypes DEF PlanStartup, Typed
  <2>2. CASE RetryFills
    BY <1>1, <1>2, <2>2, MakerEventTypes DEF RetryFills, Typed
  <2>3. CASE TakeEvent
    <3>1. queue \in Seq(EngineEvent) /\ queue # <<>>
      BY <1>1, <2>3 DEF TakeEvent, Typed
    <3>2. Head(queue) \in EngineEvent /\ Tail(queue) \in Seq(EngineEvent)
      BY <3>1
    <3> QED  BY <2>3, <3>2 DEF TakeEvent
  <2> QED  BY <2>1, <2>2, <2>3
<1>4. /\ worker' \in Process /\ Goes(worker') /\ worker'.todo = Ahead /\ ~Early
      /\ worker.todo = <<>>
  BY <1>3, PlanGoes
<1>5. Typed'
  BY <1>1, <1>3, <1>4 DEF Typed
<1> QED  BY <1>3, <1>4, <1>5, GoesOnStep

-----------------------------------------------------------------------------
(* Steps of a plan.                                                        *)

LEMMA EndPlanStep ==
    ASSUME Inv, worker.at \in {"plan", "decide", "activate", "halt"},
           worker' = EndPlan(worker), UNCHANGED <<outbox, rows, real, queue, faults>>,
           charged' \in [Slots -> 0 .. Target],
           \A i \in Slots : charged'[i] \in {charged[i], real[i].cum},
           \/ session' = session
           \/ session' = "PAUSED"
           \/ session' = "HEDGING" /\ session \in ActiveStatus
    PROVE  Inv'
<1>1. Typed /\ PlansAreSeparate
  BY DEF Inv, WorkerIsPlaced
<1>2. /\ worker \in Process /\ worker.mode # "recovery"
      /\ worker.mode # "events" => worker.results = <<>>
  BY <1>1 DEF Typed, PlansAreSeparate
<1>3. Goes(worker') /\ worker'.todo = Ahead
  BY <1>2, EndPlanGoes DEF Ahead
<1>4. Typed'
  <2>1. session' \in SessionStatus
    BY <1>1 DEF Typed, SessionStatus
  <2>2. worker' \in Process
    BY <1>3 DEF Goes
  <2> QED  BY <1>1, <2>1, <2>2 DEF Typed
<1>5. ~Early /\ worker.at \notin {"execute", "await", "finish"}
  BY DEF Early, Submission
<1>6. \/ session' = session
      \/ session' \in {"PAUSED", "RECOVERING"}
      \/ session' \in ActiveStatus /\ session \in ActiveStatus
  BY DEF ActiveStatus
<1> QED  BY <1>2, <1>3, <1>4, <1>5, <1>6, GoesOnStep

(* A plan goes on: the orders, the outbox and the session stay.            *)
LEMMA PlanGoesOnStep ==
    ASSUME Inv, Typed', UNCHANGED <<session, outbox, rows, real>>,
           \A i \in Slots : charged'[i] \in {charged[i], real[i].cum},
           worker.at \in {"plan", "decide"}, worker'.at \in {"decide", "persist"},
           worker'.todo = worker.todo, worker'.planned = worker.planned,
           worker'.results = worker.results, worker'.mode # "recovery",
           worker'.mode # "events" => worker.results = <<>>,
           worker'.at = "decide" => worker'.event = worker.event,
           worker'.at = "persist" => worker'.commands # <<>>,
           MakerIsRead', CommandsAreCovered'
    PROVE  Inv'
<1> USE DEF Inv, OrdersAreSound, WorkerIsPlaced, DispatchIsOrdered
<1>1. OutboxMoves /\ OrdersMove
  BY NothingMoves
<1>2. OrdersAreSound'
  BY <1>1, OrdersStaySound
<1>3. Hedges' = Hedges /\ \A i : Unfinished(i)' = Unfinished(i) /\ Opening(i)' = Opening(i)
                                 /\ Live(i)' = Live(i)
  BY DEF Hedges, Unfinished, Opening, Live, IsOpen
<1>4. ~Early /\ ~Early' /\ ~Submission' /\ Ahead' = Ahead
  BY DEF Early, Submission, Ahead
<1>5. \A i : ~Working(i) /\ ~Working(i)'
  BY DEF Working
<1>6. worker.mode # "recovery" /\ worker.planned = <<>>
  BY DEF PlansAreSeparate
<1>7. /\ EarlyIsClean' /\ ActionIsUnderWay' /\ ResumptionIsClean'
  BY <1>4 DEF EarlyIsClean, ActionIsUnderWay, ResumptionIsClean
<1>8. SessionIsNew'
  BY <1>4 DEF SessionIsNew
<1>9. PlansAreSeparate'
  BY <1>6 DEF PlansAreSeparate
<1>10. AheadIsSaved' /\ HedgesAreLast' /\ OpeningsComeFirst' /\ FailureIsLast'
  BY <1>3, <1>4, <1>5 DEF AheadIsSaved, HedgesAreLast, OpeningsComeFirst, FailureIsLast
<1>11. SentIsFinished'
  BY <1>3, <1>4, <1>5, <1>6 DEF SentIsFinished
<1>12. UnknownIsLeft'
  BY <1>3, <1>4 DEF UnknownIsLeft
<1> QED  BY <1>2, <1>7, <1>8, <1>9, <1>10, <1>11, <1>12

LEMMA FillsSeenTypes ==
    ASSUME Typed, NEW visible \in BOOLEAN, charged' = FillsSeen(visible)
    PROVE  /\ charged' \in [Slots -> 0 .. Target]
           /\ \A i \in Slots : charged'[i] \in {charged[i], real[i].cum}
<1>1. \A i \in Slots : charged'[i] \in {charged[i], real[i].cum}
  BY DEF FillsSeen
<1>2. \A i \in Slots : charged'[i] \in 0 .. Target
  BY <1>1, SlotTypes
<1>3. charged' = [i \in Slots |-> charged'[i]]
  BY DEF FillsSeen
<1> QED  BY <1>1, <1>2, <1>3

LEMMA BeginPlanStep ==
    ASSUME Inv, BeginPlan
    PROVE  Inv'
<1>1. Typed /\ PlansAreSeparate /\ OrdersAreRecorded
  BY DEF Inv, WorkerIsPlaced, OrdersAreSound
<1>2. /\ worker.at = "plan" /\ UNCHANGED <<session, outbox, rows, real, queue, faults>>
      /\ \E visible \in BOOLEAN : charged' = FillsSeen(visible)
  BY DEF BeginPlan
<1>3. /\ charged' \in [Slots -> 0 .. Target]
      /\ \A i \in Slots : charged'[i] \in {charged[i], real[i].cum}
  BY <1>1, <1>2, FillsSeenTypes
<1>4. CASE worker' = EndPlan(worker)
  BY <1>2, <1>3, <1>4, EndPlanStep
<1>5. CASE worker' = [worker EXCEPT !.at = "decide", !.maker = rows[Maker]]
  <2>1. worker \in Process /\ "decide" \in Place /\ rows[Maker] \in Snapshot
    BY <1>1, MakerIsASlot, SlotTypes DEF Typed, Place
  <2>2. worker' \in Process
    BY <1>5, <2>1, PlaceTypes
  <2>3. /\ worker'.at = "decide" /\ worker'.maker = rows[Maker]
        /\ worker'.todo = worker.todo /\ worker'.planned = worker.planned
        /\ worker'.results = worker.results /\ worker'.mode = worker.mode
        /\ worker'.event = worker.event
    BY <1>5, <2>1 DEF Process
  <2>4. Typed'
    BY <1>1, <1>2, <1>3, <2>2 DEF Typed
  <2>5. MakerIsRead' /\ CommandsAreCovered'
    <3>1. rows[Maker].cum <= real[Maker].cum
      BY <1>1, MakerIsASlot DEF OrdersAreRecorded, OrderIsRecorded
    <3> QED  BY <1>2, <2>3, <3>1 DEF MakerIsRead, CommandsAreCovered
  <2>6. worker.mode # "recovery" /\ (worker.mode # "events" => worker.results = <<>>)
    BY <1>1, <1>2 DEF PlansAreSeparate
  <2> QED  BY <1>2, <1>3, <2>3, <2>4, <2>5, <2>6, PlanGoesOnStep
<1> QED  BY <1>4, <1>5 DEF BeginPlan

LEMMA IgnoreEventStep ==
    ASSUME Inv, IgnoreEvent
    PROVE  Inv'
<1>1. Typed
  BY DEF Inv
<1>2. /\ worker.at = "plan" /\ worker' = EndPlan(worker)
      /\ UNCHANGED <<session, outbox, rows, real, charged, queue, faults>>
  BY DEF IgnoreEvent
<1> QED  BY <1>1, <1>2, EndPlanStep DEF Typed

LEMMA ActivateStep ==
    ASSUME Inv, Activate \/ Halt
    PROVE  Inv'
<1>1. Typed /\ PlansAreSeparate
  BY DEF Inv, WorkerIsPlaced
<1>2. /\ worker.at \in {"activate", "halt"} /\ worker' = EndPlan(worker)
      /\ UNCHANGED <<outbox, rows, real, charged, queue, faults>>
      /\ \/ session' = "PAUSED"
         \/ session' = "HEDGING" /\ session \in ActiveStatus
  BY <1>1 DEF Activate, Halt, PlansAreSeparate, ActiveStatus
<1> QED  BY <1>1, <1>2, EndPlanStep DEF Typed

LEMMA DecideEventStep ==
    ASSUME Inv, DecideEvent
    PROVE  Inv'
<1>1. Typed /\ PlansAreSeparate
  BY DEF Inv, WorkerIsPlaced
<1>2. /\ worker.at = "decide"
      /\ UNCHANGED <<session, outbox, rows, real, charged, queue, faults>>
  BY DEF DecideEvent
<1>3. PICK price \in Prices :
          worker' = IF Decide(Context(price)) = <<>> THEN EndPlan(worker)
                    ELSE [worker EXCEPT !.at = "persist", !.commands = Decide(Context(price))]
  BY DEF DecideEvent
<1> DEFINE commands == Decide(Context(price))
<1>4. CASE commands = <<>>
  <2>1. worker' = EndPlan(worker)
    BY <1>3, <1>4
  <2> QED  BY <1>1, <1>2, <2>1, EndPlanStep DEF Typed
<1>5. CASE commands # <<>>
  <2>1. /\ commands \in Commands
        /\ \A n \in DOMAIN commands :
               commands[n].kind \in {"SUBMIT_HEDGE", "MARK_OPEN"} =>
                   /\ n = Len(commands)
                   /\ session \in ActiveStatus
                   /\ \A i \in Hedges : ~Live(i)
                   /\ commands[n].kind = "SUBMIT_HEDGE" =>
                          /\ commands[n].quantity > 0
                          /\ Claimed + commands[n].quantity <= real[Maker].cum
    BY <1>2, DecisionIsSound DEF Inv, OrdersAreSound, WorkerIsPlaced, DispatchIsOrdered
  <2>2. worker' = [worker EXCEPT !.at = "persist", !.commands = commands]
    BY <1>3, <1>5
  <2> HIDE DEF commands
  <2>3. worker \in Process /\ "persist" \in Place
    BY <1>1 DEF Typed, Place
  <2>4. worker' \in Process
    BY <2>1, <2>2, <2>3 DEF Process
  <2>5. /\ worker'.at = "persist" /\ worker'.commands = commands
        /\ worker'.todo = worker.todo /\ worker'.planned = worker.planned
        /\ worker'.results = worker.results /\ worker'.mode = worker.mode
    BY <2>2, <2>3 DEF Process
  <2>6. Typed'
    BY <1>1, <1>2, <2>4 DEF Typed
  <2>7. Hedges' = Hedges /\ Claimed' = Claimed /\ \A i : Live(i)' = Live(i)
    BY <1>2 DEF Hedges, Claimed, Claim, Live, Unfinished, IsOpen, Requested
  <2>8. CommandsAreCovered'
    BY <1>2, <2>1, <2>5, <2>7 DEF CommandsAreCovered
  <2>9. MakerIsRead'
    BY <2>5 DEF MakerIsRead
  <2>10. worker.mode # "recovery" /\ (worker.mode # "events" => worker.results = <<>>)
    BY <1>1, <1>2 DEF PlansAreSeparate
  <2>11. \A i \in Slots : charged'[i] \in {charged[i], real[i].cum}
    BY <1>2
  <2> QED  BY <1>2, <1>5, <2>5, <2>6, <2>8, <2>9, <2>10, <2>11, PlanGoesOnStep
<1> QED  BY <1>4, <1>5

(* What stops an entry neither hedges nor opens.                           *)
LEMMA StopCommandsTypes ==
    /\ StopCommands \in Commands /\ StopCommands # <<>>
    /\ \A n \in DOMAIN StopCommands :
           StopCommands[n].kind \notin {"SUBMIT_HEDGE", "MARK_OPEN"}
<1>1. \A command \in Quiet : /\ command \in PolicyCommand
                             /\ command.kind \notin {"SUBMIT_HEDGE", "MARK_OPEN"}
  BY TargetAssumption DEF Quiet, Command, PolicyCommand, CommandKind
<1>2. /\ Command("CANCEL_MAKER") \in Quiet /\ Command("RECONCILE") \in Quiet
      /\ Command("PAUSE") \in Quiet
  BY DEF Quiet
<1> DEFINE pause == <<Command("PAUSE")>>
           cancel == IF IsTerminal(rows[Maker]) THEN <<>> ELSE <<Command("CANCEL_MAKER")>>
           look == <<Command("RECONCILE")>>
<1>3. /\ pause \in Seq(Quiet) /\ Len(pause) = 1 /\ cancel \in Seq(Quiet)
      /\ look \in Seq(Quiet)
  BY <1>2
<1>4. StopCommands = pause \o cancel \o look
  BY DEF StopCommands
<1> HIDE DEF pause, cancel, look
<1>5. StopCommands \in Seq(Quiet) /\ Len(StopCommands) > 0
  BY <1>3, <1>4
<1>6. \A n \in DOMAIN StopCommands : StopCommands[n] \in Quiet
  BY <1>5
<1>7. StopCommands \in Seq(PolicyCommand)
  BY <1>1, <1>5, <1>6
<1> QED  BY <1>1, <1>5, <1>6, <1>7 DEF Commands

LEMMA PlanFailsStep ==
    ASSUME Inv, PlanFails
    PROVE  Inv'
<1>1. Typed /\ PlansAreSeparate
  BY DEF Inv, WorkerIsPlaced
<1>2. /\ worker.at \in {"plan", "decide"}
      /\ UNCHANGED <<session, outbox, rows, real, charged>>
      /\ faults' \in 0 .. MaxFaults
  BY <1>1, EntryBoundsAssumption DEF PlanFails, Fault, Typed
<1>3. CASE worker.event.source.from = "dispatch"
  <2>1. worker' = Off /\ queue' = <<>>
    BY <1>3 DEF PlanFails, StopProcess
  <2>2. Typed'
    BY <1>1, <1>2, <2>1, OffIsTyped DEF Typed
  <2>3. OrdersMove
    BY <1>1, <1>2, NothingMoves
  <2> QED  BY <1>2, <2>1, <2>2, <2>3, StopStep
<1>4. CASE worker.event.source.from # "dispatch"
  <2> DEFINE event == [worker.event EXCEPT !.source.failed = TRUE]
  <2>1. /\ worker' = [worker EXCEPT !.at = "persist", !.mode = "stop",
                                    !.event = event, !.commands = StopCommands]
        /\ queue' = queue
    BY <1>4 DEF PlanFails
  <2>2. worker \in Process /\ "persist" \in Place /\ "stop" \in Mode
    BY <1>1 DEF Typed, Place, Mode
  <2>3. event \in EngineEvent
    <3>1. worker.event \in EngineEvent
      BY <2>2 DEF Process
    <3>2. [worker.event.source EXCEPT !.failed = TRUE] \in EventSource
      <4>1. worker.event.source \in EventSource
        BY <3>1 DEF EngineEvent
      <4> QED  BY <4>1 DEF EventSource
    <3>3. event = [worker.event EXCEPT !.source = [worker.event.source EXCEPT !.failed = TRUE]]
      OBVIOUS
    <3> HIDE DEF event
    <3> QED  BY <3>1, <3>2, <3>3 DEF EngineEvent
  <2> HIDE DEF event
  <2>4. worker' \in Process
    BY <2>1, <2>2, <2>3, StopCommandsTypes DEF Process
  <2>5. /\ worker'.at = "persist" /\ worker'.commands = StopCommands
        /\ worker'.todo = worker.todo /\ worker'.planned = worker.planned
        /\ worker'.results = worker.results /\ worker'.mode = "stop"
    BY <2>1, <2>2 DEF Process
  <2>6. Typed'
    BY <1>1, <1>2, <2>1, <2>4 DEF Typed
  <2>7. CommandsAreCovered' /\ MakerIsRead'
    BY <2>5, StopCommandsTypes DEF CommandsAreCovered, MakerIsRead
  <2>8. worker.results = <<>>
    BY <1>1, <1>2, <1>4 DEF PlansAreSeparate
  <2>9. \A i \in Slots : charged'[i] \in {charged[i], real[i].cum}
    BY <1>2
  <2> QED  BY <1>2, <2>5, <2>6, <2>7, <2>8, <2>9, StopCommandsTypes, PlanGoesOnStep
<1> QED  BY <1>3, <1>4

-----------------------------------------------------------------------------
(* A command of a plan is saved.                                           *)

Saves(pos, command) ==
    \/ /\ outbox' = outbox /\ pos \in DOMAIN outbox
       /\ outbox[pos].kind = command.kind
    \/ /\ pos = Len(outbox) + 1 /\ pos \in 1 .. MaxActions
       /\ outbox' \in Seq(OutboxAction) /\ DOMAIN outbox' = 1 .. pos
       /\ outbox'[pos].kind = command.kind /\ outbox'[pos].status = "PENDING"
       /\ outbox'[pos].quantity = command.quantity
       /\ \A i \in DOMAIN outbox : outbox'[i] = outbox[i]

LEMMA SavedTypes ==
    ASSUME Typed, NEW command \in PolicyCommand, NEW source \in EventSource,
           outbox' = Saved(outbox, Action(command, source)), Len(outbox') <= MaxActions
    PROVE  Saves(Position(outbox', Action(command, source)), command)
<1> DEFINE action == Action(command, source)
           pos == Position(outbox', action)
<1>1. /\ action \in OutboxAction /\ action.kind = command.kind
      /\ action.quantity = command.quantity /\ action.status = "PENDING"
  BY DEF Action, OutboxAction, PolicyCommand, ActionStatus
<1>2. outbox \in Seq(OutboxAction) /\ Len(outbox) \in Nat /\ DOMAIN outbox = 1 .. Len(outbox)
  BY DEF Typed
<1> HIDE DEF action
<1>3. CASE \E i \in DOMAIN outbox : SameId(outbox[i], action)
  <2>1. outbox' = outbox
    BY <1>3 DEF Saved, action
  <2>2. pos \in DOMAIN outbox /\ SameId(outbox[pos], action)
    BY <1>3, <2>1 DEF Position
  <2> HIDE DEF pos
  <2>3. Saves(pos, command)
    BY <1>1, <2>1, <2>2 DEF Saves, SameId
  <2> QED  BY <2>3 DEF pos, action
<1>4. CASE ~ \E i \in DOMAIN outbox : SameId(outbox[i], action)
  <2>1. outbox' = Append(outbox, action)
    BY <1>4 DEF Saved, action
  <2>2. /\ outbox' \in Seq(OutboxAction) /\ Len(outbox') = Len(outbox) + 1
        /\ DOMAIN outbox' = 1 .. Len(outbox) + 1
        /\ outbox'[Len(outbox) + 1] = action
        /\ \A i \in DOMAIN outbox : outbox'[i] = outbox[i]
    BY <1>1, <1>2, <2>1
  <2>3. SameId(outbox'[Len(outbox) + 1], action)
    BY <2>2 DEF SameId
  <2>4. pos \in DOMAIN outbox' /\ SameId(outbox'[pos], action)
    BY <1>2, <2>2, <2>3 DEF Position
  <2> HIDE DEF pos
  <2>5. pos = Len(outbox) + 1
    BY <1>2, <1>4, <2>2, <2>4
  <2>6. pos \in 1 .. MaxActions
    BY <1>2, <2>2, <2>5, EntryBoundsAssumption
  <2>7. Saves(pos, command)
    BY <1>1, <2>2, <2>5, <2>6 DEF Saves
  <2> QED  BY <2>7 DEF pos, action
<1> QED  BY <1>3, <1>4

(* What is known of the command that is saved.                             *)
Covers(command) ==
    command.kind \in {"SUBMIT_HEDGE", "MARK_OPEN"} =>
        /\ session \in ActiveStatus
        /\ \A i \in Hedges : ~Live(i)
        /\ command.kind = "SUBMIT_HEDGE" =>
               /\ command.quantity > 0
               /\ Claimed + command.quantity <= real[Maker].cum

LEMMA SavedIsSound ==
    ASSUME Inv, Typed', UNCHANGED <<rows, real, charged>>,
           NEW pos, NEW command \in PolicyCommand, Saves(pos, command), Covers(command)
    PROVE  OrdersAreSound'
<1>1. Typed /\ OrdersAreSound /\ OrdersAreRecorded /\ HedgesBuy /\ OneIsLive
      /\ ClaimsAreCovered
  BY DEF Inv, OrdersAreSound
<1>2. OrdersMove
  BY <1>1 DEF OrdersMove, RealMoves, RowMoves
<1>3. Len(outbox) \in Nat /\ DOMAIN outbox = 1 .. Len(outbox)
  BY <1>1 DEF Typed
<1>4. CASE outbox' = outbox \/ command.kind # "SUBMIT_HEDGE"
  <2>1. OutboxMoves
    BY <1>3, <1>4 DEF OutboxMoves, Saves, Unfinished
  <2> QED  BY <1>1, <1>2, <2>1, OrdersStaySound
<1>5. CASE outbox' # outbox /\ command.kind = "SUBMIT_HEDGE"
  <2> DEFINE q == command.quantity
  <2>1. /\ pos = Len(outbox) + 1 /\ pos \in 1 .. MaxActions /\ DOMAIN outbox' = 1 .. pos
        /\ outbox'[pos].kind = "SUBMIT_HEDGE" /\ outbox'[pos].status = "PENDING"
        /\ outbox'[pos].quantity = q
        /\ \A i \in DOMAIN outbox : outbox'[i] = outbox[i]
    BY <1>5 DEF Saves
  <2>2. /\ \A i \in Hedges : ~Live(i)
        /\ q > 0 /\ Claimed + q <= real[Maker].cum /\ q \in Nat
    BY <1>5, TargetAssumption DEF Covers, PolicyCommand
  <2> HIDE DEF q
  <2>3. pos \notin DOMAIN outbox /\ DOMAIN outbox' = DOMAIN outbox \cup {pos}
    BY <1>3, <2>1
  <2>4. pos \notin Hedges /\ Hedges' = Hedges \cup {pos} /\ pos # Maker
    BY <2>1, <2>3 DEF Hedges, Maker
  <2>5. \A i \in Hedges \cup {Maker} : Requested(i)' = Requested(i)
    BY <2>1 DEF Requested, Hedges
  <2>6. \A i \in Hedges : Unfinished(i)' = Unfinished(i)
    BY <2>1 DEF Unfinished, Hedges
  <2>7. \A i \in Hedges : Live(i)' = Live(i)
    BY <2>4, <2>6 DEF Live, IsOpen
  <2>8. rows[pos] = Absent
    <3>1. pos \in Slots /\ OrderIsRecorded(pos)
      BY <1>1, <2>1, EntryBoundsAssumption DEF OrdersAreRecorded, Slots
    <3> QED  BY <2>4, <3>1 DEF OrderIsRecorded
  <2>9. Live(pos)' /\ Requested(pos)' = q
    BY <2>1, <2>4 DEF Live, Unfinished, Requested
  <2>10. OrdersAreRecorded'
    <3> SUFFICES ASSUME NEW i \in Slots PROVE OrderIsRecorded(i)'
      BY DEF OrdersAreRecorded
    <3>1. OrderIsRecorded(i)
      BY <1>1 DEF OrdersAreRecorded
    <3>2. rows[i] # Absent => i \in Hedges \cup {Maker} /\ Requested(i)' = Requested(i)
      BY <2>5, <3>1 DEF OrderIsRecorded
    <3>3. (real[i] = Absent \/ Native(i, real[i]))'
      BY <3>1, <3>2 DEF OrderIsRecorded, Native
    <3> QED  BY <2>4, <3>1, <3>3 DEF OrderIsRecorded, IsOpen
  <2>11. HedgesBuy'
    BY <1>1, <2>1, <2>2, <2>4 DEF HedgesBuy, Hedges
  <2>12. OneIsLive'
    BY <2>2, <2>4, <2>7 DEF OneIsLive
  <2>13. ClaimsAreCovered'
    <3> DEFINE before == [i \in Hedges |-> Claim(i)]
               after == [i \in Hedges \cup {pos} |-> Claim(i)']
    <3>1. \A i \in Hedges : Claim(i) \in Nat /\ Claim(i)' = Claim(i)
      BY <1>1, <2>5, <2>7, ClaimIsANumber DEF Claim
    <3>2. Claim(pos)' = q
      BY <2>9 DEF Claim
    <3>3. Claimed = Total(before) /\ Claimed' = Total(after)
      <4>1. Claimed = Total(before)
        BY DEF Claimed
      <4>2. Claimed' = Total([i \in Hedges' |-> Claim(i)'])
        BY DEF Claimed, Total
      <4> QED  BY <2>4, <4>1, <4>2
    <3>4. Total(before) \in Nat /\ Total(after) \in Nat
      <4>1. /\ \A n \in DOMAIN before : before[n] \in Nat
            /\ \A n \in DOMAIN after : after[n] \in Nat
        BY <2>2, <3>1, <3>2
      <4> HIDE DEF before, after
      <4> QED  BY <4>1, TotalHasMembers
    <3>5. Total(after) <= Total(before) + q
      <4>1. \A n \in 1 .. MaxActions :
                At(after, n) <= At(before, n) + (IF n = pos THEN q ELSE 0)
        BY <2>2, <2>4, <3>1, <3>2 DEF At
      <4>2. /\ \A n \in DOMAIN after : after[n] \in Int
            /\ \A n \in DOMAIN before : before[n] \in Int
        BY <2>2, <3>1, <3>2
      <4>3. pos \in Int
        BY <2>1, EntryBoundsAssumption
      <4> HIDE DEF before, after
      <4> QED  BY <2>2, <4>1, <4>2, <4>3, TotalShifts
    <3> HIDE DEF before, after
    <3>6. real[Maker].cum \in Nat
      BY <1>1, MakerIsASlot, SlotTypes
    <3> QED  BY <2>2, <3>3, <3>4, <3>5, <3>6 DEF ClaimsAreCovered
  <2> QED  BY <2>10, <2>11, <2>12, <2>13 DEF OrdersAreSound
<1> QED  BY <1>4, <1>5

LEMMA SavedIsOrdered ==
    ASSUME Inv, Typed', UNCHANGED <<session, rows>>, worker.at = "persist",
           NEW pos, NEW command \in PolicyCommand, Saves(pos, command), Covers(command),
           Ahead' = Append(Ahead, pos), ~Early', \A i : ~Working(i)',
           worker'.at \notin {"down", "sync", "resume", "execute"}
    PROVE  DispatchIsOrdered'
<1> USE DEF Inv, OrdersAreSound, WorkerIsPlaced, DispatchIsOrdered
<1>1. Len(outbox) \in Nat /\ DOMAIN outbox = 1 .. Len(outbox)
  BY DEF Typed
<1>2. ~Early /\ \A i : ~Working(i)
  BY DEF Early, Submission, Working
<1>3. /\ \A i \in DOMAIN outbox : i \in DOMAIN outbox' /\ outbox'[i] = outbox[i]
      /\ pos \in DOMAIN outbox' /\ outbox'[pos].kind = command.kind
      /\ \A i \in DOMAIN outbox' : i \in DOMAIN outbox \/ i = pos
  BY <1>1 DEF Saves
<1>4. pos \notin DOMAIN outbox =>
          /\ outbox'[pos].status = "PENDING" /\ \A i \in DOMAIN outbox : i < pos
  BY <1>1 DEF Saves
<1>5. /\ \A i \in Hedges : i \in Hedges' /\ i \in DOMAIN outbox /\ (Live(i)' <=> Live(i))
      /\ \A i \in Hedges' : i \in Hedges \/ (/\ i = pos /\ pos \notin DOMAIN outbox
                                            /\ command.kind = "SUBMIT_HEDGE")
  BY <1>3 DEF Hedges, Live, Unfinished, IsOpen
<1>6. \A i \in DOMAIN outbox : Unfinished(i)' = Unfinished(i) /\ Opening(i)' = Opening(i)
  BY <1>3 DEF Unfinished, Opening
<1>7. command.kind \in {"SUBMIT_HEDGE", "MARK_OPEN"} =>
          session \in ActiveStatus /\ \A i \in Hedges : ~Live(i)
  BY DEF Covers
<1>8. command.kind \notin {"SUBMIT_HEDGE", "MARK_OPEN"} =>
          pos \notin Hedges' /\ pos \notin Hedges /\ ~Opening(pos)'
  BY <1>3, <1>5 DEF Hedges, Opening
<1>9. /\ Ahead \in Seq(1 .. MaxActions) /\ DOMAIN Ahead = 1 .. Len(Ahead)
      /\ Len(Ahead) \in Nat
  <2>1. Ahead \in Seq(1 .. MaxActions)
    BY AheadOfTodo
  <2> QED  BY <2>1
<1>10. /\ DOMAIN Ahead' = 1 .. Len(Ahead) + 1 /\ Ahead'[Len(Ahead) + 1] = pos
       /\ \A n \in 1 .. Len(Ahead) : Ahead'[n] = Ahead[n]
  BY <1>9
<1>11. \A n \in DOMAIN Ahead : Ahead[n] \in DOMAIN outbox
  BY DEF AheadIsSaved
<1>12. AheadIsSaved'
  BY <1>3, <1>9, <1>10, <1>11 DEF AheadIsSaved
<1>13. SentIsFinished'
  <2> SUFFICES ASSUME session \in ActiveStatus, NEW i \in Hedges',
                      Unfinished(i)', rows[i] # Absent
               PROVE  FALSE
    BY DEF SentIsFinished
  <2>1. i \in Hedges
    <3>1. i \in Slots /\ i # Maker
      BY HedgeSlotsNext
    <3>2. OrderIsRecorded(i)
      BY <3>1 DEF OrdersAreRecorded
    <3> QED  BY <3>1, <3>2 DEF OrderIsRecorded
  <2>2. Unfinished(i)
    BY <1>5, <1>6, <2>1
  <2> QED  BY <1>2, <2>1, <2>2 DEF SentIsFinished, PlansAreSeparate
<1>14. HedgesAreLast'
  <2> SUFFICES ASSUME NEW m \in DOMAIN Ahead', NEW n \in DOMAIN Ahead', m < n,
                      NEW i \in Hedges', Ahead'[m] = i, Live(i)'
               PROVE  /\ Ahead'[n] # i
                      /\ \A k \in DOMAIN outbox' : Opening(k)' => Ahead'[n] # k
    BY DEF HedgesAreLast
  <2>1. m \in 1 .. Len(Ahead) /\ m \in DOMAIN Ahead /\ Ahead[m] = i
    BY <1>9, <1>10
  <2>2. i \in Hedges /\ Live(i)
    BY <1>5, <1>11, <2>1
  <2>3. CASE n \in 1 .. Len(Ahead)
    <3>1. n \in DOMAIN Ahead /\ Ahead'[n] = Ahead[n] /\ Ahead[n] \in DOMAIN outbox
      BY <1>9, <1>10, <1>11, <2>3
    <3>2. Ahead[n] # i /\ \A k \in DOMAIN outbox : Opening(k) => Ahead[n] # k
      BY <2>1, <2>2, <3>1 DEF HedgesAreLast
    <3> QED  BY <1>3, <1>6, <3>1, <3>2
  <2>4. CASE n = Len(Ahead) + 1
    <3>1. Ahead'[n] = pos /\ command.kind \notin {"SUBMIT_HEDGE", "MARK_OPEN"}
      BY <1>7, <1>10, <2>2, <2>4
    <3> QED  BY <1>8, <2>2, <3>1
  <2> QED  BY <1>10, <2>3, <2>4
<1>15. OpeningsComeFirst'
  <2> SUFFICES ASSUME NEW k \in DOMAIN outbox', Opening(k)'
               PROVE  /\ \A i \in Hedges' : Unfinished(i)' => k < i
                      /\ \E n \in DOMAIN Ahead' : Ahead'[n] = k
    BY DEF OpeningsComeFirst
  <2>1. CASE k \in DOMAIN outbox
    <3>1. Opening(k)
      BY <1>6, <2>1
    <3>2. PICK n \in DOMAIN Ahead : Ahead[n] = k
      BY <1>2, <2>1, <3>1 DEF OpeningsComeFirst
    <3>3. n \in DOMAIN Ahead' /\ Ahead'[n] = k
      BY <1>9, <1>10, <3>2
    <3>4. \A i \in Hedges' : Unfinished(i)' => k < i
      BY <1>4, <1>5, <1>6, <2>1, <3>1 DEF OpeningsComeFirst
    <3> QED  BY <3>3, <3>4
  <2>2. CASE k \notin DOMAIN outbox
    <3>1. k = pos /\ command.kind = "MARK_OPEN"
      BY <1>3, <2>2 DEF Opening
    <3>2. Hedges' = Hedges /\ \A i \in Hedges : ~Unfinished(i)
      BY <1>5, <1>7, <3>1 DEF Live
    <3> QED  BY <1>5, <1>6, <1>9, <1>10, <3>1, <3>2
  <2> QED  BY <2>1, <2>2
<1>16. FailureIsLast'
  <2> SUFFICES ASSUME NEW j \in Hedges', outbox'[j].status = "FAILED"
               PROVE  /\ session \in {"PAUSED", "RECOVERING"}
                      /\ \A i \in Hedges' : ~Unfinished(i)'
                      /\ \A k \in DOMAIN outbox' : ~Opening(k)'
    BY DEF FailureIsLast
  <2>1. j \in Hedges /\ outbox[j].status = "FAILED"
    BY <1>3, <1>4, <1>5
  <2>2. /\ session \in {"PAUSED", "RECOVERING"}
        /\ \A i \in Hedges : ~Unfinished(i)
        /\ \A k \in DOMAIN outbox : ~Opening(k)
    BY <2>1 DEF FailureIsLast
  <2>3. command.kind \notin {"SUBMIT_HEDGE", "MARK_OPEN"}
    BY <1>7, <2>2 DEF ActiveStatus
  <2> QED  BY <1>3, <1>5, <1>6, <1>8, <2>2, <2>3
<1>17. UnknownIsLeft'
  <2> SUFFICES ASSUME NEW i \in Hedges', rows[i].state = "UNKNOWN"
               PROVE  \A n \in DOMAIN Ahead' : Ahead'[n] # i
    BY DEF UnknownIsLeft
  <2>1. i \in Slots /\ i # Maker /\ rows[i] # Absent /\ IsOpen(i)
    BY HedgeSlotsNext DEF Absent, IsOpen, IsTerminal, TerminalOrderState
  <2>2. i \in Hedges
    BY <2>1 DEF OrdersAreRecorded, OrderIsRecorded
  <2>3. Live(i) /\ \A n \in DOMAIN Ahead : Ahead[n] # i
    BY <2>1, <2>2 DEF Live, UnknownIsLeft
  <2>4. pos # i
    BY <1>7, <1>8, <2>2, <2>3
  <2> QED  BY <1>9, <1>10, <2>3, <2>4
<1> QED  BY <1>12, <1>13, <1>14, <1>15, <1>16, <1>17

LEMMA PersistCommandStep ==
    ASSUME Inv, PersistCommand
    PROVE  Inv'
<1>1. Typed /\ PlansAreSeparate /\ CommandsAreCovered /\ HedgesBuy /\ OrdersAreRecorded
  BY DEF Inv, WorkerIsPlaced, OrdersAreSound
<1> DEFINE command == Head(worker.commands)
           rest == Tail(worker.commands)
           action == Action(command, worker.event.source)
           pos == Position(outbox', action)
           w == [worker EXCEPT !.commands = rest, !.planned = Append(worker.planned, pos)]
<1>2. /\ worker.at = "persist" /\ UNCHANGED <<session, rows, real, charged, queue, faults>>
      /\ outbox' = Saved(outbox, action) /\ Len(outbox') <= MaxActions
      /\ worker' = PlanIsSaved(w)
  BY DEF PersistCommand
<1>3. /\ worker \in Process /\ worker.commands \in Seq(PolicyCommand)
      /\ worker.commands # <<>> /\ worker.planned \in Seq(1 .. MaxActions)
      /\ worker.todo \in Seq(1 .. MaxActions)
  BY <1>1, <1>2 DEF Typed, Process, Commands, Actions, PlansAreSeparate
<1>4. /\ command \in PolicyCommand /\ rest \in Seq(PolicyCommand)
      /\ Len(rest) = Len(worker.commands) - 1
      /\ \A n \in DOMAIN rest : n + 1 \in DOMAIN worker.commands
                                /\ rest[n] = worker.commands[n + 1]
      /\ 1 \in DOMAIN worker.commands /\ command = worker.commands[1]
      /\ Len(worker.commands) \in Nat
  BY <1>3
<1>5. worker.event.source \in EventSource
  BY <1>3 DEF Process, EngineEvent
<1>6. Saves(pos, command)
  BY <1>1, <1>2, <1>4, <1>5, SavedTypes
<1>7. Covers(command)
  BY <1>1, <1>2, <1>4 DEF CommandsAreCovered, Covers
<1> HIDE DEF command, rest, action, pos
<1>8. /\ pos \in 1 .. MaxActions /\ outbox' \in Seq(OutboxAction)
      /\ \A i \in Hedges : i \in Hedges'
  <2>1. outbox \in Seq(OutboxAction) /\ Len(outbox) <= MaxActions /\ Len(outbox) \in Nat
    BY <1>1 DEF Typed
  <2> QED  BY <1>6, <2>1, EntryBoundsAssumption DEF Saves, Hedges
<1>9. Append(worker.planned, pos) \in Actions /\ rest \in Commands
  BY <1>3, <1>4, <1>8 DEF Actions, Commands
<1>10. /\ w \in Process /\ w.planned = Append(worker.planned, pos) /\ w.commands = rest
       /\ w.todo = worker.todo /\ w.at = "persist" /\ w.mode = worker.mode
       /\ w.results = worker.results
  BY <1>2, <1>3, <1>9 DEF Process
<1> HIDE DEF w
<1>11. /\ worker.mode # "recovery" /\ session # "NONE"
       /\ worker.mode # "events" => worker.results = <<>>
  BY <1>1, <1>2 DEF PlansAreSeparate, Inv, WorkerIsPlaced, SessionIsNew, Early, Submission
<1>12. worker.todo \o Append(worker.planned, pos) = Append(Ahead, pos)
  <2>1. worker.todo \in Actions /\ worker.planned \in Actions
    BY <1>3 DEF Actions
  <2> QED  BY <1>8, <2>1, Concatenation DEF Ahead
<1>13. CASE worker' = EndPlan(w)
  <2>1. Goes(worker') /\ worker'.todo = Append(Ahead, pos)
    BY <1>10, <1>11, <1>12, <1>13, EndPlanGoes
  <2>2. WorkerIsPlaced' /\ Ahead' = Append(Ahead, pos) /\ ~Early' /\ \A i : ~Working(i)'
    BY <1>2, <1>11, <2>1, GoesPlaced
  <2>3. Typed'
    BY <1>1, <1>2, <1>8, <2>1 DEF Typed, Goes
  <2>4. worker'.at \notin {"down", "sync", "resume", "execute"}
    BY <2>1 DEF Goes
  <2> QED  BY <1>2, <1>4, <1>6, <1>7, <2>2, <2>3, <2>4, SavedIsSound, SavedIsOrdered DEF Inv
<1>14. CASE \/ worker' = w /\ rest # <<>>
            \/ worker' = [w EXCEPT !.at = "halt"]
            \/ worker' = [w EXCEPT !.at = "activate"] /\ session = "ENTERING"
  <2>1. /\ worker' \in Process /\ worker'.planned = Append(worker.planned, pos)
        /\ worker'.commands = rest /\ worker'.todo = worker.todo
        /\ worker'.mode = worker.mode /\ worker'.results = worker.results
        /\ worker'.at \in {"persist", "halt", "activate"}
        /\ worker'.at = "persist" => rest # <<>>
        /\ worker'.at = "activate" => session = "ENTERING"
    <3>1. "halt" \in Place /\ "activate" \in Place
      BY DEF Place
    <3> QED  BY <1>10, <1>14, <3>1 DEF Process
  <2>2. Ahead' = Append(Ahead, pos)
    BY <1>12, <2>1 DEF Ahead
  <2>3. ~Early' /\ ~Submission' /\ \A i : ~Working(i)'
    BY <2>1 DEF Early, Submission, Working
  <2>4. Typed'
    BY <1>1, <1>2, <1>8, <2>1 DEF Typed
  <2>5. CommandsAreCovered'
    <3> SUFFICES ASSUME NEW n \in DOMAIN rest,
                        rest[n].kind \in {"SUBMIT_HEDGE", "MARK_OPEN"}
                 PROVE  /\ n = Len(rest)
                        /\ session \in ActiveStatus
                        /\ \A i \in Hedges' : ~Live(i)'
                        /\ rest[n].kind = "SUBMIT_HEDGE" =>
                               /\ rest[n].quantity > 0
                               /\ Claimed' + rest[n].quantity <= real[Maker].cum
      BY <1>2, <2>1 DEF CommandsAreCovered
    <3>1. n + 1 \in DOMAIN worker.commands /\ rest[n] = worker.commands[n + 1] /\ n \in Nat
      BY <1>4
    <3>2. /\ n + 1 = Len(worker.commands)
          /\ session \in ActiveStatus
          /\ \A i \in Hedges : ~Live(i)
          /\ rest[n].kind = "SUBMIT_HEDGE" =>
                 /\ rest[n].quantity > 0
                 /\ Claimed + rest[n].quantity <= real[Maker].cum
      BY <1>1, <1>2, <3>1 DEF CommandsAreCovered
    <3>3. command.kind \notin {"SUBMIT_HEDGE", "MARK_OPEN"}
      <4>1. 1 # Len(worker.commands)
        BY <3>1, <3>2, <1>4
      <4> QED  BY <1>1, <1>2, <1>4, <4>1 DEF CommandsAreCovered
    <3>4. Hedges' = Hedges /\ \A i \in Hedges : outbox'[i] = outbox[i]
      <4>1. outbox \in Seq(OutboxAction)
        BY <1>1 DEF Typed
      <4> QED  BY <1>6, <3>3, <4>1 DEF Saves, Hedges
    <3>5. \A i \in Hedges : Live(i)' = Live(i) /\ Requested(i)' = Requested(i)
      BY <1>2, <3>4 DEF Live, Unfinished, IsOpen, Requested
    <3>6. Claimed' = Claimed
      <4>1. \A i \in Hedges : Claim(i)' = Claim(i)
        BY <1>2, <3>5 DEF Claim
      <4>2. Claimed' = Total([i \in Hedges' |-> Claim(i)'])
        BY DEF Claimed, Total
      <4>3. [i \in Hedges' |-> Claim(i)'] = [i \in Hedges |-> Claim(i)]
        BY <3>4, <4>1
      <4> QED  BY <4>2, <4>3 DEF Claimed
    <3> QED  BY <1>4, <3>1, <3>2, <3>4, <3>5, <3>6
  <2>6. /\ EarlyIsClean' /\ ActionIsUnderWay' /\ ResumptionIsClean' /\ MakerIsRead'
        /\ SessionIsNew'
    BY <1>2, <1>11, <2>1, <2>3
       DEF EarlyIsClean, ActionIsUnderWay, ResumptionIsClean, MakerIsRead, SessionIsNew
  <2>7. PlansAreSeparate'
    BY <1>2, <1>11, <2>1 DEF PlansAreSeparate
  <2>8. worker'.at \notin {"down", "sync", "resume", "execute"}
    BY <2>1
  <2>9. WorkerIsPlaced'
    BY <2>5, <2>6, <2>7 DEF WorkerIsPlaced
  <2> QED
    BY <1>2, <1>4, <1>6, <1>7, <2>2, <2>3, <2>4, <2>8, <2>9, SavedIsSound, SavedIsOrdered
       DEF Inv
<1> QED  BY <1>2, <1>10, <1>13, <1>14 DEF PlanIsSaved
-----------------------------------------------------------------------------
(* Steps that end a dispatch.                                              *)

LEMMA RecoverSessionStep ==
    ASSUME Inv, RecoverSession
    PROVE  Inv'
<1>1. Typed /\ PlansAreSeparate
  BY DEF Inv, WorkerIsPlaced
<1>2. /\ worker.at = "recover" /\ session' = "RECOVERING"
      /\ worker' = EndDispatch(worker, <<>>)
      /\ UNCHANGED <<outbox, rows, real, charged, queue, faults>>
  BY DEF RecoverSession
<1>3. worker \in Process /\ <<>> \in Results /\ worker.planned = <<>>
  BY <1>1, <1>2 DEF Typed, Results, PlansAreSeparate
<1>4. /\ Goes(worker') /\ worker'.todo = worker.todo
      /\ worker.mode = "recovery" => worker'.mode = "recovery"
  BY <1>2, <1>3, EndDispatchGoes
<1>5. Ahead = worker.todo
  BY <1>1, <1>3, AheadOfTodo
<1>6. Typed'
  BY <1>1, <1>2, <1>4 DEF Typed, Goes, SessionStatus
<1>7. ~Early
  BY <1>2 DEF Early, Submission
<1> QED  BY <1>2, <1>4, <1>5, <1>6, <1>7, GoesOnStep

LEMMA ContinueSessionStep ==
    ASSUME Inv, ContinueSession
    PROVE  Inv'
<1>1. Typed /\ PlansAreSeparate /\ ResumptionIsClean
  BY DEF Inv, WorkerIsPlaced
<1>2. /\ worker.at = "continue" /\ session' = "HEDGING"
      /\ worker' = EndDispatch(worker, worker.results)
      /\ UNCHANGED <<outbox, rows, real, charged, queue, faults>>
  BY DEF ContinueSession
<1>3. worker \in Process /\ worker.results \in Results /\ worker.planned = <<>>
  BY <1>1, <1>2 DEF Typed, Process, PlansAreSeparate
<1>4. /\ Goes(worker') /\ worker'.todo = worker.todo
      /\ worker.mode = "recovery" => worker'.mode = "recovery"
  BY <1>2, <1>3, EndDispatchGoes
<1>5. Ahead = worker.todo
  BY <1>1, <1>3, AheadOfTodo
<1>6. Typed'
  BY <1>1, <1>2, <1>4 DEF Typed, Goes, SessionStatus
<1>7. ~Early
  BY <1>2 DEF Early, Submission
<1>8. session' \in ActiveStatus /\ \A i \in Hedges : outbox[i].status = "COMPLETED"
  BY <1>1, <1>2 DEF ResumptionIsClean, ActiveStatus
<1> QED  BY <1>2, <1>4, <1>5, <1>6, <1>7, <1>8, GoesOnStep

(* An action that is finished is taken off what is ahead.                  *)
LEMMA TailTypes ==
    ASSUME Typed, worker.todo # <<>>
    PROVE  /\ Tail(worker.todo) \in Actions /\ Head(worker.todo) \in 1 .. MaxActions
           /\ 1 \in DOMAIN worker.todo /\ Head(worker.todo) = worker.todo[1]
           /\ \A n \in DOMAIN Tail(worker.todo) :
                  /\ n \in Nat /\ n + 1 \in DOMAIN worker.todo
                  /\ Tail(worker.todo)[n] = worker.todo[n + 1]
           /\ \A n \in DOMAIN worker.todo : n # 1 =>
                  \E m \in DOMAIN Tail(worker.todo) :
                      Tail(worker.todo)[m] = worker.todo[n]
<1> DEFINE S == 1 .. MaxActions
           todo == worker.todo
<1>1. todo \in Seq(S) /\ todo # <<>>
  BY DEF Typed, Process, Actions
<1> HIDE DEF S, todo
<1>2. /\ Tail(todo) \in Seq(S) /\ Head(todo) \in S
      /\ 1 \in DOMAIN todo /\ Head(todo) = todo[1]
      /\ Len(todo) \in Nat /\ DOMAIN todo = 1 .. Len(todo)
      /\ DOMAIN Tail(todo) = 1 .. Len(todo) - 1
  BY <1>1
<1>3. \A n \in DOMAIN Tail(todo) :
          n \in Nat /\ n + 1 \in DOMAIN todo /\ Tail(todo)[n] = todo[n + 1]
  BY <1>1, <1>2
<1>4. \A n \in DOMAIN todo : n # 1 =>
          n - 1 \in DOMAIN Tail(todo) /\ Tail(todo)[n - 1] = todo[n]
  <2> SUFFICES ASSUME NEW n \in DOMAIN todo, n # 1
               PROVE  n - 1 \in DOMAIN Tail(todo) /\ Tail(todo)[n - 1] = todo[n]
    OBVIOUS
  <2>1. n - 1 \in DOMAIN Tail(todo) /\ n - 1 + 1 = n
    BY <1>2
  <2> QED  BY <1>3, <2>1
<1> QED  BY <1>2, <1>3, <1>4 DEF todo, S, Actions

LEMMA DispatchSkipsStep ==
    ASSUME Inv, DispatchSkips
    PROVE  Inv'
<1> USE DEF Inv, OrdersAreSound, WorkerIsPlaced, DispatchIsOrdered
<1> DEFINE v == [worker EXCEPT !.todo = Tail(worker.todo)]
<1>1. /\ worker.at = "dispatch" /\ worker.todo # <<>> /\ worker.planned = <<>>
      /\ worker' = EndDispatch(v, <<>>)
      /\ ~Unfinished(Head(worker.todo))
      /\ UNCHANGED <<session, outbox, rows, real, charged, queue, faults>>
  BY DEF DispatchSkips, PlansAreSeparate, Unfinished
<1>2. v \in Process /\ <<>> \in Results /\ v.planned = <<>> /\ v.todo = Tail(worker.todo)
      /\ v.mode = worker.mode
  <2>1. Tail(worker.todo) \in Actions /\ worker \in Process /\ <<>> \in Results
    BY <1>1, TailTypes DEF Typed, Results
  <2> QED  BY <1>1, <2>1 DEF Process
<1> HIDE DEF v
<1>3. /\ Goes(worker') /\ worker'.todo = Tail(worker.todo)
      /\ worker.mode = "recovery" => worker'.mode = "recovery"
  BY <1>1, <1>2, EndDispatchGoes
<1>4. Ahead = worker.todo
  BY <1>1, AheadOfTodo
<1>5. Typed'
  BY <1>1, <1>3 DEF Typed, Goes
<1>6. OutboxMoves /\ OrdersMove
  BY <1>1, NothingMoves
<1>7. OrdersAreSound'
  BY <1>5, <1>6, OrdersStaySound
<1>8. ~Early /\ session # "NONE" /\ \A i : ~Working(i)
  BY <1>1 DEF Early, Submission, SessionIsNew, Working
<1>9. WorkerIsPlaced' /\ Ahead' = Tail(worker.todo) /\ ~Early' /\ \A i : ~Working(i)'
  BY <1>1, <1>3, <1>8, GoesPlaced
<1>10. Hedges' = Hedges /\ \A i : Unfinished(i)' = Unfinished(i) /\ Opening(i)' = Opening(i)
                                  /\ Live(i)' = Live(i)
  BY <1>1 DEF Hedges, Unfinished, Opening, Live, IsOpen
<1>11. /\ 1 \in DOMAIN Ahead /\ ~Unfinished(Ahead[1])
       /\ \A n \in DOMAIN Ahead' :
              n \in Nat /\ n + 1 \in DOMAIN Ahead /\ Ahead'[n] = Ahead[n + 1]
       /\ \A n \in DOMAIN Ahead : n # 1 => \E m \in DOMAIN Ahead' : Ahead'[m] = Ahead[n]
  BY <1>1, <1>4, <1>9, TailTypes
<1>12. AheadIsSaved'
  BY <1>1, <1>11 DEF AheadIsSaved
<1>13. SentIsFinished'
  <2> SUFFICES ASSUME session \in ActiveStatus, NEW i \in Hedges, Unfinished(i),
                      rows[i] # Absent
               PROVE  /\ worker'.mode = "recovery"
                      /\ \E n \in DOMAIN worker'.todo : worker'.todo[n] = i
    BY <1>1, <1>10 DEF SentIsFinished
  <2>1. worker.mode = "recovery" /\ \E n \in DOMAIN worker.todo : worker.todo[n] = i
    BY <1>8 DEF SentIsFinished
  <2> QED  BY <1>3, <1>4, <1>9, <1>11, <2>1
<1>14. HedgesAreLast'
  <2> SUFFICES ASSUME NEW m \in DOMAIN Ahead', NEW n \in DOMAIN Ahead', m < n,
                      NEW i \in Hedges', Ahead'[m] = i, Live(i)'
               PROVE  /\ Ahead'[n] # i
                      /\ \A k \in DOMAIN outbox' : Opening(k)' => Ahead'[n] # k
    BY <1>9 DEF HedgesAreLast
  <2>0. i \in Hedges /\ Live(i) /\ DOMAIN outbox' = DOMAIN outbox
    BY <1>1, <1>10
  <2>1. m + 1 \in DOMAIN Ahead /\ n + 1 \in DOMAIN Ahead /\ m + 1 < n + 1
        /\ Ahead[m + 1] = i /\ Ahead'[n] = Ahead[n + 1]
    BY <1>11
  <2>2. PICK p \in DOMAIN Ahead, q \in DOMAIN Ahead : p = m + 1 /\ q = n + 1
    BY <2>1
  <2>3. p < q /\ Ahead[p] = i /\ Ahead'[n] = Ahead[q]
    BY <2>1, <2>2
  <2>4. Ahead[q] # i /\ \A k \in DOMAIN outbox : Opening(k) => Ahead[q] # k
    BY <2>0, <2>3 DEF HedgesAreLast
  <2> QED  BY <1>10, <2>0, <2>3, <2>4
<1>15. OpeningsComeFirst'
  <2> SUFFICES ASSUME NEW k \in DOMAIN outbox, Opening(k)
               PROVE  /\ \A i \in Hedges : Unfinished(i) => k < i
                      /\ \E n \in DOMAIN Ahead' : Ahead'[n] = k
    BY <1>1, <1>10 DEF OpeningsComeFirst
  <2>1. PICK n \in DOMAIN Ahead : Ahead[n] = k
    BY <1>8 DEF OpeningsComeFirst
  <2>2. n # 1
    BY <1>11, <2>1 DEF Opening
  <2> QED  BY <1>11, <2>1, <2>2 DEF OpeningsComeFirst
<1>16. FailureIsLast'
  BY <1>1, <1>10 DEF FailureIsLast
<1>17. UnknownIsLeft'
  <2> SUFFICES ASSUME NEW i \in Hedges, rows[i].state = "UNKNOWN"
               PROVE  \A n \in DOMAIN Ahead' : Ahead'[n] # i
    BY <1>1, <1>3, <1>10 DEF UnknownIsLeft, Goes
  <2> QED  BY <1>1, <1>11 DEF UnknownIsLeft
<1> QED  BY <1>5, <1>7, <1>9, <1>12, <1>13, <1>14, <1>15, <1>16, <1>17
LEMMA BeginDispatchStep ==
    ASSUME Inv, BeginDispatch
    PROVE  Inv'
<1> USE DEF Inv, OrdersAreSound, WorkerIsPlaced, DispatchIsOrdered
<1> DEFINE i == Head(worker.todo)
           resumed == outbox[i].status = "IN_PROGRESS"
<1>1. /\ worker.at = "dispatch" /\ worker.todo # <<>> /\ worker.planned = <<>>
      /\ Unfinished(i) /\ outbox' = Marked(outbox, i, "IN_PROGRESS")
      /\ worker' = [worker EXCEPT !.at = "execute", !.todo = Tail(worker.todo),
                                  !.action = i, !.resumed = resumed]
      /\ UNCHANGED <<session, rows, real, charged, queue, faults>>
  BY DEF BeginDispatch, PlansAreSeparate, Unfinished
<1>2. Ahead = worker.todo
  BY <1>1, AheadOfTodo
<1>3. i \in DOMAIN outbox /\ i \in Slots /\ i # 0
  BY <1>1, <1>2, TailTypes, EntryBoundsAssumption DEF AheadIsSaved, Slots
<1>4. /\ worker' \in Process /\ worker'.at = "execute" /\ worker'.todo = Tail(worker.todo)
      /\ worker'.action = i /\ worker'.planned = <<>> /\ worker'.mode = worker.mode
      /\ worker'.results = worker.results
  <2>1. Tail(worker.todo) \in Actions /\ worker \in Process /\ "execute" \in Place
    BY <1>1, TailTypes DEF Typed, Place
  <2>2. resumed \in BOOLEAN
    OBVIOUS
  <2> HIDE DEF i, resumed
  <2> QED  BY <1>1, <1>3, <2>1, <2>2 DEF Process
<1> HIDE DEF resumed
<1>5. /\ OutboxMoves /\ outbox' \in Seq(OutboxAction) /\ Len(outbox') = Len(outbox)
      /\ DOMAIN outbox' = DOMAIN outbox
      /\ \A k \in DOMAIN outbox :
             outbox'[k].status = IF k = i THEN "IN_PROGRESS" ELSE outbox[k].status
  <2>1. "IN_PROGRESS" \in ActionStatus
    BY DEF ActionStatus
  <2> HIDE DEF i
  <2> QED  BY <1>1, <1>3, <2>1, MarkMoves
<1>6. Typed'
  BY <1>1, <1>4, <1>5 DEF Typed
<1>7. OrdersMove
  BY <1>1 DEF OrdersMove, RealMoves, RowMoves
<1>8. OrdersAreSound'
  BY <1>5, <1>6, <1>7, OrdersStaySound
<1>9. /\ ~Early /\ session # "NONE" /\ ~Early' /\ ~Submission'
      /\ \A k : ~Working(k) /\ (Working(k)' <=> k = i)
  BY <1>1, <1>4 DEF Early, Submission, SessionIsNew, Working
<1>10. /\ Hedges' = Hedges
       /\ \A k \in DOMAIN outbox : Unfinished(k)' = Unfinished(k) /\ Opening(k)' = Opening(k)
                                   /\ Live(k)' = Live(k)
  <2>1. Hedges' = Hedges
    BY <1>5, HedgesStay
  <2>2. \A k \in DOMAIN outbox : Unfinished(k)' = Unfinished(k)
    BY <1>1, <1>5 DEF Unfinished
  <2> QED  BY <1>1, <1>5, <2>1, <2>2 DEF Opening, Live, IsOpen, OutboxMoves
<1>11. Hedges \subseteq DOMAIN outbox
  BY DEF Hedges
<1>12. Ahead' = Tail(worker.todo)
  BY <1>4, <1>6, AheadOfTodo DEF Ahead
<1>13. /\ 1 \in DOMAIN Ahead /\ Ahead[1] = i
       /\ \A n \in DOMAIN Ahead' :
              n \in Nat /\ n + 1 \in DOMAIN Ahead /\ Ahead'[n] = Ahead[n + 1]
       /\ \A n \in DOMAIN Ahead : n # 1 => \E m \in DOMAIN Ahead' : Ahead'[m] = Ahead[n]
  BY <1>1, <1>2, <1>12, TailTypes
<1> HIDE DEF i
<1>14. WorkerIsPlaced'
  <2>1. ActionIsUnderWay'
    BY <1>3, <1>4, <1>5, <1>9 DEF ActionIsUnderWay, Current
  <2>2. PlansAreSeparate'
    BY <1>1, <1>4 DEF PlansAreSeparate
  <2> QED
    BY <1>1, <1>4, <1>9, <2>1, <2>2
       DEF EarlyIsClean, SessionIsNew, MakerIsRead, CommandsAreCovered, ResumptionIsClean
<1>15. AheadIsSaved'
  BY <1>5, <1>13 DEF AheadIsSaved
<1>16. SentIsFinished'
  <2> SUFFICES ASSUME session \in ActiveStatus, NEW h \in Hedges, Unfinished(h),
                      rows[h] # Absent, h # i
               PROVE  /\ worker'.mode = "recovery"
                      /\ \E n \in DOMAIN worker'.todo : worker'.todo[n] = h
    BY <1>1, <1>9, <1>10, <1>11 DEF SentIsFinished
  <2>1. worker.mode = "recovery" /\ \E n \in DOMAIN worker.todo : worker.todo[n] = h
    BY <1>9 DEF SentIsFinished
  <2> QED  BY <1>2, <1>4, <1>12, <1>13, <2>1
<1>17. HedgesAreLast'
  <2>1. ASSUME NEW m \in DOMAIN Ahead', NEW n \in DOMAIN Ahead', m < n,
               NEW h \in Hedges', Ahead'[m] = h, Live(h)'
        PROVE  /\ Ahead'[n] # h
               /\ \A k \in DOMAIN outbox' : Opening(k)' => Ahead'[n] # k
    <3>1. PICK p \in DOMAIN Ahead, q \in DOMAIN Ahead : p = m + 1 /\ q = n + 1
      BY <1>13
    <3>2. p < q /\ Ahead[p] = h /\ Ahead'[n] = Ahead[q]
      BY <1>13, <2>1, <3>1
    <3>3. h \in Hedges /\ Live(h)
      BY <1>10, <1>11, <2>1
    <3>4. Ahead[q] # h /\ \A k \in DOMAIN outbox : Opening(k) => Ahead[q] # k
      BY <3>2, <3>3 DEF HedgesAreLast
    <3> QED  BY <1>5, <1>10, <3>2, <3>4
  <2>2. ASSUME NEW h \in Hedges', Working(h)', NEW n \in DOMAIN Ahead'
        PROVE  /\ Ahead'[n] # h
               /\ \A k \in DOMAIN outbox' : Opening(k)' => Ahead'[n] # k
    <3>1. h = i /\ h \in Hedges /\ Live(h)
      BY <1>1, <1>9, <1>10, <2>2 DEF Live
    <3>2. PICK q \in DOMAIN Ahead : 1 < q /\ Ahead'[n] = Ahead[q]
      <4>1. n \in Nat /\ n > 0
        <5>1. Tail(worker.todo) \in Seq(1 .. MaxActions)
          BY <1>1, TailTypes DEF Actions
        <5> QED  BY <1>12, <5>1
      <4> QED  BY <1>13, <4>1
    <3>3. Ahead[q] # h /\ \A k \in DOMAIN outbox : Opening(k) => Ahead[q] # k
      BY <1>13, <3>1, <3>2 DEF HedgesAreLast
    <3> QED  BY <1>5, <1>10, <3>2, <3>3
  <2> QED  BY <2>1, <2>2 DEF HedgesAreLast
<1>18. OpeningsComeFirst'
  <2> SUFFICES ASSUME NEW k \in DOMAIN outbox, Opening(k)
               PROVE  /\ \A h \in Hedges : Unfinished(h) => k < h
                      /\ Working(k)' \/ \E n \in DOMAIN Ahead' : Ahead'[n] = k
    BY <1>5, <1>10, <1>11 DEF OpeningsComeFirst
  <2>1. PICK n \in DOMAIN Ahead : Ahead[n] = k
    BY <1>9 DEF OpeningsComeFirst
  <2> QED  BY <1>9, <1>13, <2>1 DEF OpeningsComeFirst
<1>19. FailureIsLast'
  BY <1>1, <1>5, <1>10, <1>11 DEF FailureIsLast
<1>20. UnknownIsLeft'
  <2> SUFFICES ASSUME NEW h \in Hedges, rows[h].state = "UNKNOWN"
               PROVE  (\A n \in DOMAIN Ahead' : Ahead'[n] # h) /\ h # i
    BY <1>1, <1>4, <1>10 DEF UnknownIsLeft
  <2> QED  BY <1>1, <1>13 DEF UnknownIsLeft
<1> QED  BY <1>6, <1>8, <1>14, <1>15, <1>16, <1>17, <1>18, <1>19, <1>20
(* The actions that were left unfinished, in the order of their creation.  *)
LEMMA PendingLists ==
    ASSUME Typed
    PROVE  /\ Pending \in Actions
           /\ \A n \in DOMAIN Pending : Pending[n] \in DOMAIN outbox /\ Unfinished(Pending[n])
           /\ \A k \in DOMAIN outbox : Unfinished(k) => \E n \in DOMAIN Pending : Pending[n] = k
           /\ \A m, n \in DOMAIN Pending : m < n => Pending[m] < Pending[n]
<1> DEFINE left == {i \in DOMAIN outbox : Unfinished(i)}
<1>1. DOMAIN outbox \subseteq 1 .. MaxActions
  BY EntryBoundsAssumption DEF Typed
<1>2. left \in SUBSET Slots /\ left \subseteq 1 .. MaxActions
  BY <1>1, EntryBoundsAssumption DEF Slots
<1>3. Pending = InOrder(left)
  BY DEF Pending, Unfinished
<1>4. \A k \in DOMAIN outbox : k \in left <=> Unfinished(k)
  OBVIOUS
<1>5. left \subseteq DOMAIN outbox
  OBVIOUS
<1> HIDE DEF left
<1>6. ListsBelow(left, MaxActions + 1, Pending)
  BY <1>2, <1>3, InOrderLists
<1>7. \A n \in DOMAIN Pending : Pending[n] \in left
  BY <1>6 DEF ListsBelow
<1>8. Pending \in Actions
  <2> DEFINE S == 1 .. MaxActions
  <2>1. Pending \in Seq(Nat) /\ \A n \in DOMAIN Pending : Pending[n] \in S
    BY <1>2, <1>6, <1>7 DEF ListsBelow
  <2> HIDE DEF S
  <2>2. Pending \in Seq(S)
    BY <2>1
  <2> QED  BY <2>2 DEF S, Actions
<1>9. \A k \in left : k < MaxActions + 1
  BY <1>2, EntryBoundsAssumption
<1> QED  BY <1>4, <1>5, <1>6, <1>7, <1>8, <1>9 DEF ListsBelow

LEMMA ResumeOutboxStep ==
    ASSUME Inv, ResumeOutbox
    PROVE  Inv'
<1> USE DEF Inv, OrdersAreSound, WorkerIsPlaced, DispatchIsOrdered
<1> DEFINE v == [worker EXCEPT !.todo = Pending]
<1>1. /\ worker.at = "resume" /\ worker' = Proceed(v)
      /\ \E visible \in BOOLEAN : charged' = FillsSeen(visible)
      /\ UNCHANGED <<session, outbox, rows, real, queue, faults>>
  BY DEF ResumeOutbox
<1>2. /\ charged' \in [Slots -> 0 .. Target]
      /\ \A i \in Slots : charged'[i] \in {charged[i], real[i].cum}
  BY <1>1, FillsSeenTypes
<1>3. /\ worker.planned = <<>> /\ worker.results = <<>> /\ worker.mode = "recovery"
      /\ session # "NONE"
  BY <1>1 DEF EarlyIsClean, Early, SessionIsNew
<1>4. /\ v \in Process /\ v.todo = Pending /\ v.planned = <<>> /\ v.mode = "recovery"
      /\ v.results = <<>>
  <2>1. worker \in Process /\ Pending \in Actions
    BY PendingLists DEF Typed
  <2> QED  BY <1>3, <2>1 DEF Process
<1> HIDE DEF v
<1>5. Goes(worker') /\ worker'.todo = Pending /\ worker'.mode = "recovery"
  BY <1>1, <1>4, ProceedGoes
<1>6. Typed'
  BY <1>1, <1>2, <1>5 DEF Typed, Goes
<1>7. OutboxMoves /\ OrdersMove
  BY <1>1, <1>2, NothingMoves
<1>8. OrdersAreSound'
  BY <1>6, <1>7, OrdersStaySound
<1>9. WorkerIsPlaced' /\ Ahead' = Pending /\ ~Early' /\ \A i : ~Working(i)'
  BY <1>1, <1>3, <1>5, GoesPlaced
<1>10. Hedges' = Hedges /\ \A i : Unfinished(i)' = Unfinished(i) /\ Opening(i)' = Opening(i)
                                  /\ Live(i)' = Live(i)
  BY <1>1 DEF Hedges, Unfinished, Opening, Live, IsOpen
<1>11. /\ \A n \in DOMAIN Ahead' : Ahead'[n] \in DOMAIN outbox /\ Unfinished(Ahead'[n])
       /\ \A k \in DOMAIN outbox : Unfinished(k) => \E n \in DOMAIN Ahead' : Ahead'[n] = k
       /\ \A m, n \in DOMAIN Ahead' : m < n => Ahead'[m] < Ahead'[n]
  BY <1>9, PendingLists
<1>12. Hedges \subseteq DOMAIN outbox /\ \A i \in DOMAIN outbox : i \in Int
  BY DEF Hedges, Typed
<1>13. AheadIsSaved'
  BY <1>1, <1>11 DEF AheadIsSaved
<1>14. SentIsFinished'
  BY <1>5, <1>9, <1>10, <1>11, <1>12 DEF SentIsFinished
<1>15. HedgesAreLast'
  <2> SUFFICES ASSUME NEW m \in DOMAIN Ahead', NEW n \in DOMAIN Ahead', m < n,
                      NEW i \in Hedges', Ahead'[m] = i, Live(i)'
               PROVE  /\ Ahead'[n] # i
                      /\ \A k \in DOMAIN outbox' : Opening(k)' => Ahead'[n] # k
    BY <1>9 DEF HedgesAreLast
  <2>1. i \in Hedges /\ Unfinished(i) /\ i < Ahead'[n]
    BY <1>10, <1>11
  <2>2. \A k \in DOMAIN outbox : Opening(k) => k < i
    BY <2>1 DEF OpeningsComeFirst
  <2> QED  BY <1>1, <1>10, <1>12, <2>1, <2>2
<1>16. OpeningsComeFirst'
  BY <1>1, <1>10, <1>11 DEF OpeningsComeFirst, Opening
<1>17. FailureIsLast'
  BY <1>1, <1>10 DEF FailureIsLast
<1>18. UnknownIsLeft'
  BY <1>1, <1>10 DEF UnknownIsLeft
<1> QED  BY <1>6, <1>8, <1>9, <1>13, <1>14, <1>15, <1>16, <1>17, <1>18
-----------------------------------------------------------------------------
(* Steps of the execution of an action.                                    *)

(* The action goes on: only its own order may be new, or become unknown.   *)
LEMMA KeepsWorkingStep ==
    ASSUME Inv, Typed', OrdersMove, outbox' = outbox,
           worker.at \in {"execute", "await"}, ~Submission,
           worker'.at \in {"await", "finish"}, ActionIsUnderWay',
           worker'.at = "await" => worker'.results = worker.results,
           worker'.todo = worker.todo, worker'.planned = worker.planned,
           worker'.mode = worker.mode, worker'.action = worker.action,
           \/ session' = session
           \/ session' \in {"PAUSED", "RECOVERING"}
           \/ session' = "OPEN" /\ \A i \in Hedges : outbox[i].status # "FAILED",
           \A i \in Hedges : i # worker.action =>
               /\ rows[i] = Absent => rows'[i] = Absent
               /\ rows'[i].state = "UNKNOWN" => rows[i].state = "UNKNOWN"
    PROVE  Inv'
<1> USE DEF Inv, OrdersAreSound, WorkerIsPlaced, DispatchIsOrdered
<1>1. worker.action # 0 /\ worker.action \in DOMAIN outbox
  <2>1. worker.action \in DOMAIN outbox
    BY DEF ActionIsUnderWay
  <2> QED  BY <2>1 DEF Typed
<1>2. ~Early /\ ~Early' /\ ~Submission' /\ \A i : Working(i)' = Working(i)
      /\ (Working(i) <=> i = worker.action)
  BY <1>1 DEF Early, Submission, Working
<1>3. OutboxMoves /\ \A i : Unfinished(i)' = Unfinished(i) /\ Opening(i)' = Opening(i)
  BY DEF OutboxMoves, Unfinished, Opening
<1>4. OrdersAreSound'
  BY <1>3, OrdersStaySound
<1>5. Hedges' = Hedges /\ \A i \in Hedges : Live(i)' => Live(i)
  BY <1>3, LiveStays DEF Hedges
<1>6. Ahead' = Ahead
  BY DEF Ahead
<1>7. session # "NONE" /\ session' # "NONE"
  BY <1>2 DEF SessionIsNew
<1>8. PlansAreSeparate'
  BY DEF PlansAreSeparate
<1>9. WorkerIsPlaced'
  BY <1>2, <1>7, <1>8
     DEF EarlyIsClean, SessionIsNew, MakerIsRead, CommandsAreCovered, ResumptionIsClean
<1>10. AheadIsSaved'
  BY <1>6 DEF AheadIsSaved
<1>11. SentIsFinished'
  <2> SUFFICES ASSUME session' \in ActiveStatus, NEW i \in Hedges, Unfinished(i),
                      rows'[i] # Absent, i # worker.action
               PROVE  worker.mode = "recovery" /\ \E n \in DOMAIN worker.todo : worker.todo[n] = i
    BY <1>2, <1>3, <1>5 DEF SentIsFinished
  <2>1. session \in ActiveStatus /\ rows[i] # Absent
    BY DEF ActiveStatus
  <2> QED  BY <1>2, <2>1 DEF SentIsFinished
<1>12. HedgesAreLast'
  BY <1>2, <1>3, <1>5, <1>6 DEF HedgesAreLast
<1>13. OpeningsComeFirst'
  BY <1>2, <1>3, <1>5, <1>6 DEF OpeningsComeFirst
<1>14. FailureIsLast'
  BY <1>3, <1>5 DEF FailureIsLast
<1>15. UnknownIsLeft'
  <2> SUFFICES ASSUME NEW i \in Hedges, rows'[i].state = "UNKNOWN"
               PROVE  \A n \in DOMAIN Ahead : Ahead[n] # i
    BY <1>5, <1>6 DEF UnknownIsLeft
  <2>1. CASE i = worker.action
    BY <1>2, <2>1 DEF HedgesAreLast
  <2>2. CASE i # worker.action
    BY <2>2 DEF UnknownIsLeft
  <2> QED  BY <2>1, <2>2
<1> QED  BY <1>4, <1>9, <1>10, <1>11, <1>12, <1>13, <1>14, <1>15

(* A failed execution of any other action sends the session to recovery.   *)
LEMMA RecoversStep ==
    ASSUME Inv, Typed', OrdersMove, UNCHANGED session,
           worker.at \in {"execute", "await"}, ~Submission,
           worker.action \notin Hedges, FailAction,
           \A i \in Hedges : /\ rows[i] = Absent => rows'[i] = Absent
                             /\ rows'[i].state = "UNKNOWN" => rows[i].state = "UNKNOWN"
    PROVE  Inv'
<1> USE DEF Inv, OrdersAreSound, WorkerIsPlaced, DispatchIsOrdered
<1> DEFINE a == worker.action
<1>1. a \in DOMAIN outbox /\ outbox' = Marked(outbox, a, "FAILED")
  BY DEF ActionIsUnderWay, FailAction
<1>2. /\ worker'.at = "recover" /\ worker'.todo = worker.todo
      /\ worker'.planned = worker.planned /\ worker'.results = worker.results
      /\ worker'.mode = worker.mode /\ worker'.action = a
  <2>1. worker \in Process /\ worker' = [worker EXCEPT !.at = "recover"]
    BY DEF Typed, FailAction
  <2> QED  BY <2>1 DEF Process
<1>3. /\ OutboxMoves /\ DOMAIN outbox' = DOMAIN outbox
      /\ \A k \in DOMAIN outbox :
             outbox'[k].status = IF k = a THEN "FAILED" ELSE outbox[k].status
  <2>1. "FAILED" \in ActionStatus
    BY DEF ActionStatus
  <2> QED  BY <1>1, <2>1, MarkMoves
<1> HIDE DEF a
<1>4. ~Early /\ ~Early' /\ ~Submission' /\ \A i : ~Working(i)' /\ (Working(i) => i = a)
  BY <1>2 DEF Early, Submission, Working, a
<1>5. OrdersAreSound'
  BY <1>3, OrdersStaySound
<1>6. Hedges' = Hedges /\ \A i \in Hedges : (Live(i)' => Live(i)) /\ i # a /\ i \in DOMAIN outbox
  BY <1>3, HedgesStay, LiveStays DEF Hedges, a
<1>7. \A k \in DOMAIN outbox : /\ Unfinished(k)' <=> Unfinished(k) /\ k # a
                               /\ Opening(k)' <=> Opening(k) /\ k # a
  BY <1>3 DEF Unfinished, Opening, OutboxMoves
<1>8. Ahead' = Ahead
  BY <1>2 DEF Ahead
<1>9. session # "NONE"
  BY <1>4 DEF SessionIsNew
<1>10. PlansAreSeparate'
  BY <1>2 DEF PlansAreSeparate
<1>11. WorkerIsPlaced'
  BY <1>2, <1>4, <1>9, <1>10
     DEF EarlyIsClean, SessionIsNew, ActionIsUnderWay, MakerIsRead, CommandsAreCovered,
         ResumptionIsClean
<1>12. AheadIsSaved'
  BY <1>3, <1>8 DEF AheadIsSaved
<1>13. SentIsFinished'
  <2> SUFFICES ASSUME session \in ActiveStatus, NEW i \in Hedges, Unfinished(i), rows'[i] # Absent
               PROVE  worker.mode = "recovery" /\ \E n \in DOMAIN worker.todo : worker.todo[n] = i
    BY <1>2, <1>4, <1>6, <1>7 DEF SentIsFinished
  <2> QED  BY <1>4, <1>6 DEF SentIsFinished
<1>14. HedgesAreLast'
  BY <1>3, <1>4, <1>6, <1>7, <1>8 DEF HedgesAreLast
<1>15. OpeningsComeFirst'
  BY <1>3, <1>4, <1>6, <1>7, <1>8 DEF OpeningsComeFirst
<1>16. FailureIsLast'
  BY <1>3, <1>6, <1>7 DEF FailureIsLast
<1>17. UnknownIsLeft'
  BY <1>2, <1>6, <1>8 DEF UnknownIsLeft
<1> QED  BY <1>5, <1>11, <1>12, <1>13, <1>14, <1>15, <1>16, <1>17
-----------------------------------------------------------------------------
(* A hedge fails: the session is paused and its stop is added.             *)

LEMMA StopOutboxTypes ==
    ASSUME NEW i \in Slots
    PROVE  /\ StopOutbox(i) \in Seq(OutboxAction) /\ Len(StopOutbox(i)) = 2
           /\ \A n \in 1 .. 2 : StopOutbox(i)[n].kind \notin {"SUBMIT_HEDGE", "MARK_OPEN"}
<1> DEFINE source == Source("failure", i, "ABSENT", 0)
           cancel == Action(Command("CANCEL_MAKER"), source)
           look == Action(Command("RECONCILE"), source)
<1>1. source \in EventSource
  BY EntryBoundsAssumption, TargetAssumption DEF Source, EventSource, Slots
<1> HIDE DEF source
<1>2. /\ cancel \in OutboxAction /\ cancel.kind = "CANCEL_MAKER"
      /\ look \in OutboxAction /\ look.kind = "RECONCILE"
  BY <1>1, TargetAssumption DEF Action, Command, OutboxAction, CommandKind, ActionStatus
<1>3. StopOutbox(i) = <<cancel, look>>
  BY DEF StopOutbox, source
<1> HIDE DEF cancel, look
<1> QED  BY <1>2, <1>3

LEMMA Joining ==
    ASSUME NEW S, NEW a \in Seq(S), NEW b \in Seq(S)
    PROVE  /\ a \o b \in Seq(S) /\ Len(a \o b) = Len(a) + Len(b)
           /\ \A k \in 1 .. Len(a) : (a \o b)[k] = a[k]
           /\ \A k \in 1 .. Len(b) : (a \o b)[Len(a) + k] = b[k]
<1>1. a \o b \in Seq(S) /\ Len(a \o b) = Len(a) + Len(b)
  OBVIOUS
<1>2. \A k \in 1 .. Len(a) : (a \o b)[k] = a[k]
  OBVIOUS
<1>3. \A k \in 1 .. Len(b) : (a \o b)[Len(a) + k] = b[k]
  <2> SUFFICES ASSUME NEW k \in 1 .. Len(b) PROVE (a \o b)[Len(a) + k] = b[k]
    OBVIOUS
  <2>1. Len(a) \in Nat /\ Len(b) \in Nat /\ DOMAIN a = 1 .. Len(a) /\ DOMAIN b = 1 .. Len(b)
    OBVIOUS
  <2>2. Len(a) + k \in Len(a) + 1 .. Len(a) + Len(b)
    BY <2>1
  <2> QED  BY <2>1, <2>2
<1> QED  BY <1>1, <1>2, <1>3

(* The actions of the stop, and after them what was to do.                 *)
StopAhead(i, len, todo) == [n \in DOMAIN StopOutbox(i) |-> len + n] \o todo

LEMMA StopIsAdded ==
    ASSUME Typed, NEW i \in DOMAIN outbox, i \in Slots,
           outbox' = Marked(outbox, i, "FAILED") \o StopOutbox(i),
           Len(outbox) + 2 <= MaxActions
    PROVE  /\ OutboxMoves /\ outbox' \in Seq(OutboxAction) /\ Len(outbox') = Len(outbox) + 2
           /\ Len(outbox) \in Nat
           /\ \A k \in DOMAIN outbox :
                  outbox'[k].status = IF k = i THEN "FAILED" ELSE outbox[k].status
           /\ \A k \in DOMAIN outbox' : k \notin DOMAIN outbox =>
                  outbox'[k].kind \notin {"SUBMIT_HEDGE", "MARK_OPEN"}
           /\ \A k \in 1 .. 2 : /\ Len(outbox) + k \in DOMAIN outbox'
                                /\ Len(outbox) + k \notin DOMAIN outbox
<1> DEFINE box == Marked(outbox, i, "FAILED")
           stop == StopOutbox(i)
           action == [outbox[i] EXCEPT !.status = "FAILED"]
<1>1. outbox \in Seq(OutboxAction) /\ Len(outbox) \in Nat /\ DOMAIN outbox = 1 .. Len(outbox)
  BY DEF Typed
<1>2. action \in OutboxAction
  <2>1. outbox[i] \in OutboxAction
    BY <1>1
  <2> QED  BY <2>1 DEF OutboxAction, ActionStatus
<1>3. box \in Seq(OutboxAction) /\ Len(box) = Len(outbox)
  <2>1. box = [outbox EXCEPT ![i] = action]
    BY DEF Marked
  <2> HIDE DEF action, box
  <2> QED  BY <1>1, <1>2, <2>1
<1>4. \A k \in DOMAIN outbox :
          /\ box[k].kind = outbox[k].kind /\ box[k].quantity = outbox[k].quantity
          /\ box[k].status = IF k = i THEN "FAILED" ELSE outbox[k].status
  BY <1>1 DEF Marked, OutboxAction
<1>5. /\ stop \in Seq(OutboxAction) /\ Len(stop) = 2
      /\ \A n \in 1 .. 2 : stop[n].kind \notin {"SUBMIT_HEDGE", "MARK_OPEN"}
  BY StopOutboxTypes
<1> HIDE DEF box, stop, action
<1>6. outbox' = box \o stop
  BY DEF box, stop
<1>7. /\ outbox' \in Seq(OutboxAction) /\ Len(outbox') = Len(outbox) + 2
      /\ DOMAIN outbox' = 1 .. Len(outbox) + 2
      /\ \A k \in DOMAIN outbox : outbox'[k] = box[k]
      /\ \A k \in 1 .. 2 : outbox'[Len(outbox) + k] = stop[k]
  <2> DEFINE both == box \o stop
             len == Len(outbox)
  <2>1. len \in Nat /\ Len(box) = len /\ box \in Seq(OutboxAction)
        /\ DOMAIN outbox = 1 .. len
    BY <1>1, <1>3
  <2> HIDE DEF len
  <2>2. stop \in Seq(OutboxAction) /\ Len(stop) = 2
    BY <1>5
  <2>3. /\ both \in Seq(OutboxAction) /\ Len(both) = Len(box) + Len(stop)
        /\ \A k \in 1 .. Len(box) : both[k] = box[k]
        /\ \A k \in 1 .. Len(stop) : both[Len(box) + k] = stop[k]
    <3> DEFINE S == OutboxAction
    <3>1. box \in Seq(S) /\ stop \in Seq(S)
      BY <2>1, <2>2
    <3> HIDE DEF S
    <3>2. /\ both \in Seq(S) /\ Len(both) = Len(box) + Len(stop)
          /\ \A k \in 1 .. Len(box) : both[k] = box[k]
          /\ \A k \in 1 .. Len(stop) : both[Len(box) + k] = stop[k]
      BY <3>1, Joining
    <3> QED  BY <3>2 DEF S
  <2> HIDE DEF both
  <2>5. DOMAIN both = 1 .. len + 2
    BY <2>1, <2>2, <2>3
  <2> QED  BY <1>6, <2>1, <2>2, <2>3, <2>5 DEF both, len
<1>8. \A k \in DOMAIN outbox' : k \notin DOMAIN outbox =>
          outbox'[k].kind \notin {"SUBMIT_HEDGE", "MARK_OPEN"}
  <2> SUFFICES ASSUME NEW k \in DOMAIN outbox', k \notin DOMAIN outbox
               PROVE  outbox'[k].kind \notin {"SUBMIT_HEDGE", "MARK_OPEN"}
    OBVIOUS
  <2>1. PICK n \in 1 .. 2 : k = Len(outbox) + n
    <3> DEFINE len == Len(outbox)
    <3>1. len \in Nat /\ k \in 1 .. len + 2 /\ k \notin 1 .. len
      BY <1>1, <1>7
    <3> HIDE DEF len
    <3>2. k - len \in 1 .. 2 /\ k = len + (k - len)
      BY <3>1
    <3> QED  BY <3>2 DEF len
  <2> QED  BY <1>5, <1>7, <2>1
<1>9. OutboxMoves
  <2>1. DOMAIN outbox \subseteq DOMAIN outbox'
    BY <1>1, <1>7
  <2>2. \A k \in DOMAIN outbox :
            /\ outbox'[k].kind = outbox[k].kind
            /\ outbox'[k].quantity = outbox[k].quantity
            /\ outbox'[k].status \in {"PENDING", "IN_PROGRESS"} =>
                   outbox[k].status \in {"PENDING", "IN_PROGRESS"}
    BY <1>4, <1>7
  <2>3. \A k \in DOMAIN outbox' : k \notin DOMAIN outbox => outbox'[k].kind # "SUBMIT_HEDGE"
    BY <1>8
  <2> QED  BY <2>1, <2>2, <2>3 DEF OutboxMoves, Unfinished
<1>10. \A k \in 1 .. 2 : /\ Len(outbox) + k \in DOMAIN outbox'
                          /\ Len(outbox) + k \notin DOMAIN outbox
  BY <1>1, <1>7
<1>11. \A k \in DOMAIN outbox :
           outbox'[k].status = IF k = i THEN "FAILED" ELSE outbox[k].status
  BY <1>4, <1>7
<1> QED  BY <1>1, <1>7, <1>8, <1>9, <1>10, <1>11

LEMMA StopIsAhead ==
    ASSUME NEW todo \in Actions, NEW len \in Nat, len + 2 <= MaxActions, NEW i \in Slots
    PROVE  /\ StopAhead(i, len, todo) \in Actions /\ StopAhead(i, len, todo) # <<>>
           /\ \A n \in DOMAIN StopAhead(i, len, todo) :
                  \/ StopAhead(i, len, todo)[n] \in {len + 1, len + 2}
                  \/ \E m \in DOMAIN todo : StopAhead(i, len, todo)[n] = todo[m]
<1> DEFINE S == 1 .. MaxActions
           fresh == [n \in DOMAIN StopOutbox(i) |-> len + n]
<1>1. DOMAIN StopOutbox(i) = 1 .. 2
  BY StopOutboxTypes
<1>2. len + 1 \in S /\ len + 2 \in S
  BY EntryBoundsAssumption
<1>3. todo \in Seq(S)
  BY DEF Actions
<1> HIDE DEF S
<1>4. fresh \in Seq(S) /\ Len(fresh) = 2 /\ fresh[1] = len + 1 /\ fresh[2] = len + 2
  BY <1>1, <1>2
<1> HIDE DEF fresh
<1> DEFINE all == fresh \o todo
           more == Len(todo)
<1>5. /\ all \in Seq(S) /\ Len(all) = 2 + more /\ more \in Nat
      /\ \A n \in 1 .. 2 : all[n] = fresh[n]
      /\ \A m \in 1 .. more : all[2 + m] = todo[m]
  <2>1. fresh \in Seq(S) /\ Len(fresh) = 2 /\ todo \in Seq(S)
    BY <1>3, <1>4
  <2>2. /\ all \in Seq(S) /\ Len(all) = Len(fresh) + Len(todo)
        /\ \A n \in 1 .. Len(fresh) : all[n] = fresh[n]
        /\ \A m \in 1 .. Len(todo) : all[Len(fresh) + m] = todo[m]
    <3>1. \A a, b \in Seq(S) : a \o b \in Seq(S) /\ Len(a \o b) = Len(a) + Len(b)
      BY Joining
    <3>2. \A a, b \in Seq(S) : \A n \in 1 .. Len(a) : (a \o b)[n] = a[n]
      BY Joining
    <3>3. \A a, b \in Seq(S) : \A m \in 1 .. Len(b) : (a \o b)[Len(a) + m] = b[m]
      BY Joining
    <3>4. all \in Seq(S) /\ Len(all) = Len(fresh) + Len(todo)
      BY <2>1, <3>1, Zenon
    <3>5. \A n \in 1 .. Len(fresh) : all[n] = fresh[n]
      BY <2>1, <3>2, Zenon
    <3>6. \A m \in 1 .. Len(todo) : all[Len(fresh) + m] = todo[m]
      BY <2>1, <3>3, Zenon
    <3> QED  BY <3>4, <3>5, <3>6
  <2>3. more \in Nat
    BY <2>1
  <2> HIDE DEF all
  <2> QED  BY <2>1, <2>2, <2>3 DEF more
<1>6. DOMAIN todo = 1 .. more /\ DOMAIN all = 1 .. 2 + more
  BY <1>3, <1>5
<1> HIDE DEF all, more
<1>7. all # <<>>
  BY <1>5
<1>8. \A n \in DOMAIN all : \/ all[n] \in {len + 1, len + 2}
                            \/ \E m \in DOMAIN todo : all[n] = todo[m]
  <2> SUFFICES ASSUME NEW n \in DOMAIN all
               PROVE  \/ all[n] \in {len + 1, len + 2}
                      \/ \E m \in DOMAIN todo : all[n] = todo[m]
    OBVIOUS
  <2>1. n \in 1 .. 2 \/ (n - 2 \in 1 .. more /\ n = 2 + (n - 2))
    BY <1>5, <1>6
  <2>2. CASE n \in 1 .. 2
    <3>1. all[n] = fresh[n]
      BY <1>5, <2>2
    <3> QED  BY <1>4, <2>2, <3>1
  <2>3. CASE n - 2 \in 1 .. more /\ n = 2 + (n - 2)
    <3>1. all[n] = todo[n - 2]
      <4>1. all[2 + (n - 2)] = todo[n - 2]
        BY <1>5, <2>3
      <4> QED  BY <2>3, <4>1, Zenon
    <3> QED  BY <1>6, <2>3, <3>1
  <2> QED  BY <2>1, <2>2, <2>3
<1> QED  BY <1>5, <1>7, <1>8 DEF S, Actions, all, fresh, StopAhead

LEMMA FailHedgeStep ==
    ASSUME Inv, FailHedge, OrdersMove, UNCHANGED <<real, charged, queue>>,
           rows' \in [Slots -> Snapshot], faults' \in 0 .. MaxFaults,
           worker.at \in {"execute", "await", "finish"}, worker.action \in Hedges,
           \A i \in Hedges : i # worker.action => rows'[i] = rows[i]
    PROVE  Inv'
<1> USE DEF Inv, OrdersAreSound, WorkerIsPlaced, DispatchIsOrdered
<1> DEFINE a == worker.action
           ahead == StopAhead(a, Len(outbox), worker.todo)
<1>1. /\ Len(outbox) + 2 <= MaxActions /\ session' = "PAUSED"
      /\ outbox' = Marked(outbox, a, "FAILED") \o StopOutbox(a)
      /\ worker' = [worker EXCEPT !.at = "dispatch", !.action = 0, !.resumed = FALSE,
                                  !.results = <<>>, !.todo = ahead]
  BY DEF FailHedge, StopAhead
<1>2. a \in DOMAIN outbox /\ a \in Slots /\ a # 0 /\ a \in Hedges
  BY HedgeTypes DEF Maker, Hedges
<1>3. /\ OutboxMoves /\ outbox' \in Seq(OutboxAction) /\ Len(outbox') = Len(outbox) + 2
      /\ Len(outbox) \in Nat
      /\ \A k \in DOMAIN outbox :
             outbox'[k].status = IF k = a THEN "FAILED" ELSE outbox[k].status
      /\ \A k \in DOMAIN outbox' : k \notin DOMAIN outbox =>
             outbox'[k].kind \notin {"SUBMIT_HEDGE", "MARK_OPEN"}
      /\ \A k \in 1 .. 2 : /\ Len(outbox) + k \in DOMAIN outbox'
                           /\ Len(outbox) + k \notin DOMAIN outbox
  <2> HIDE DEF a
  <2> QED  BY <1>1, <1>2, StopIsAdded
<1>4. ~Early /\ Working(a) /\ worker.planned = <<>> /\ Ahead = worker.todo
      /\ Unfinished(a) /\ Live(a)
  <2>1. ~Early /\ Working(a) /\ worker.planned = <<>>
    BY <1>2 DEF Early, Submission, Working, PlansAreSeparate
  <2>2. Unfinished(a)
    BY <1>2 DEF ActionIsUnderWay, Submission, Unfinished, Current
  <2> QED  BY <1>2, <2>1, <2>2, AheadOfTodo DEF Live
<1>5. worker \in Process /\ worker.todo \in Actions
  BY DEF Typed, Process
<1>6. /\ ahead \in Actions /\ ahead # <<>>
      /\ \A n \in DOMAIN ahead : \/ ahead[n] \in {Len(outbox) + 1, Len(outbox) + 2}
                                 \/ \E m \in DOMAIN worker.todo : ahead[n] = worker.todo[m]
  <2> HIDE DEF a
  <2> QED  BY <1>1, <1>2, <1>3, <1>5, StopIsAhead
<1> HIDE DEF ahead
<1>7. /\ worker' \in Process /\ worker'.at = "dispatch" /\ worker'.action = 0
      /\ worker'.todo = ahead /\ worker'.planned = <<>>
      /\ worker'.results = <<>> /\ worker'.mode = worker.mode
  <2>1. "dispatch" \in Place /\ 0 \in Slots /\ <<>> \in Results
    BY EntryBoundsAssumption DEF Place, Slots, Results
  <2> HIDE DEF a
  <2> QED  BY <1>1, <1>4, <1>5, <1>6, <2>1 DEF Process
<1> HIDE DEF a
<1>8. Goes(worker')
  BY <1>6, <1>7 DEF Goes
<1>9. Typed'
  BY <1>1, <1>3, <1>7 DEF Typed, SessionStatus
<1>10. OrdersAreSound'
  BY <1>3, <1>9, OrdersStaySound
<1>11. WorkerIsPlaced' /\ Ahead' = worker'.todo /\ ~Early' /\ \A i : ~Working(i)'
  BY <1>1, <1>8, GoesPlaced
<1>12. Hedges' = Hedges /\ Hedges \subseteq DOMAIN outbox
       /\ \A i \in Hedges : (Live(i)' => Live(i)) /\ (Live(i) => i = a)
  <2>1. \A i \in Hedges : Live(i) => i = a
    BY <1>2, <1>4 DEF OneIsLive
  <2>2. \A i \in Hedges : Live(i)' => Live(i)
    BY <1>3, LiveStays
  <2> QED  BY <1>3, <2>1, <2>2, HedgesStay DEF Hedges
<1>13. \A n \in DOMAIN Ahead' :
           \/ Ahead'[n] \in DOMAIN outbox' /\ Ahead'[n] \notin DOMAIN outbox
           \/ \E m \in DOMAIN Ahead : Ahead'[n] = Ahead[m]
  BY <1>3, <1>4, <1>6, <1>7, <1>11
<1>14. \A m \in DOMAIN Ahead :
           /\ Ahead[m] \in DOMAIN outbox /\ Ahead[m] # a
           /\ \A k \in DOMAIN outbox : Opening(k) => Ahead[m] # k
  BY <1>2, <1>4 DEF AheadIsSaved, HedgesAreLast
<1>15. \A i \in Hedges : ~Unfinished(i)'
  <2> SUFFICES ASSUME NEW i \in Hedges, Unfinished(i)' PROVE FALSE
    OBVIOUS
  <2>1. Live(i) /\ i \in DOMAIN outbox
    BY <1>12 DEF Live
  <2>2. i = a
    BY <1>12, <2>1
  <2> QED  BY <1>2, <1>3, <2>2 DEF Unfinished
<1>16. \A k \in DOMAIN outbox' : ~Opening(k)'
  <2> SUFFICES ASSUME NEW k \in DOMAIN outbox', Opening(k)' PROVE FALSE
    OBVIOUS
  <2>1. k \in DOMAIN outbox
    BY <1>3 DEF Opening
  <2>2. Opening(k) /\ k # a
    BY <1>3, <2>1 DEF Opening, Unfinished, OutboxMoves
  <2>3. ~Working(k)
    BY <2>2 DEF Working, a
  <2> QED  BY <1>4, <1>14, <2>1, <2>2, <2>3 DEF OpeningsComeFirst
<1>17. AheadIsSaved'
  BY <1>3, <1>13, <1>14 DEF AheadIsSaved, OutboxMoves
<1>18. SentIsFinished' /\ FailureIsLast' /\ OpeningsComeFirst'
  BY <1>1, <1>12, <1>15, <1>16
     DEF SentIsFinished, FailureIsLast, OpeningsComeFirst, ActiveStatus
<1>19. \A n \in DOMAIN Ahead' : Ahead'[n] # a
  BY <1>2, <1>13, <1>14
<1>20. HedgesAreLast'
  BY <1>11, <1>12, <1>19 DEF HedgesAreLast
<1>21. UnknownIsLeft'
  <2> SUFFICES ASSUME NEW i \in Hedges, rows'[i].state = "UNKNOWN"
               PROVE  \A n \in DOMAIN Ahead' : Ahead'[n] # i
    BY <1>7, <1>12 DEF UnknownIsLeft
  <2>1. CASE i = a
    BY <1>19, <2>1
  <2>2. CASE i # a
    <3>1. \A m \in DOMAIN Ahead : Ahead[m] # i
      BY <2>2 DEF UnknownIsLeft, a
    <3> QED  BY <1>12, <1>13, <3>1
  <2> QED  BY <2>1, <2>2
<1> QED  BY <1>9, <1>10, <1>11, <1>17, <1>18, <1>20, <1>21
-----------------------------------------------------------------------------
(* Steps of the execution, one call at a time.                             *)

(* What a call may make of the row of its order.                           *)
MayBecome(i, row) ==
    \/ /\ row = [state |-> "SUBMITTING", cum |-> 0]
       /\ \/ i = Maker
          \/ rows[i] = Absent /\ i \in Hedges /\ Unfinished(i)
    \/ /\ IsOpen(i)
       /\ \/ row = real'[i] /\ real'[i] # Absent
          \/ row = Rejected /\ real'[i] = Absent
          \/ row.state = "UNKNOWN" /\ row.cum \in {0, rows[i].cum}
          \/ /\ rows[i].state \in Acknowledged
             /\ row.state = "PENDING_CANCEL" /\ row.cum = rows[i].cum

LEMMA CallMoves ==
    ASSUME Typed, NEW i \in Slots, NEW row \in Snapshot, MayBecome(i, row),
           rows' = [rows EXCEPT ![i] = row], charged' = charged,
           \A k \in Slots : RealMoves(k)
    PROVE  /\ OrdersMove /\ rows' \in [Slots -> Snapshot] /\ rows'[i] = row
           /\ \A k \in Slots : k # i => rows'[k] = rows[k]
<1>1. /\ rows' \in [Slots -> Snapshot] /\ rows'[i] = row
      /\ \A k \in Slots : k # i => rows'[k] = rows[k]
  BY DEF Typed
<1>2. RowMoves(i)
  BY <1>1 DEF RowMoves, MayBecome
<1>3. \A k \in Slots : RowMoves(k)
  BY <1>1, <1>2 DEF RowMoves
<1> QED  BY <1>1, <1>3 DEF OrdersMove

LEMMA SnapshotStates ==
    ASSUME NEW row \in Snapshot
    PROVE  /\ row.cum \in 0 .. Target
           /\ row.state = "ABSENT" <=> row = Absent
           /\ \A state \in OrderState : [row EXCEPT !.state = state] \in Snapshot
<1>1. CASE row \in Order(Target)
  BY <1>1 DEF Snapshot, Order, OrderState, Absent
<1>2. CASE row = Absent
  BY <1>2, TargetAssumption DEF Snapshot, Order, OrderState, Absent
<1> QED  BY <1>1, <1>2 DEF Snapshot

LEMMA ResultTypes ==
    ASSUME NEW i \in Slots, NEW row \in Snapshot
    PROVE  <<Returned(i, row)>> \in Results
<1>1. Returned(i, row) \in Result
  BY DEF Returned, Result
<1> QED  BY <1>1 DEF Results

LEMMA ReturnsTypes ==
    ASSUME Typed, NEW results \in Results, Returns(results)
    PROVE  /\ worker' \in Process /\ worker'.at = "finish" /\ worker'.results = results
           /\ worker'.todo = worker.todo /\ worker'.planned = worker.planned
           /\ worker'.mode = worker.mode /\ worker'.action = worker.action
<1>1. worker \in Process /\ "finish" \in Place
  BY DEF Typed, Place
<1>2. worker' = [worker EXCEPT !.at = "finish", !.results = results]
  BY DEF Returns
<1> QED  BY <1>1, <1>2 DEF Process

LEMMA PlaceIsTaken ==
    ASSUME Typed, NEW at \in Place, worker' = [worker EXCEPT !.at = at]
    PROVE  /\ worker' \in Process /\ worker'.at = at /\ worker'.results = worker.results
           /\ worker'.todo = worker.todo /\ worker'.planned = worker.planned
           /\ worker'.mode = worker.mode /\ worker'.action = worker.action
BY DEF Typed, Process

(* An action that is executed is there, and it is not done.                *)
LEMMA ExecutedAction ==
    ASSUME Inv, worker.at = "execute"
    PROVE  /\ worker.action \in DOMAIN outbox /\ Unfinished(worker.action) /\ ~Submission
           /\ outbox[worker.action].status = "IN_PROGRESS"
BY DEF Inv, WorkerIsPlaced, ActionIsUnderWay, Submission, Unfinished, Current

LEMMA BeginHedgeStep ==
    ASSUME Inv, BeginHedge
    PROVE  Inv'
<1>1. Typed
  BY DEF Inv
<1> DEFINE a == worker.action
           sent == [state |-> "SUBMITTING", cum |-> 0]
<1>2. /\ worker.at = "execute" /\ outbox[a].kind = "SUBMIT_HEDGE" /\ rows[a] = Absent
      /\ rows' = [rows EXCEPT ![a] = sent]
      /\ worker' = [worker EXCEPT !.at = "await"]
      /\ UNCHANGED <<session, outbox, real, charged, queue, faults>>
  BY DEF BeginHedge, Executing, Current
<1>3. a \in DOMAIN outbox /\ Unfinished(a) /\ ~Submission /\ outbox[a].status = "IN_PROGRESS"
  BY <1>2, ExecutedAction
<1>4. a \in Hedges /\ a \in Slots
  <2>1. a \in Hedges
    BY <1>2, <1>3 DEF Hedges
  <2> QED  BY <1>1, <2>1, HedgeSlots
<1>5. sent \in Snapshot /\ MayBecome(a, sent)
  BY <1>2, <1>3, <1>4, TargetAssumption DEF Snapshot, Order, OrderState, MayBecome
<1>6. \A k \in Slots : RealMoves(k)
  BY <1>2 DEF RealMoves
<1> HIDE DEF sent
<1>7. /\ OrdersMove /\ rows' \in [Slots -> Snapshot] /\ rows'[a] = sent
      /\ \A k \in Slots : k # a => rows'[k] = rows[k]
  <2> HIDE DEF a
  <2> QED  BY <1>1, <1>2, <1>4, <1>5, <1>6, CallMoves
<1>8. /\ worker' \in Process /\ worker'.at = "await" /\ worker'.results = worker.results
      /\ worker'.todo = worker.todo /\ worker'.planned = worker.planned
      /\ worker'.mode = worker.mode /\ worker'.action = worker.action
  <2>1. "await" \in Place
    BY DEF Place
  <2> QED  BY <1>1, <1>2, <2>1, PlaceIsTaken
<1>9. Typed'
  BY <1>1, <1>2, <1>7, <1>8 DEF Typed
<1>10. ActionIsUnderWay'
  BY <1>2, <1>3, <1>4, <1>7, <1>8 DEF ActionIsUnderWay, Current, Hedges, sent
<1>11. \A i \in Hedges : i # a => rows'[i] = rows[i]
  BY <1>1, <1>7, HedgeSlots
<1> QED  BY <1>2, <1>3, <1>7, <1>8, <1>9, <1>10, <1>11, KeepsWorkingStep

LEMMA ResumeHedgeStep ==
    ASSUME Inv, ResumeHedge
    PROVE  Inv'
<1>1. Typed
  BY DEF Inv
<1> DEFINE a == worker.action
           row == IF rows[a].state = "UNKNOWN" THEN Reconciled(a) ELSE rows[a]
<1>2. /\ worker.at = "execute" /\ outbox[a].kind = "SUBMIT_HEDGE"
      /\ rows' = [rows EXCEPT ![a] = row] /\ Returns(<<Returned(a, row)>>)
      /\ UNCHANGED <<session, outbox, real, charged, queue, faults>>
  BY DEF ResumeHedge, Executing, Current
<1>3. a \in DOMAIN outbox /\ Unfinished(a) /\ ~Submission /\ outbox[a].status = "IN_PROGRESS"
  BY <1>2, ExecutedAction
<1>4. a \in Hedges /\ a \in Slots
  <2>1. a \in Hedges
    BY <1>2, <1>3 DEF Hedges
  <2> QED  BY <1>1, <2>1, HedgeSlots
<1>5. row = rows[a]
  <2>1. rows[a].state # "UNKNOWN"
    BY <1>2, <1>4 DEF Inv, DispatchIsOrdered, UnknownIsLeft
  <2> QED  BY <2>1
<1>6. row \in Snapshot
  BY <1>1, <1>4, <1>5, SlotTypes
<1> HIDE DEF row
<1>7. rows' = rows
  BY <1>1, <1>2, <1>4, <1>5 DEF Typed
<1>8. <<Returned(a, row)>> \in Results
  BY <1>4, <1>6, ResultTypes
<1>9. /\ worker' \in Process /\ worker'.at = "finish"
      /\ worker'.todo = worker.todo /\ worker'.planned = worker.planned
      /\ worker'.mode = worker.mode /\ worker'.action = worker.action
  BY <1>1, <1>2, <1>8, ReturnsTypes
<1>10. Typed'
  BY <1>1, <1>2, <1>7, <1>9 DEF Typed
<1>11. OrdersMove
  BY <1>1, <1>2, <1>7, NothingMoves
<1>12. ActionIsUnderWay'
  BY <1>2, <1>3, <1>9 DEF ActionIsUnderWay, Current, StatusAfter
<1> QED  BY <1>2, <1>3, <1>7, <1>9, <1>10, <1>11, <1>12, KeepsWorkingStep

LEMMA SetStatusStep ==
    ASSUME Inv, SetStatus
    PROVE  Inv'
<1>1. Typed
  BY DEF Inv
<1> DEFINE a == worker.action
<1>2. /\ worker.at = "execute" /\ outbox[a].kind \in {"MARK_OPEN", "PAUSE", "RECOVER"}
      /\ session' = StatusAfter[outbox[a].kind] /\ Returns(<<>>)
      /\ UNCHANGED <<outbox, rows, real, charged, queue, faults>>
  BY DEF SetStatus, Current, StatusAfter
<1>3. a \in DOMAIN outbox /\ Unfinished(a) /\ ~Submission /\ outbox[a].status = "IN_PROGRESS"
  BY <1>2, ExecutedAction
<1>4. \/ session' \in {"PAUSED", "RECOVERING"}
      \/ session' = "OPEN" /\ outbox[a].kind = "MARK_OPEN"
  BY <1>2 DEF StatusAfter
<1>5. session' = "OPEN" => \A i \in Hedges : outbox[i].status # "FAILED"
  BY <1>3, <1>4 DEF Inv, DispatchIsOrdered, FailureIsLast, Opening
<1>6. /\ worker' \in Process /\ worker'.at = "finish" /\ worker'.results = <<>>
      /\ worker'.todo = worker.todo /\ worker'.planned = worker.planned
      /\ worker'.mode = worker.mode /\ worker'.action = worker.action
  <2>1. <<>> \in Results
    BY DEF Results
  <2> QED  BY <1>1, <1>2, <2>1, ReturnsTypes
<1>7. Typed'
  BY <1>1, <1>2, <1>4, <1>6 DEF Typed, SessionStatus
<1>8. OrdersMove
  BY <1>1, <1>2, NothingMoves
<1>9. ActionIsUnderWay'
  BY <1>2, <1>3, <1>6 DEF ActionIsUnderWay, Current
<1> QED  BY <1>2, <1>3, <1>4, <1>5, <1>6, <1>7, <1>8, <1>9, KeepsWorkingStep
LEMMA FailActionTypes ==
    ASSUME Typed, worker.action \in DOMAIN outbox, FailAction
    PROVE  outbox' \in Seq(OutboxAction) /\ Len(outbox') = Len(outbox) /\ worker' \in Process
<1>1. "FAILED" \in ActionStatus /\ "recover" \in Place
  BY DEF ActionStatus, Place
<1>2. outbox' = Marked(outbox, worker.action, "FAILED")
      /\ worker' = [worker EXCEPT !.at = "recover"]
  BY DEF FailAction
<1> QED  BY <1>1, <1>2, MarkMoves, PlaceIsTaken

LEMMA BeginCancelStep ==
    ASSUME Inv, BeginCancel
    PROVE  Inv'
<1>1. Typed
  BY DEF Inv
<1> DEFINE a == worker.action
           asked == [rows[Maker] EXCEPT !.state = "PENDING_CANCEL"]
<1>2. /\ worker.at = "execute" /\ outbox[a].kind = "CANCEL_MAKER"
      /\ UNCHANGED <<session, real, charged, queue, faults>>
  BY DEF BeginCancel, Executing, Current
<1>3. a \in DOMAIN outbox /\ Unfinished(a) /\ ~Submission /\ outbox[a].status = "IN_PROGRESS"
      /\ a \notin Hedges
  BY <1>2, ExecutedAction DEF Hedges
<1>4. rows[Maker] \in Snapshot
  BY <1>1, MakerIsASlot, SlotTypes
<1>5. CASE Returns(<<Returned(Maker, rows[Maker])>>) /\ UNCHANGED <<outbox, rows>>
  <2>1. <<Returned(Maker, rows[Maker])>> \in Results
    BY <1>4, MakerIsASlot, ResultTypes
  <2>2. /\ worker' \in Process /\ worker'.at = "finish"
        /\ worker'.todo = worker.todo /\ worker'.planned = worker.planned
        /\ worker'.mode = worker.mode /\ worker'.action = worker.action
    BY <1>1, <1>5, <2>1, ReturnsTypes
  <2>3. Typed'
    BY <1>1, <1>2, <1>5, <2>2 DEF Typed
  <2>4. OrdersMove
    BY <1>1, <1>2, <1>5, NothingMoves
  <2>5. ActionIsUnderWay'
    BY <1>2, <1>3, <1>5, <2>2 DEF ActionIsUnderWay, Current, StatusAfter
  <2> QED  BY <1>2, <1>3, <1>5, <2>2, <2>3, <2>4, <2>5, KeepsWorkingStep
<1>6. CASE /\ rows[Maker].state \in AllowedFrom["CANCEL_REQUESTED"]
           /\ rows' = [rows EXCEPT ![Maker].state = "PENDING_CANCEL"]
           /\ worker' = [worker EXCEPT !.at = "await"]
           /\ UNCHANGED outbox
  <2>1. asked \in Snapshot /\ asked.state = "PENDING_CANCEL" /\ asked.cum = rows[Maker].cum
    <3>1. "PENDING_CANCEL" \in OrderState
      BY DEF OrderState
    <3> QED  BY <1>4, <3>1, SnapshotStates DEF Snapshot, Order, Absent
  <2>2. rows[Maker].state \in {"NEW", "PARTIALLY_FILLED"}
    BY <1>6 DEF AllowedFrom
  <2>3. MayBecome(Maker, asked)
    BY <2>1, <2>2 DEF MayBecome, Acknowledged, IsOpen, IsTerminal, TerminalOrderState, Absent
  <2>4. \A k \in Slots : RealMoves(k)
    BY <1>2 DEF RealMoves
  <2>5. rows' = [rows EXCEPT ![Maker] = asked]
    BY <1>6
  <2> HIDE DEF asked
  <2>6. /\ OrdersMove /\ rows' \in [Slots -> Snapshot] /\ rows'[Maker] = asked
        /\ \A k \in Slots : k # Maker => rows'[k] = rows[k]
    BY <1>1, <1>2, <2>1, <2>3, <2>4, <2>5, MakerIsASlot, CallMoves
  <2>7. /\ worker' \in Process /\ worker'.at = "await" /\ worker'.results = worker.results
        /\ worker'.todo = worker.todo /\ worker'.planned = worker.planned
        /\ worker'.mode = worker.mode /\ worker'.action = worker.action
    <3>1. "await" \in Place
      BY DEF Place
    <3> QED  BY <1>1, <1>6, <3>1, PlaceIsTaken
  <2>8. Typed'
    BY <1>1, <1>2, <1>6, <2>6, <2>7 DEF Typed
  <2>9. ActionIsUnderWay'
    BY <1>2, <1>3, <1>6, <2>1, <2>6, <2>7 DEF ActionIsUnderWay, Current
  <2>10. \A i \in Hedges : rows'[i] = rows[i]
    BY <1>1, <2>6, HedgeSlots
  <2> QED  BY <1>2, <1>3, <1>6, <2>6, <2>7, <2>8, <2>9, <2>10, KeepsWorkingStep
<1>7. CASE FailAction /\ UNCHANGED rows
  <2>1. outbox' \in Seq(OutboxAction) /\ Len(outbox') = Len(outbox) /\ worker' \in Process
    BY <1>1, <1>3, <1>7, FailActionTypes
  <2>2. Typed'
    BY <1>1, <1>2, <1>7, <2>1 DEF Typed
  <2>3. OrdersMove
    BY <1>2, <1>7 DEF OrdersMove, RealMoves, RowMoves
  <2> QED  BY <1>2, <1>3, <1>7, <2>2, <2>3, RecoversStep
<1> QED  BY <1>5, <1>6, <1>7 DEF BeginCancel

LEMMA ReconciledRows ==
    ASSUME Typed, OrdersAreRecorded, UNCHANGED <<real, charged>>,
           rows' = [i \in Slots |-> rows'[i]],
           \A i \in Slots : rows'[i] \in {rows[i], Reconciled(i)}
    PROVE  /\ OrdersMove /\ rows' \in [Slots -> Snapshot]
           /\ \A i \in Hedges : /\ rows[i] = Absent => rows'[i] = Absent
                                /\ rows'[i].state = "UNKNOWN" => rows[i].state = "UNKNOWN"
<1>1. ASSUME NEW i \in Slots
      PROVE  /\ rows'[i] \in Snapshot /\ RowMoves(i)
             /\ rows[i] = Absent => rows'[i] = Absent
             /\ rows'[i].state = "UNKNOWN" => rows[i].state = "UNKNOWN"
  <2>1. rows[i] \in Snapshot /\ real[i] \in Snapshot /\ OrderIsRecorded(i)
    BY SlotTypes DEF OrdersAreRecorded
  <2>2. CASE rows'[i] = rows[i]
    BY <2>1, <2>2 DEF RowMoves
  <2>3. CASE rows[i] # Absent /\ real[i] # Absent /\ rows'[i] = real[i] /\ rows'[i] # rows[i]
    <3>1. IsOpen(i)
      BY <2>1, <2>3 DEF OrderIsRecorded, IsOpen
    <3>2. real[i].state # "UNKNOWN"
      BY <2>1, <2>3 DEF OrderIsRecorded, Native
    <3> QED  BY <2>1, <2>3, <3>1, <3>2 DEF RowMoves
  <2> QED  BY <2>2, <2>3 DEF Reconciled
<1>2. rows' \in [Slots -> Snapshot]
  BY <1>1
<1>3. OrdersMove
  BY <1>1 DEF OrdersMove, RealMoves
<1>4. \A i \in Hedges : i \in Slots
  BY HedgeSlots
<1> QED  BY <1>1, <1>2, <1>3, <1>4

LEMMA SubmittedLists ==
    ASSUME Typed
    PROVE  Submitted \in Seq(Nat) /\ \A n \in DOMAIN Submitted : Submitted[n] \in Slots
<1> DEFINE sent == {Maker} \cup {i \in Hedges : rows[i] # Absent}
<1>1. sent \in SUBSET Slots
  BY MakerIsASlot, HedgeSlots
<1>2. Submitted = InOrder(sent)
  BY DEF Submitted
<1> HIDE DEF sent
<1> QED  BY <1>1, <1>2, InOrderLists DEF ListsBelow

LEMMA ReconcileOrdersStep ==
    ASSUME Inv, ReconcileOrders
    PROVE  Inv'
<1>1. Typed /\ OrdersAreRecorded
  BY DEF Inv, OrdersAreSound
<1> DEFINE a == worker.action
           results == [n \in DOMAIN Submitted |->
                          Returned(Submitted[n], Reconciled(Submitted[n]))]
<1>2. /\ worker.at = "execute" /\ outbox[a].kind = "RECONCILE"
      /\ rows' = [i \in Slots |-> Reconciled(i)] /\ Returns(results)
      /\ UNCHANGED <<session, outbox, real, charged, queue, faults>>
  BY DEF ReconcileOrders, Executing, Current
<1>3. a \in DOMAIN outbox /\ Unfinished(a) /\ ~Submission /\ outbox[a].status = "IN_PROGRESS"
      /\ a \notin Hedges
  BY <1>2, ExecutedAction DEF Hedges
<1>4. /\ OrdersMove /\ rows' \in [Slots -> Snapshot]
      /\ \A i \in Hedges : /\ rows[i] = Absent => rows'[i] = Absent
                           /\ rows'[i].state = "UNKNOWN" => rows[i].state = "UNKNOWN"
  <2>1. rows' = [i \in Slots |-> rows'[i]]
        /\ \A i \in Slots : rows'[i] \in {rows[i], Reconciled(i)}
    BY <1>2
  <2> QED  BY <1>1, <1>2, <2>1, ReconciledRows
<1>5. results \in Results
  <2>1. \A i \in Slots : Returned(i, Reconciled(i)) \in Result
    BY <1>1, SlotTypes DEF Reconciled, Returned, Result
  <2>2. \A n \in DOMAIN Submitted : results[n] \in Result
    BY <1>1, <2>1, SubmittedLists
  <2>3. DOMAIN Submitted = 1 .. Len(Submitted) /\ Len(Submitted) \in Nat
    BY <1>1, SubmittedLists
  <2>4. results = [n \in 1 .. Len(Submitted) |-> results[n]]
    BY <2>3
  <2> HIDE DEF results
  <2> QED  BY <2>2, <2>3, <2>4 DEF Results
<1> HIDE DEF results
<1>6. /\ worker' \in Process /\ worker'.at = "finish"
      /\ worker'.todo = worker.todo /\ worker'.planned = worker.planned
      /\ worker'.mode = worker.mode /\ worker'.action = worker.action
  BY <1>1, <1>2, <1>5, ReturnsTypes
<1>7. Typed'
  BY <1>1, <1>2, <1>4, <1>6 DEF Typed
<1>8. ActionIsUnderWay'
  BY <1>2, <1>3, <1>6 DEF ActionIsUnderWay, Current, StatusAfter
<1> QED  BY <1>2, <1>3, <1>4, <1>6, <1>7, <1>8, KeepsWorkingStep

LEMMA FaultTypes ==
    ASSUME Typed, Fault
    PROVE  faults' \in 0 .. MaxFaults
BY EntryBoundsAssumption DEF Typed, Fault

LEMMA ReconcileFailsStep ==
    ASSUME Inv, ReconcileFails
    PROVE  Inv'
<1>1. Typed /\ OrdersAreRecorded
  BY DEF Inv, OrdersAreSound
<1> DEFINE a == worker.action
<1>2. /\ worker.at = "execute" /\ outbox[a].kind = "RECONCILE" /\ Fault /\ FailAction
      /\ UNCHANGED <<session, real, charged, queue>>
      /\ rows' = [i \in Slots |-> rows'[i]]
      /\ \A i \in Slots : rows'[i] \in {rows[i], Reconciled(i)}
  <2>1. PICK last \in DOMAIN Submitted :
            rows' = [i \in Slots |-> IF i < Submitted[last] THEN Reconciled(i) ELSE rows[i]]
    BY DEF ReconcileFails
  <2>2. rows' = [i \in Slots |-> rows'[i]]
        /\ \A i \in Slots : rows'[i] \in {rows[i], Reconciled(i)}
    BY <2>1
  <2> QED  BY <2>2 DEF ReconcileFails, Executing, Current
<1>3. a \in DOMAIN outbox /\ ~Submission /\ a \notin Hedges
  BY <1>2, ExecutedAction DEF Hedges
<1>4. /\ OrdersMove /\ rows' \in [Slots -> Snapshot]
      /\ \A i \in Hedges : /\ rows[i] = Absent => rows'[i] = Absent
                           /\ rows'[i].state = "UNKNOWN" => rows[i].state = "UNKNOWN"
  BY <1>1, <1>2, ReconciledRows
<1>5. Typed'
  <2>1. outbox' \in Seq(OutboxAction) /\ Len(outbox') = Len(outbox) /\ worker' \in Process
    BY <1>1, <1>2, <1>3, FailActionTypes
  <2>2. faults' \in 0 .. MaxFaults
    BY <1>1, <1>2, FaultTypes
  <2> QED  BY <1>1, <1>2, <1>4, <2>1, <2>2 DEF Typed
<1> QED  BY <1>2, <1>3, <1>4, <1>5, RecoversStep
-----------------------------------------------------------------------------
(* The answers of the exchange.                                            *)

LEMMA AwaitedIsASlot ==
    ASSUME Typed
    PROVE  Awaited \in Slots
BY MakerIsASlot, HedgeSlots DEF Awaited

(* A call is a submission that is on its way, or the maker's cancelation.  *)
LEMMA CallUnderWay ==
    ASSUME Inv, worker.at = "await"
    PROVE  /\ worker.action = 0 => Submission /\ session = "NONE" /\ outbox = <<>>
           /\ worker.action # 0 =>
                  /\ ~Submission /\ worker.action \in DOMAIN outbox
                  /\ outbox[worker.action].status = "IN_PROGRESS"
                  /\ outbox[worker.action].kind \in {"SUBMIT_HEDGE", "CANCEL_MAKER"}
           /\ Submitting => worker.action = 0 \/ worker.action \in Hedges
           /\ Canceling => /\ worker.action # 0 /\ worker.action \notin Hedges
                           /\ Awaited = Maker /\ rows[Maker].state = "PENDING_CANCEL"
<1> USE DEF Inv, WorkerIsPlaced
<1>1. CASE worker.action = 0
  <2>1. Submission /\ session = "NONE" /\ outbox = <<>> /\ rows[Maker].state = "SUBMITTING"
    BY <1>1 DEF Submission, SessionIsNew
  <2>2. worker.action \notin Hedges
    BY <2>1 DEF Hedges
  <2> QED  BY <1>1, <2>1, <2>2 DEF Canceling, Awaited
<1>2. CASE worker.action # 0
  <2>1. /\ ~Submission /\ worker.action \in DOMAIN outbox
        /\ outbox[worker.action].status = "IN_PROGRESS"
        /\ \/ worker.action \in Hedges /\ rows[worker.action].state = "SUBMITTING"
           \/ outbox[worker.action].kind = "CANCEL_MAKER" /\ rows[Maker].state = "PENDING_CANCEL"
    BY <1>2 DEF Submission, ActionIsUnderWay, Current
  <2>2. worker.action \in Hedges <=> outbox[worker.action].kind = "SUBMIT_HEDGE"
    BY <2>1 DEF Hedges
  <2> QED  BY <1>2, <2>1, <2>2 DEF Submitting, Canceling, Awaited
<1> QED  BY <1>1, <1>2

LEMMA CallReturnsStep ==
    ASSUME Inv, worker.at = "await", NEW row \in Snapshot, CallReturns(row),
           OrdersMove, rows' \in [Slots -> Snapshot], real' \in [Slots -> Snapshot],
           faults' \in 0 .. MaxFaults, UNCHANGED <<session, outbox, charged, queue>>,
           \A i \in Slots : i # Awaited => rows'[i] = rows[i]
    PROVE  Inv'
<1>1. Typed /\ EarlyIsClean
  BY DEF Inv, WorkerIsPlaced
<1>2. CASE worker.action = 0
  <2>1. Submission /\ session = "NONE" /\ outbox = <<>>
    BY <1>2, CallUnderWay
  <2>2. worker' = [worker EXCEPT !.at = "save", !.maker = row]
    BY <1>2 DEF CallReturns
  <2>3. worker \in Process /\ "save" \in Place
    BY <1>1 DEF Typed, Place
  <2>4. worker' \in Process
    BY <2>2, <2>3, PlaceTypes
  <2>5. /\ worker'.at = "save" /\ worker'.todo = worker.todo
        /\ worker'.planned = worker.planned /\ worker'.results = worker.results
        /\ worker'.mode = worker.mode /\ worker'.action = worker.action
    BY <2>2, <2>3 DEF Process
  <2>6. Typed'
    BY <1>1, <2>4 DEF Typed
  <2>7. /\ worker.todo = <<>> /\ worker.planned = <<>> /\ worker.results = <<>>
        /\ worker.mode = "recovery" /\ worker.action = 0
    BY <1>1, <2>1 DEF EarlyIsClean, Early
  <2>8. Early' /\ SessionIsNew'
    BY <2>1, <2>5 DEF SessionIsNew, Early, Submission
  <2>9. \A i \in Hedges : rows'[i].state # "UNKNOWN"
    BY <2>1 DEF Hedges
  <2> QED  BY <2>5, <2>6, <2>7, <2>8, <2>9, EarlyStep
<1>3. CASE worker.action # 0
  <2>1. /\ ~Submission /\ worker.action \in DOMAIN outbox
        /\ outbox[worker.action].status = "IN_PROGRESS"
        /\ outbox[worker.action].kind \in {"SUBMIT_HEDGE", "CANCEL_MAKER"}
    BY <1>3, CallUnderWay
  <2>2. Returns(<<Returned(Awaited, row)>>)
    BY <1>3 DEF CallReturns
  <2>3. <<Returned(Awaited, row)>> \in Results
    BY <1>1, AwaitedIsASlot, ResultTypes
  <2>4. /\ worker' \in Process /\ worker'.at = "finish"
        /\ worker'.todo = worker.todo /\ worker'.planned = worker.planned
        /\ worker'.mode = worker.mode /\ worker'.action = worker.action
    BY <1>1, <2>2, <2>3, ReturnsTypes
  <2>5. Typed'
    BY <1>1, <2>4 DEF Typed
  <2>6. ActionIsUnderWay'
    BY <2>1, <2>4 DEF ActionIsUnderWay, Current, StatusAfter
  <2>7. \A i \in Hedges : i # worker.action => rows'[i] = rows[i]
    <3>1. \A i \in Hedges : i \in Slots /\ i # Maker
      BY <1>1, HedgeSlots
    <3> QED  BY <3>1 DEF Awaited
  <2> QED  BY <2>1, <2>4, <2>5, <2>6, <2>7, KeepsWorkingStep
<1> QED  BY <1>2, <1>3

(* The answer to a submission.                                             *)
LEMMA SubmissionReturns ==
    ASSUME Inv, Submitting, NEW row \in Snapshot, CallReturns(row),
           rows' = [rows EXCEPT ![Awaited] = row],
           \/ row = real[Awaited] /\ real[Awaited] # Absent
           \/ row = Rejected /\ real[Awaited] = Absent
           \/ row = [state |-> "UNKNOWN", cum |-> 0],
           faults' \in 0 .. MaxFaults, UNCHANGED <<session, outbox, real, charged, queue>>
    PROVE  Inv'
<1>1. Typed /\ worker.at = "await" /\ rows[Awaited].state = "SUBMITTING"
  BY DEF Inv, Submitting
<1>2. Awaited \in Slots
  BY <1>1, AwaitedIsASlot
<1>3. IsOpen(Awaited)
  BY <1>1 DEF IsOpen, IsTerminal, TerminalOrderState, Absent
<1>4. MayBecome(Awaited, row) /\ \A k \in Slots : RealMoves(k)
  BY <1>3 DEF MayBecome, RealMoves
<1>5. /\ OrdersMove /\ rows' \in [Slots -> Snapshot] /\ rows'[Awaited] = row
      /\ \A k \in Slots : k # Awaited => rows'[k] = rows[k]
  BY <1>1, <1>2, <1>4, CallMoves
<1> QED  BY <1>1, <1>5, CallReturnsStep DEF Typed

LEMMA SubmitReturnsStep ==
    ASSUME Inv, SubmitAnswered \/ SubmitRejected \/ SubmitTimesOut
    PROVE  Inv'
<1>1. Typed /\ Awaited \in Slots /\ real[Awaited] \in Snapshot /\ faults \in 0 .. MaxFaults
  BY AwaitedIsASlot, SlotTypes DEF Inv, Typed
<1>2. Rejected \in Snapshot /\ [state |-> "UNKNOWN", cum |-> 0] \in Snapshot
  BY TargetAssumption DEF Rejected, Snapshot, Order, OrderState
<1>3. CASE SubmitAnswered
  BY <1>1, <1>3, SubmissionReturns DEF SubmitAnswered
<1>4. CASE SubmitRejected
  BY <1>1, <1>2, <1>4, FaultTypes, SubmissionReturns DEF SubmitRejected, Rejected
<1>5. CASE SubmitTimesOut
  <2>1. CASE real[Awaited] = Absent
    BY <1>1, <1>2, <1>5, <2>1, FaultTypes, SubmissionReturns DEF SubmitTimesOut
  <2>2. CASE real[Awaited] # Absent
    BY <1>1, <1>2, <1>5, <2>2, FaultTypes, SubmissionReturns DEF SubmitTimesOut
  <2> QED  BY <2>1, <2>2
<1> QED  BY <1>3, <1>4, <1>5

LEMMA SubmitFailsStep ==
    ASSUME Inv, SubmitFails
    PROVE  Inv'
<1> DEFINE row == [rows[Awaited] EXCEPT !.state = "UNKNOWN"]
<1>1. Typed /\ worker.at = "await" /\ rows[Awaited].state = "SUBMITTING" /\ Submitting
  BY DEF Inv, Submitting, SubmitFails
<1>2. /\ Awaited \in Slots /\ rows' = [rows EXCEPT ![Awaited] = row]
      /\ faults' \in 0 .. MaxFaults /\ UNCHANGED <<real, charged>>
  BY <1>1, AwaitedIsASlot, FaultTypes DEF SubmitFails
<1>3. row \in Snapshot /\ row.state = "UNKNOWN" /\ row.cum = rows[Awaited].cum
  <2>1. rows[Awaited] \in Snapshot /\ "UNKNOWN" \in OrderState
    BY <1>1, <1>2, SlotTypes DEF OrderState
  <2> QED  BY <2>1, SnapshotStates DEF Snapshot, Order, Absent
<1>4. MayBecome(Awaited, row) /\ \A k \in Slots : RealMoves(k)
  BY <1>1, <1>2, <1>3
     DEF MayBecome, RealMoves, IsOpen, IsTerminal, TerminalOrderState, Absent
<1> HIDE DEF row
<1>5. /\ OrdersMove /\ rows' \in [Slots -> Snapshot]
      /\ \A k \in Slots : k # Awaited => rows'[k] = rows[k]
  BY <1>1, <1>2, <1>3, <1>4, CallMoves
<1>6. CASE worker.action = 0
  <2>1. worker' = Off /\ queue' = <<>> /\ UNCHANGED <<session, outbox>>
    BY <1>6 DEF SubmitFails, StopProcess
  <2>2. Typed'
    BY <1>1, <1>2, <1>5, <2>1, OffIsTyped DEF Typed
  <2> QED  BY <1>5, <2>1, <2>2, StopStep
<1>7. CASE worker.action # 0
  <2>1. worker.action \in Hedges
    BY <1>1, <1>7, CallUnderWay
  <2>2. \A i \in Hedges : i # worker.action => rows'[i] = rows[i]
    BY <1>1, <1>5, <2>1, HedgeSlots DEF Awaited
  <2>3. FailHedge /\ UNCHANGED queue
    BY <1>7 DEF SubmitFails
  <2> QED  BY <1>1, <1>2, <1>5, <2>1, <2>2, <2>3, FailHedgeStep
<1> QED  BY <1>6, <1>7

LEMMA HedgeFailsStep ==
    ASSUME Inv, HedgeIsRefused \/ HedgeIsRejected
    PROVE  Inv'
<1>1. Typed
  BY DEF Inv
<1>2. /\ FailHedge /\ UNCHANGED <<rows, real, charged, queue>>
      /\ worker.at \in {"execute", "finish"} /\ worker.action \in Hedges
      /\ faults' \in 0 .. MaxFaults
  <2>1. CASE HedgeIsRefused
    <3>1. worker.at = "execute" /\ outbox[worker.action].kind = "SUBMIT_HEDGE"
      BY <2>1 DEF HedgeIsRefused, Executing, Current
    <3>2. worker.action \in Hedges
      BY <3>1, ExecutedAction DEF Hedges
    <3> QED  BY <1>1, <2>1, <3>1, <3>2, FaultTypes DEF HedgeIsRefused
  <2>2. CASE HedgeIsRejected
    BY <1>1, <2>2 DEF HedgeIsRejected, Typed
  <2> QED  BY <2>1, <2>2
<1>3. OrdersMove
  BY <1>2 DEF OrdersMove, RealMoves, RowMoves
<1> QED  BY <1>1, <1>2, <1>3, FailHedgeStep DEF Typed
(* The exchange cancels the maker: what has been sold stays sold.          *)
LEMMA CancelMoves ==
    ASSUME Inv, Canceling, real[Maker].state \in OpenAtExchange,
           real' = [real EXCEPT ![Maker] = Canceled]
    PROVE  /\ \A k \in Slots : RealMoves(k)
           /\ real' \in [Slots -> Snapshot] /\ real'[Maker] = Canceled
           /\ Canceled \in Snapshot /\ Canceled # Absent
<1>1. Typed /\ OrdersAreRecorded /\ Maker \in Slots
  BY MakerIsASlot DEF Inv, OrdersAreSound
<1>2. real[Maker] \in Snapshot /\ OrderIsRecorded(Maker)
  BY <1>1, SlotTypes DEF OrdersAreRecorded
<1>3. Canceled = [state |-> "CANCELED", cum |-> real[Maker].cum] /\ Canceled \in Snapshot
  <2>1. "CANCELED" \in OrderState
    BY DEF OrderState
  <2> QED  BY <1>2, <2>1, SnapshotStates DEF Canceled, Snapshot, Order, Absent
<1>4. real'[Maker] = Canceled /\ real' \in [Slots -> Snapshot]
      /\ \A k \in Slots : k # Maker => real'[k] = real[k]
  BY <1>1, <1>3 DEF Typed
<1>5. worker.at = "await" /\ rows[Maker].state = "PENDING_CANCEL"
  BY CallUnderWay DEF Canceling
<1>6. IsOpen(Maker) /\ ~IsTerminal(real[Maker]) /\ real[Maker] # Absent
  BY <1>5 DEF IsOpen, IsTerminal, TerminalOrderState, OpenAtExchange, Absent
<1>7. Native(Maker, Canceled) /\ real[Maker].cum <= Canceled.cum
  <2>1. real[Maker].cum \in 0 .. Target /\ real[Maker].cum <= Requested(Maker)
    BY <1>1, <1>2, <1>6, SlotTypes DEF OrderIsRecorded, Native
  <2> QED  BY <1>3, <2>1 DEF Native, IsTerminal, TerminalOrderState
<1> QED  BY <1>3, <1>4, <1>6, <1>7 DEF RealMoves, Absent

(* The answer to the cancelation of the maker.                             *)
LEMMA CancelationReturns ==
    ASSUME Inv, Canceling, NEW row \in Snapshot, CallReturns(row), row # Absent,
           row = real'[Maker], rows' = [rows EXCEPT ![Maker] = row],
           \A k \in Slots : RealMoves(k), real' \in [Slots -> Snapshot],
           faults' \in 0 .. MaxFaults, UNCHANGED <<session, outbox, charged, queue>>
    PROVE  Inv'
<1>1. Typed /\ worker.at = "await" /\ Maker \in Slots
  BY MakerIsASlot DEF Inv, Canceling
<1>2. Awaited = Maker /\ rows[Maker].state = "PENDING_CANCEL"
  BY <1>1, CallUnderWay
<1>3. MayBecome(Maker, row)
  BY <1>2 DEF MayBecome, IsOpen, IsTerminal, TerminalOrderState, Absent
<1>4. /\ OrdersMove /\ rows' \in [Slots -> Snapshot]
      /\ \A k \in Slots : k # Maker => rows'[k] = rows[k]
  BY <1>1, <1>3, CallMoves
<1> QED  BY <1>1, <1>2, <1>4, CallReturnsStep

LEMMA CancelAnsweredStep ==
    ASSUME Inv, CancelAnswered
    PROVE  Inv'
<1>1. /\ Canceling /\ real[Maker].state \in OpenAtExchange
      /\ real' = [real EXCEPT ![Maker] = Canceled]
      /\ rows' = [rows EXCEPT ![Maker] = Canceled] /\ CallReturns(Canceled)
      /\ UNCHANGED <<session, outbox, charged, queue, faults>>
  BY DEF CancelAnswered
<1>2. faults' \in 0 .. MaxFaults
  BY <1>1 DEF Inv, Typed
<1> QED  BY <1>1, <1>2, CancelMoves, CancelationReturns

(* The cancelation fails, whatever has become of the maker.                *)
LEMMA CancelationFails ==
    ASSUME Inv, Canceling, FailAction, NEW row \in Snapshot,
           rows' = [rows EXCEPT ![Maker] = row],
           row = rows[Maker] \/ row = [rows[Maker] EXCEPT !.state = "UNKNOWN"],
           \A k \in Slots : RealMoves(k), real' \in [Slots -> Snapshot],
           faults' \in 0 .. MaxFaults, UNCHANGED <<session, charged, queue>>
    PROVE  Inv'
<1>1. Typed /\ worker.at = "await" /\ Maker \in Slots /\ rows[Maker] \in Snapshot
  BY MakerIsASlot, SlotTypes DEF Inv, Canceling
<1>2. /\ worker.action # 0 /\ worker.action \notin Hedges
      /\ rows[Maker].state = "PENDING_CANCEL"
      /\ ~Submission /\ worker.action \in DOMAIN outbox
  BY <1>1, CallUnderWay
<1>3. MayBecome(Maker, row)
  <2>1. \/ row.state = "PENDING_CANCEL" /\ row.cum = rows[Maker].cum
        \/ row.state = "UNKNOWN" /\ row.cum = rows[Maker].cum
    BY <1>1, <1>2 DEF Snapshot, Order, Absent
  <2> QED
    BY <1>2, <2>1 DEF MayBecome, Acknowledged, IsOpen, IsTerminal, TerminalOrderState, Absent
<1>4. /\ OrdersMove /\ rows' \in [Slots -> Snapshot]
      /\ \A k \in Slots : k # Maker => rows'[k] = rows[k]
  BY <1>1, <1>3, CallMoves
<1>5. Typed'
  <2>1. outbox' \in Seq(OutboxAction) /\ Len(outbox') = Len(outbox) /\ worker' \in Process
    BY <1>1, <1>2, FailActionTypes
  <2> QED  BY <1>1, <1>4, <2>1 DEF Typed
<1>6. \A i \in Hedges : rows'[i] = rows[i]
  BY <1>1, <1>4, HedgeSlots
<1> QED  BY <1>1, <1>2, <1>4, <1>5, <1>6, RecoversStep

LEMMA CancelRefusedStep ==
    ASSUME Inv, CancelRefused
    PROVE  Inv'
<1>1. Typed /\ rows[Maker] \in Snapshot
  BY MakerIsASlot, SlotTypes DEF Inv
<1>2. /\ Canceling /\ FailAction
      /\ UNCHANGED <<session, rows, real, charged, queue, faults>>
  BY DEF CancelRefused
<1>3. rows' = [rows EXCEPT ![Maker] = rows[Maker]]
  BY <1>1, <1>2, MakerIsASlot DEF Typed
<1>4. /\ \A k \in Slots : RealMoves(k)
      /\ real' \in [Slots -> Snapshot] /\ faults' \in 0 .. MaxFaults
  BY <1>1, <1>2 DEF RealMoves, Typed
<1> QED  BY <1>1, <1>2, <1>3, <1>4, CancelationFails

LEMMA CancelTimesOutStep ==
    ASSUME Inv, CancelTimesOut
    PROVE  Inv'
<1>1. Typed /\ OrdersAreRecorded /\ Maker \in Slots
  BY MakerIsASlot DEF Inv, OrdersAreSound
<1>2. /\ Canceling /\ UNCHANGED <<session, charged, queue>>
      /\ faults' \in 0 .. MaxFaults
  BY <1>1, FaultTypes DEF CancelTimesOut
<1>3. worker.at = "await" /\ rows[Maker].state = "PENDING_CANCEL"
  BY <1>2, CallUnderWay DEF Canceling
<1>4. real[Maker] # Absent
  BY <1>1, <1>3 DEF OrdersAreRecorded, OrderIsRecorded, Acknowledged
<1>5. /\ \A k \in Slots : RealMoves(k)
      /\ real' \in [Slots -> Snapshot] /\ real'[Maker] # Absent
  <2>1. CASE real' = real
    BY <1>1, <1>4, <2>1 DEF RealMoves, Typed
  <2>2. CASE real' = [real EXCEPT ![Maker] = Canceled] /\ real[Maker].state \in OpenAtExchange
    BY <1>2, <2>2, CancelMoves
  <2> QED  BY <2>1, <2>2 DEF CancelTimesOut
<1>6. CASE /\ rows' = [rows EXCEPT ![Maker] = real'[Maker]]
           /\ CallReturns(real'[Maker]) /\ UNCHANGED outbox
  <2> DEFINE row == real'[Maker]
  <2>1. row \in Snapshot /\ row = real'[Maker] /\ row # Absent /\ CallReturns(row)
        /\ rows' = [rows EXCEPT ![Maker] = row]
    BY <1>1, <1>5, <1>6
  <2> HIDE DEF row
  <2> QED  BY <1>2, <1>5, <1>6, <2>1, CancelationReturns
<1>7. CASE rows' = [rows EXCEPT ![Maker].state = "UNKNOWN"] /\ FailAction
  <2> DEFINE row == [rows[Maker] EXCEPT !.state = "UNKNOWN"]
  <2>1. row \in Snapshot
    <3>1. rows[Maker] \in Snapshot /\ "UNKNOWN" \in OrderState
      BY <1>1, SlotTypes DEF OrderState
    <3> QED  BY <3>1, SnapshotStates
  <2>2. rows' = [rows EXCEPT ![Maker] = row] /\ row = [rows[Maker] EXCEPT !.state = "UNKNOWN"]
    BY <1>7
  <2> HIDE DEF row
  <2> QED  BY <1>2, <1>5, <1>7, <2>1, <2>2, CancelationFails
<1> QED  BY <1>6, <1>7 DEF CancelTimesOut
-----------------------------------------------------------------------------
(* The outcome of an action.                                               *)

LEMMA FinishedAction ==
    ASSUME Inv, worker.at = "finish"
    PROVE  /\ worker.action \in DOMAIN outbox /\ Unfinished(worker.action)
           /\ Current.kind \in DOMAIN StatusAfter => worker.results = <<>>
           /\ ~Early /\ session # "NONE" /\ worker.planned = <<>> /\ Ahead = worker.todo
           /\ worker \in Process /\ worker.results \in Results
           /\ \A i : Working(i) <=> i = worker.action
<1>1. Typed /\ ActionIsUnderWay /\ PlansAreSeparate /\ SessionIsNew
  BY DEF Inv, WorkerIsPlaced
<1>2. ~Early /\ worker.planned = <<>> /\ \A i : Working(i) <=> i = worker.action
  BY <1>1 DEF Early, Submission, PlansAreSeparate, Working
<1>3. /\ worker.action \in DOMAIN outbox /\ Unfinished(worker.action)
      /\ Current.kind \in DOMAIN StatusAfter => worker.results = <<>>
  BY <1>1 DEF ActionIsUnderWay, Current, Unfinished
<1>4. worker \in Process /\ worker.results \in Results
  BY <1>1 DEF Typed, Process
<1> QED  BY <1>1, <1>2, <1>3, <1>4, AheadOfTodo DEF SessionIsNew

LEMMA OutcomeIsUnknownStep ==
    ASSUME Inv, OutcomeIsUnknown
    PROVE  Inv'
<1> USE DEF Inv, OrdersAreSound, WorkerIsPlaced, DispatchIsOrdered
<1>1. /\ worker.at = "finish" /\ session' = "PAUSED" /\ worker.results # <<>>
      /\ worker' = EndDispatch(worker, worker.results)
      /\ UNCHANGED <<outbox, rows, real, charged, queue, faults>>
  BY DEF OutcomeIsUnknown, ReturnedState
<1>2. /\ worker.action \in DOMAIN outbox
      /\ Current.kind \notin DOMAIN StatusAfter
      /\ ~Early /\ worker.planned = <<>> /\ Ahead = worker.todo
      /\ worker \in Process /\ worker.results \in Results
      /\ \A i : Working(i) <=> i = worker.action
  BY <1>1, FinishedAction
<1>3. Goes(worker') /\ worker'.todo = worker.todo
  BY <1>1, <1>2, EndDispatchGoes
<1>4. Typed'
  BY <1>1, <1>3 DEF Typed, Goes, SessionStatus
<1>5. OutboxMoves /\ OrdersMove
  BY <1>1, NothingMoves
<1>6. OrdersAreSound'
  BY <1>4, <1>5, OrdersStaySound
<1>7. WorkerIsPlaced' /\ Ahead' = Ahead /\ ~Early' /\ \A i : ~Working(i)'
  BY <1>1, <1>2, <1>3, GoesPlaced
<1>8. Hedges' = Hedges /\ \A i : Unfinished(i)' = Unfinished(i) /\ Opening(i)' = Opening(i)
                                 /\ Live(i)' = Live(i)
  BY <1>1 DEF Hedges, Unfinished, Opening, Live, IsOpen
<1>9. ~Opening(worker.action)
  BY <1>2 DEF Opening, Current, StatusAfter
<1>10. AheadIsSaved' /\ SentIsFinished'
  BY <1>1, <1>7 DEF AheadIsSaved, SentIsFinished, ActiveStatus
<1>11. HedgesAreLast'
  BY <1>1, <1>7, <1>8 DEF HedgesAreLast
<1>12. OpeningsComeFirst'
  BY <1>1, <1>2, <1>7, <1>8, <1>9 DEF OpeningsComeFirst
<1>13. FailureIsLast'
  BY <1>1, <1>8 DEF FailureIsLast
<1>14. UnknownIsLeft'
  BY <1>1, <1>3, <1>7, <1>8 DEF UnknownIsLeft, Goes
<1> QED  BY <1>4, <1>6, <1>7, <1>10, <1>11, <1>12, <1>13, <1>14

LEMMA CompleteActionStep ==
    ASSUME Inv, CompleteAction
    PROVE  Inv'
<1> USE DEF Inv, OrdersAreSound, WorkerIsPlaced, DispatchIsOrdered
<1> DEFINE a == worker.action
<1>1. /\ worker.at = "finish" /\ outbox' = Marked(outbox, a, "COMPLETED")
      /\ \/ a \in Hedges /\ worker' = [worker EXCEPT !.at = "continue"]
         \/ worker' = EndDispatch(worker, worker.results)
      /\ UNCHANGED <<session, rows, real, charged, queue, faults>>
  BY DEF CompleteAction
<1>2. /\ a \in DOMAIN outbox /\ Unfinished(a)
      /\ ~Early /\ session # "NONE" /\ worker.planned = <<>> /\ Ahead = worker.todo
      /\ worker \in Process /\ worker.results \in Results
      /\ \A i : Working(i) <=> i = a
  BY <1>1, FinishedAction
<1>3. /\ OutboxMoves /\ outbox' \in Seq(OutboxAction) /\ Len(outbox') = Len(outbox)
      /\ DOMAIN outbox' = DOMAIN outbox
      /\ \A k \in DOMAIN outbox :
             outbox'[k].status = IF k = a THEN "COMPLETED" ELSE outbox[k].status
  <2>1. "COMPLETED" \in ActionStatus
    BY DEF ActionStatus
  <2> HIDE DEF a
  <2> QED  BY <1>1, <1>2, <2>1, MarkMoves
<1>4. Hedges' = Hedges /\ Hedges \subseteq DOMAIN outbox
  BY <1>3, HedgesStay DEF Hedges
<1>5. \A k \in DOMAIN outbox : /\ Unfinished(k)' <=> Unfinished(k) /\ k # a
                               /\ Opening(k)' <=> Opening(k) /\ k # a
  BY <1>3 DEF Unfinished, Opening, OutboxMoves
<1>6. OrdersMove
  BY <1>1 DEF OrdersMove, RealMoves, RowMoves
<1>7. \A i \in Hedges : Live(i)' => Live(i)
  BY <1>3, <1>6, LiveStays
<1>8. /\ worker' \in Process /\ worker'.todo = worker.todo /\ worker'.planned = <<>>
      /\ worker.mode = "recovery" => worker'.mode = "recovery"
      /\ \/ Goes(worker')
         \/ a \in Hedges /\ worker'.at = "continue" /\ worker'.mode = worker.mode
  <2>1. CASE a \in Hedges /\ worker' = [worker EXCEPT !.at = "continue"]
    <3>1. "continue" \in Place
      BY DEF Place
    <3> QED  BY <1>2, <2>1, <3>1, PlaceIsTaken
  <2>2. CASE worker' = EndDispatch(worker, worker.results)
    <3>1. /\ Goes(worker') /\ worker'.todo = worker.todo
          /\ worker.mode = "recovery" => worker'.mode = "recovery"
      BY <1>2, <2>2, EndDispatchGoes
    <3> QED  BY <3>1 DEF Goes
  <2> QED  BY <1>1, <2>1, <2>2
<1> HIDE DEF a
<1>9. Typed'
  BY <1>1, <1>3, <1>8 DEF Typed
<1>10. OrdersAreSound'
  BY <1>3, <1>6, <1>9, OrdersStaySound
<1>11. a \in Hedges => \A i \in Hedges : outbox'[i].status = "COMPLETED"
  <2> SUFFICES ASSUME a \in Hedges, NEW i \in Hedges, i # a
               PROVE  outbox[i].status = "COMPLETED"
    BY <1>3, <1>4
  <2>1. ~Unfinished(i)
    BY <1>2 DEF OneIsLive, Live
  <2>2. outbox[i].status # "FAILED"
    BY <1>2 DEF FailureIsLast
  <2>3. outbox[i].status \in ActionStatus
    <3>1. outbox \in Seq(OutboxAction) /\ i \in DOMAIN outbox
      BY <1>4 DEF Typed
    <3>2. outbox[i] \in OutboxAction
      BY <3>1
    <3> QED  BY <3>2 DEF OutboxAction
  <2> QED  BY <2>1, <2>2, <2>3 DEF Unfinished, ActionStatus
<1>12. WorkerIsPlaced' /\ Ahead' = Ahead /\ ~Early' /\ \A i : ~Working(i)'
  <2>1. CASE Goes(worker')
    BY <1>1, <1>2, <1>8, <2>1, GoesPlaced
  <2>2. CASE a \in Hedges /\ worker'.at = "continue" /\ worker'.mode = worker.mode
    <3>1. ~Early' /\ ~Submission' /\ \A i : ~Working(i)'
      BY <2>2 DEF Early, Submission, Working
    <3>2. ResumptionIsClean'
      BY <1>4, <1>11, <2>2 DEF ResumptionIsClean
    <3>3. PlansAreSeparate'
      BY <1>8, <2>2 DEF PlansAreSeparate
    <3>4. WorkerIsPlaced'
      BY <1>1, <1>2, <2>2, <3>1, <3>2, <3>3
         DEF EarlyIsClean, SessionIsNew, ActionIsUnderWay, MakerIsRead, CommandsAreCovered
    <3>5. Ahead' = Ahead
      BY <1>2, <1>8 DEF Ahead
    <3> QED  BY <3>1, <3>4, <3>5
  <2> QED  BY <1>8, <2>1, <2>2
<1>13. worker'.at \notin {"resume", "execute"}
  BY <1>8 DEF Goes
<1>14. AheadIsSaved'
  BY <1>3, <1>12 DEF AheadIsSaved
<1>15. SentIsFinished'
  <2> SUFFICES ASSUME session \in ActiveStatus, NEW i \in Hedges, Unfinished(i), i # a,
                      rows[i] # Absent
               PROVE  /\ worker'.mode = "recovery"
                      /\ \E n \in DOMAIN worker'.todo : worker'.todo[n] = i
    BY <1>1, <1>4, <1>5 DEF SentIsFinished
  <2>1. worker.mode = "recovery" /\ \E n \in DOMAIN worker.todo : worker.todo[n] = i
    BY <1>2 DEF SentIsFinished
  <2> QED  BY <1>8, <2>1
<1>16. HedgesAreLast'
  BY <1>3, <1>4, <1>5, <1>7, <1>12 DEF HedgesAreLast
<1>17. OpeningsComeFirst'
  BY <1>2, <1>3, <1>4, <1>5, <1>12 DEF OpeningsComeFirst
<1>18. FailureIsLast'
  BY <1>1, <1>3, <1>4, <1>5 DEF FailureIsLast
<1>19. UnknownIsLeft'
  BY <1>1, <1>4, <1>12, <1>13 DEF UnknownIsLeft
<1> QED
  BY <1>9, <1>10, <1>12, <1>14, <1>15, <1>16, <1>17, <1>18, <1>19
-----------------------------------------------------------------------------
(* The invariant holds, and what follows from it.                          *)

LEMMA InitInv ==
    ASSUME Init
    PROVE  Inv
<1>1. /\ session = "NONE" /\ outbox = <<>> /\ worker = Off /\ queue = <<>> /\ faults = 0
      /\ rows = [i \in Slots |-> Absent] /\ real = [i \in Slots |-> Absent]
      /\ charged = [i \in Slots |-> 0]
  BY DEF Init
<1>2. Hedges = {} /\ DOMAIN outbox = {}
  BY <1>1 DEF Hedges
<1>3. /\ worker.at = "down" /\ worker.todo = <<>> /\ worker.planned = <<>>
      /\ worker.results = <<>> /\ worker.mode = "recovery" /\ worker.action = 0
  BY <1>1 DEF Off
<1>4. Early /\ ~Submission /\ Ahead = <<>>
  BY <1>3 DEF Early, Submission, Ahead
<1>5. Typed
  <2>1. outbox \in Seq(OutboxAction) /\ Len(outbox) <= MaxActions
    BY <1>1, EntryBoundsAssumption
  <2>2. Absent \in Snapshot /\ 0 \in 0 .. Target
    BY TargetAssumption DEF Snapshot
  <2>3. queue \in Seq(EngineEvent) /\ worker \in Process
    BY <1>1, OffIsTyped
  <2> QED  BY <1>1, <2>1, <2>2, <2>3, EntryBoundsAssumption DEF Typed, SessionStatus
<1>6. OrdersAreSound
  <2>1. \A i \in Slots : rows[i] = Absent /\ real[i] = Absent /\ charged[i] = 0
    BY <1>1
  <2>2. OrdersAreRecorded
    BY <2>1 DEF OrdersAreRecorded, OrderIsRecorded, Acknowledged, IsOpen, IsTerminal,
                TerminalOrderState, Absent
  <2>3. ClaimsAreCovered
    <3> DEFINE claims == [i \in Hedges |-> Claim(i)]
    <3>1. DOMAIN claims = {}
      BY <1>2
    <3> HIDE DEF claims
    <3>2. \A n \in 1 .. MaxActions : At(claims, n) = At(claims, n) - At(claims, n)
      BY <3>1 DEF At
    <3>3. Total(claims) = Total(claims) - Total(claims) /\ Total(claims) \in Int
      BY <3>1, <3>2, TotalSubtracts
    <3>4. Total(claims) = 0
      BY <3>3
    <3>5. real[Maker].cum = 0
      BY <2>1, MakerIsASlot DEF Absent
    <3> QED  BY <3>4, <3>5 DEF ClaimsAreCovered, Claimed, claims
  <2> QED  BY <1>2, <2>2, <2>3 DEF OrdersAreSound, HedgesBuy, OneIsLive
<1>7. WorkerIsPlaced
  BY <1>1, <1>3, <1>4
     DEF WorkerIsPlaced, EarlyIsClean, SessionIsNew, ActionIsUnderWay, PlansAreSeparate,
         MakerIsRead, CommandsAreCovered, ResumptionIsClean
<1>8. DispatchIsOrdered
  BY <1>2, <1>4
     DEF DispatchIsOrdered, AheadIsSaved, SentIsFinished, HedgesAreLast, OpeningsComeFirst,
         FailureIsLast, UnknownIsLeft
<1> QED  BY <1>5, <1>6, <1>7, <1>8 DEF Inv

LEMMA StutterStep ==
    ASSUME Inv, UNCHANGED vars
    PROVE  Inv'
<1>1. UNCHANGED <<session, outbox, rows, real, charged, queue, worker, faults>> /\ Typed
  BY DEF vars, Inv
<1>2. Typed'
  BY <1>1 DEF Typed
<1>3. OrdersMove
  BY <1>1, NothingMoves
<1>4. SameWork
  BY <1>1 DEF SameWork
<1> QED  BY <1>1, <1>2, <1>3, <1>4, WorldStep

LEMMA NextInv ==
    ASSUME Inv, [Next]_vars
    PROVE  Inv'
<1>1. CASE Exchange
  BY <1>1, Exchanges
<1>2. CASE \E i \in Slots : StreamCommits(i) \/ StreamRepeats(i)
  BY <1>2, StreamStep
<1>3. CASE Startup
  BY <1>3, StartStep, SynchronizeStep, SubmitMakerStep, SaveSessionStep, ResumeOutboxStep,
     PlanStep DEF Startup
<1>4. CASE Planning
  BY <1>4, PlanStep, BeginPlanStep, IgnoreEventStep, DecideEventStep, PersistCommandStep,
     ActivateStep DEF Planning
<1>5. CASE Dispatching
  <2>1. CASE DispatchSkips \/ BeginDispatch \/ RecoverSession
    BY <2>1, DispatchSkipsStep, BeginDispatchStep, RecoverSessionStep
  <2>2. CASE BeginHedge \/ ResumeHedge \/ BeginCancel \/ ReconcileOrders \/ SetStatus
    BY <2>2, BeginHedgeStep, ResumeHedgeStep, BeginCancelStep, ReconcileOrdersStep,
       SetStatusStep
  <2>3. CASE SubmitAnswered \/ CancelAnswered \/ CancelRefused
    BY <2>3, SubmitReturnsStep, CancelAnsweredStep, CancelRefusedStep
  <2>4. CASE OutcomeIsUnknown \/ HedgeIsRejected \/ CompleteAction \/ ContinueSession
    BY <2>4, OutcomeIsUnknownStep, HedgeFailsStep, CompleteActionStep, ContinueSessionStep
  <2> QED  BY <1>5, <2>1, <2>2, <2>3, <2>4 DEF Dispatching
<1>6. CASE Failures
  <2>1. CASE PlanFails \/ HedgeIsRefused \/ ReconcileFails
    BY <2>1, PlanFailsStep, HedgeFailsStep, ReconcileFailsStep
  <2>2. CASE SubmitRejected \/ SubmitTimesOut \/ SubmitFails \/ CancelTimesOut
    BY <2>2, SubmitReturnsStep, SubmitFailsStep, CancelTimesOutStep
  <2>3. CASE \E i \in Slots : ExchangeExpiresHedge(i)
    BY <2>3, Exchanges
  <2>4. CASE Reconnect \/ Crash
    BY <2>4, ReconnectStep, CrashStep
  <2> QED  BY <1>6, <2>1, <2>2, <2>3, <2>4 DEF Failures
<1>7. CASE UNCHANGED vars
  BY <1>7, StutterStep
<1> QED  BY <1>1, <1>2, <1>3, <1>4, <1>5, <1>6, <1>7 DEF Next

LEMMA InvTypeOK ==
    ASSUME Inv
    PROVE  TypeOK
<1>1. Typed
  BY DEF Inv
<1>2. \A i \in DOMAIN outbox : /\ outbox[i].kind \in CommandKind
                               /\ outbox[i].quantity \in 0 .. Target
                               /\ outbox[i].status \in ActionStatus
  <2> SUFFICES ASSUME NEW i \in DOMAIN outbox PROVE outbox[i] \in OutboxAction
    BY DEF OutboxAction
  <2>1. outbox \in Seq(OutboxAction)
    BY <1>1 DEF Typed
  <2> QED  BY <2>1
<1>3. \A i \in Slots : /\ rows[i] = Absent \/ rows[i] \in Order(Target)
                       /\ real[i] = Absent \/ real[i] \in Order(Target)
  BY <1>1, SlotTypes DEF Snapshot
<1> QED  BY <1>1, <1>2, <1>3 DEF Typed, TypeOK

(* A hedge claims at least what it has bought.                             *)
LEMMA InvNeverOverHedged ==
    ASSUME Inv
    PROVE  NeverOverHedged
<1>1. Typed /\ HedgesBuy /\ OrdersAreRecorded /\ ClaimsAreCovered
  BY DEF Inv, OrdersAreSound
<1> DEFINE bought == [i \in Hedges |-> real[i].cum]
           fees == [i \in Hedges |-> Commission(real[i].cum)]
           net == [i \in Hedges |-> real[i].cum - Commission(real[i].cum)]
           claims == [i \in Hedges |-> Claim(i)]
<1>2. ASSUME NEW i \in Hedges
      PROVE  /\ real[i].cum \in Nat /\ Commission(real[i].cum) \in Nat /\ Claim(i) \in Nat
             /\ real[i].cum - Commission(real[i].cum) <= Claim(i)
  <2>1. /\ i \in Slots /\ real[i].cum \in 0 .. Target /\ Requested(i) \in 1 .. Target
    BY <1>1, HedgeTypes
  <2>2. Commission(real[i].cum) \in 0 .. real[i].cum
    BY <2>1, CommissionAssumption
  <2>3. real[i].cum <= Requested(i)
    <3>1. real[i] = Absent \/ real[i].cum <= Requested(i)
      BY <1>1, <2>1 DEF OrdersAreRecorded, OrderIsRecorded, Native
    <3> QED  BY <2>1, <3>1 DEF Absent
  <2> QED  BY <2>1, <2>2, <2>3 DEF Claim
<1>3. Total(net) = Total(bought) - Total(fees)
  <2>1. /\ \A n \in DOMAIN bought : bought[n] \in Int
        /\ \A n \in DOMAIN fees : fees[n] \in Int
        /\ \A n \in DOMAIN net : net[n] \in Int
        /\ \A n \in 1 .. MaxActions : At(net, n) = At(bought, n) - At(fees, n)
    BY <1>2 DEF At
  <2> HIDE DEF bought, fees, net
  <2> QED  BY <2>1, TotalSubtracts
<1>4. Total(net) <= Total(claims) + 0
  <2>1. /\ \A n \in DOMAIN net : net[n] \in Int
        /\ \A n \in DOMAIN claims : claims[n] \in Int
        /\ \A n \in 1 .. MaxActions :
               At(net, n) <= At(claims, n) + (IF n = 0 THEN 0 ELSE 0)
    BY <1>2 DEF At
  <2> HIDE DEF net, claims
  <2> QED  BY <2>1, TotalShifts
<1>5. Total(claims) \in Int /\ Total(net) \in Int
  <2>1. /\ \A n \in DOMAIN claims : claims[n] \in Nat
        /\ \A n \in DOMAIN bought : bought[n] \in Nat
        /\ \A n \in DOMAIN fees : fees[n] \in Nat
    BY <1>2
  <2>2. Total(claims) \in Nat /\ Total(bought) \in Nat /\ Total(fees) \in Nat
    <3> HIDE DEF claims, bought, fees
    <3> QED  BY <2>1, TotalHasMembers
  <2> HIDE DEF claims, bought, fees, net
  <2> QED  BY <1>3, <2>2
<1>6. Total(claims) <= real[Maker].cum
  BY <1>1 DEF ClaimsAreCovered, Claimed
<1>7. real[Maker].cum \in Nat
  BY <1>1, MakerIsASlot, SlotTypes
<1>8. NetBought = Total(bought) - Total(fees)
  BY DEF NetBought
<1> HIDE DEF bought, fees, net, claims
<1>9. NetBought <= real[Maker].cum
  BY <1>3, <1>4, <1>5, <1>6, <1>7, <1>8
<1> QED  BY <1>9 DEF NeverOverHedged

LEMMA InvOneHedgeAtATime ==
    ASSUME Inv
    PROVE  OneHedgeAtATime
<1> DEFINE open == {i \in Hedges : IsOpen(i)}
<1>1. \A i, j \in open : i = j
  BY DEF Inv, OrdersAreSound, OneIsLive, Live
<1> HIDE DEF open
<1>2. CASE open = {}
  BY <1>2, FS_EmptySet DEF OneHedgeAtATime, open
<1>3. CASE open # {}
  <2>1. PICK i \in open : open = {i}
    BY <1>1, <1>3
  <2>2. Cardinality({i}) = 1
    BY FS_Singleton
  <2> QED  BY <2>1, <2>2 DEF OneHedgeAtATime, open
<1> QED  BY <1>2, <1>3

LEMMA InvStops ==
    ASSUME Inv
    PROVE  FailedHedgeStops /\ ResumedHedgeIsKnown
BY DEF Inv, DispatchIsOrdered, FailureIsLast, UnknownIsLeft, FailedHedgeStops,
       ResumedHedgeIsKnown

(* Every reachable state of the entry satisfies the invariant.             *)
THEOREM EntryInvariant == Spec => []Inv
<1>1. Init => Inv
  BY InitInv
<1>2. Inv /\ [Next]_vars => Inv'
  BY NextInv
<1> QED  BY <1>1, <1>2, PTL DEF Spec

(* The state of the entry keeps its shape.                                 *)
THEOREM EntryTypes == Spec => []TypeOK
<1>1. Inv => TypeOK
  BY InvTypeOK
<1> QED  BY <1>1, EntryInvariant, PTL

(* No event, answer, retry or restart of the worker and its dispatcher     *)
(* makes the hedges buy more, net of commission, than the maker has sold.  *)
THEOREM NeverOverHedgedTheorem == Spec => []NeverOverHedged
<1>1. Inv => NeverOverHedged
  BY InvNeverOverHedged
<1> QED  BY <1>1, EntryInvariant, PTL

(* The dispatcher never submits a hedge while another one is open.         *)
THEOREM OneHedgeAtATimeTheorem == Spec => []OneHedgeAtATime
<1>1. Inv => OneHedgeAtATime
  BY InvOneHedgeAtATime
<1> QED  BY <1>1, EntryInvariant, PTL

(* _fail_hedge_and_stop is for good: a session with a failed hedge is      *)
(* never ENTERING, HEDGING or OPEN again.                                  *)
THEOREM FailedHedgeStopsTheorem == Spec => []FailedHedgeStops
<1>1. Inv => FailedHedgeStops
  BY InvStops
<1> QED  BY <1>1, EntryInvariant, PTL

(* A resumed hedge has been told by the exchange before it is dispatched.  *)
THEOREM ResumedHedgeIsKnownTheorem == Spec => []ResumedHedgeIsKnown
<1>1. Inv => ResumedHedgeIsKnown
  BY InvStops
<1> QED  BY <1>1, EntryInvariant, PTL

=============================================================================

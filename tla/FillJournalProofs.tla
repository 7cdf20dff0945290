------------------------- MODULE FillJournalProofs -------------------------
(***************************************************************************)
(* What holds of an order's row and journal for every quantity and every   *)
(* number of faults: the row is what its journal says, its price is of the *)
(* fills it counts, no fee is counted twice, a history that is taken for   *)
(* complete has every fee, and the row implements the ledger.              *)
(*                                                                         *)
(* None of these is inductive.  They rest on the exchange's order only     *)
(* growing, on every event (on the stream, in a thread's hands, in the     *)
(* journal) being news of that order, on one thread at a time having read  *)
(* the row it will write, and on the history being written down in order.  *)
(***************************************************************************)
EXTENDS FillJournal, SequenceTheorems, FiniteSetTheorems, WellFoundedInduction, TLAPS

-----------------------------------------------------------------------------
(* The exchange's order.                                                   *)

Final == {"FILLED", "CANCELED", "EXPIRED"}

NativeStatus == {"ABSENT", "NEW", "PARTIALLY_FILLED"} \cup Final

TradeRecord == [quantity : 1 .. Quantity, asset : FeeAsset, upTo : 1 .. Quantity,
                paid : Nat \ {0}]

(* What the first n trades filled, and what they cost.                     *)
UpTo(order, n) == IF n = 0 THEN 0 ELSE order.trades[n].upTo

PriceUpTo(order, n) ==
    IF n = 0 THEN NoPrice
    ELSE [paid |-> order.trades[n].paid, for |-> order.trades[n].upTo]

TradeCount(order) == Len(order.trades)

(* Trades add up, and the status says whether and how the order is over.   *)
IsSound(order) ==
    /\ order \in [status : NativeStatus, trades : Seq(TradeRecord)]
    /\ \A k \in 1 .. TradeCount(order) :
          /\ k <= UpTo(order, k)
          /\ UpTo(order, k) = UpTo(order, k - 1) + order.trades[k].quantity
    /\ \A i, j \in 0 .. TradeCount(order) : i < j => UpTo(order, i) < UpTo(order, j)
    /\ order.status = "ABSENT" => order = NoOrder
    /\ order.status \in {"NEW", "PARTIALLY_FILLED", "FILLED"} =>
          order.status = StateAfterTrade(Quantity, UpTo(order, TradeCount(order)))
    /\ order.status \in {"CANCELED", "EXPIRED"} =>
          UpTo(order, TradeCount(order)) < Quantity

(* The exchange may have gone from one order to the other.                 *)
Grows(before, after) ==
    /\ TradeCount(before) <= TradeCount(after)
    /\ \A k \in 1 .. TradeCount(before) : after.trades[k] = before.trades[k]
    /\ before.status \in Final => after = before
    /\ before.status # "ABSENT" => after.status # "ABSENT"

-----------------------------------------------------------------------------
(* Events.                                                                 *)

Heard(frame) == ToDomain(ParseOrderEvent(frame))

Acceptance ==
    [kind |-> "ACKNOWLEDGED", cum |-> 0, to |-> "NEW",
     id |-> [from |-> "stream", trade |-> NoValue, execution |-> "NEW"],
     average |-> NoPrice, last |-> NoValue, trade |-> NoValue, fee |-> NoValue,
     asset |-> "NONE"]

TradeNews(order, k) ==
    [kind |-> "TRADE", cum |-> UpTo(order, k),
     to |-> StateAfterTrade(Quantity, UpTo(order, k)),
     id |-> [from |-> "stream", trade |-> k, execution |-> "TRADE"],
     average |-> PriceUpTo(order, k), last |-> order.trades[k].quantity,
     trade |-> k, fee |-> order.trades[k].quantity,
     asset |-> order.trades[k].asset]

EndNews(order) ==
    [kind |-> order.status, cum |-> UpTo(order, TradeCount(order)), to |-> order.status,
     id |-> [from |-> "stream", trade |-> NoValue, execution |-> order.status],
     average |-> PriceUpTo(order, TradeCount(order)), last |-> NoValue,
     trade |-> NoValue, fee |-> NoValue, asset |-> "NONE"]

(* All the stream can ever say of the order as it is.                      *)
News(order) ==
    {e \in {Acceptance} : order.status # "ABSENT"}
    \cup {TradeNews(order, k) : k \in 1 .. TradeCount(order)}
    \cup {e \in {EndNews(order)} : order.status \in {"CANCELED", "EXPIRED"}}

FillOf(order, k) ==
    [trade |-> k, quantity |-> order.trades[k].quantity,
     fee |-> order.trades[k].quantity, asset |-> order.trades[k].asset]

(* All the trade history can ever say of it.                               *)
History(order) == {HistoryEvent(FillOf(order, k)) : k \in 1 .. TradeCount(order)}

(* The events the engine builds itself.                                    *)
OwnEvents ==
    {e \in JournalEvent :
        e.id = LocalId
        /\ e.kind \in {"SUBMIT_REQUESTED", "REQUEST_TIMED_OUT", "RECONCILED"}}

FrameRecord ==
    [e : Market, x : {"NEW", "TRADE", "CANCELED", "EXPIRED"}, X : NativeStatus,
     z : 0 .. Quantity, Z : Nat, ap : [paid : Nat, for : 0 .. Quantity],
     l : {NoValue} \cup 1 .. Quantity, t : {NoValue} \cup 1 .. Quantity,
     n : {NoValue} \cup 1 .. Quantity, N : FeeAsset \cup {"NONE"}]

-----------------------------------------------------------------------------
(* Rows and commits.                                                       *)

(* A row that the exchange's order backs, and its price with it.           *)
IsBacked(r, order) ==
    /\ r \in Row
    /\ r.state \notin {"ABSENT", "CREATED", "REJECTED"}
    /\ \E n \in 0 .. TradeCount(order) :
          /\ r.cum = UpTo(order, n)
          /\ r.average \in {NoPrice, PriceUpTo(order, n)}
          /\ r.state \in Final => r.state = order.status /\ n = TradeCount(order)

SubmittedRow == [NoRow EXCEPT !.state = "SUBMITTING"]

(* The new row counts the old one's fills and its event's, and no others.  *)
FollowsFrom(new, old, event) ==
    /\ old.cum <= new.cum /\ event.cum <= new.cum
    /\ new.cum \in {old.cum, event.cum}
    /\ IsTerminal(old) => new.state = old.state /\ new.cum = old.cum

IsCommitting(t) == thread[t].at \in {"commit", "writing"}

CommitIsSound(c) ==
    /\ c.event \in News(exch) \cup OwnEvents
    /\ IsBacked(c.row, exch)
    /\ FollowsFrom(c.row, row, c.event)
    /\ c.next # "free" => c.event \in OwnEvents
    /\ IF c.next = "sent"
       THEN row = NoRow /\ exch = NoOrder /\ ~request /\ c.row = SubmittedRow
       ELSE row # NoRow

-----------------------------------------------------------------------------
(* The invariant.                                                          *)

ThreadState == [at : {"free", "commit", "writing", "sent", "query"},
                next : {"free", "sent", "query"}, row : Row, event : JournalEvent]

FillRecord == [trade : 1 .. Quantity, quantity : 1 .. Quantity,
               fee : 1 .. Quantity, asset : FeeAsset]

WorkerState == [at : {"rest", "fetch", "backfill"}, known : SUBSET (1 .. Quantity),
                todo : SUBSET FillRecord]

Typed ==
    /\ TypeOK
    /\ thread \in [Locker -> ThreadState]
    /\ writer \in {"nobody"} \cup Locker
    /\ worker \in WorkerState
    /\ wire \in Seq(FrameRecord)

(* One thread holds the order's lock.                                      *)
LockIsExclusive ==
    /\ \A t, u \in Locker :
          thread[t].at # "free" /\ thread[u].at # "free" => t = u
    /\ thread["consumer"].at \notin {"sent", "query"}
    /\ thread["consumer"].next = "free"

(* The request is sent once, for an order that is on disk.                 *)
RequestComesFirst ==
    /\ request => exch = NoOrder /\ row # NoRow
    /\ exch # NoOrder => row # NoRow

RowIsBacked == row # NoRow => IsBacked(row, exch)

StreamIsNews == \A i \in 1 .. Len(wire) : Heard(wire[i]) \in News(exch)

CommitsAreSound ==
    /\ \A t \in Locker : IsCommitting(t) => CommitIsSound(thread[t])
    /\ thread["caller"].at = "sent" => row = SubmittedRow
    /\ thread["caller"].at = "query" => row # NoRow

JournalIsReal == journal \subseteq OwnEvents \cup News(exch) \cup History(exch)

(* A trade is written down from the history after all that came before it. *)
HistoryIsInOrder ==
    \A k \in 1 .. TradeCount(exch) :
        HistoryEvent(FillOf(exch, k)) \in journal =>
            1 .. (k - 1) \subseteq KnownTrades(journal)

WorkerIsBehind ==
    /\ worker.at = "fetch" => worker.known \subseteq KnownTrades(journal)
    /\ \A f \in worker.todo :
          /\ \E k \in 1 .. TradeCount(exch) : f = FillOf(exch, k)
          /\ \A j \in 1 .. (f.trade - 1) :
                \/ j \in KnownTrades(journal)
                \/ \E g \in worker.todo : g.trade = j

Inv ==
    /\ Typed /\ IsSound(exch) /\ LockIsExclusive /\ RequestComesFirst
    /\ RowIsBacked /\ StreamIsNews /\ CommitsAreSound
    /\ JournalIsReal /\ RowIsItsJournal /\ HistoryIsInOrder /\ WorkerIsBehind
-----------------------------------------------------------------------------
(* Sums over finite sets of <<identity, quantity>> pairs.                  *)

LEMMA LeastNumber ==
    ASSUME NEW numbers \in SUBSET Nat, numbers # {}
    PROVE  \E least \in numbers : \A n \in numbers : least <= n
<1> DEFINE less == {pair \in Nat \X Nat : pair[1] < pair[2]}
<1>1. IsWellFoundedOn(less, Nat)
  BY NatLessThanWellFounded DEF OpToRel
<1>2. PICK least \in numbers : \A n \in numbers : ~(<<n, least>> \in less)
  <2> HIDE DEF less
  <2> QED BY <1>1, WFMin
<1>3. ASSUME NEW n \in numbers PROVE least <= n
  <2>1. least \in Nat /\ n \in Nat /\ ~(n < least)
    BY <1>2
  <2> QED BY <2>1
<1> QED BY <1>3

IsPairSet(S) == IsFiniteSet(S) /\ \A x \in S : x[2] \in Nat

Pick(s) == CHOOSE x \in s : TRUE

LEMMA SubsetsArePairSets ==
    ASSUME NEW S, IsPairSet(S), NEW s \in SUBSET S
    PROVE  /\ IsPairSet(s) /\ Cardinality(s) \in Nat
           /\ s # {} => Pick(s) \in s /\ Pick(s)[2] \in Nat
           /\ \A x \in s : /\ s \ {x} \in SUBSET S
                           /\ Cardinality(s \ {x}) = Cardinality(s) - 1
                           /\ Cardinality(s \ {x}) \in Nat
<1>1. IsFiniteSet(s) /\ \A x \in s : IsFiniteSet(s \ {x})
  BY FS_Subset DEF IsPairSet
<1>2. Cardinality(s) \in Nat /\ \A x \in s : Cardinality(s \ {x}) \in Nat
  BY <1>1, FS_CardinalityType
<1>3. \A x \in s : Cardinality(s \ {x}) = Cardinality(s) - 1
  BY <1>1, FS_RemoveElement
<1> QED BY <1>1, <1>2, <1>3 DEF IsPairSet, Pick

(* Induction over the subsets of a finite set: a bad one of least size.    *)
LEMMA LeastSubset ==
    ASSUME NEW S, IsPairSet(S), NEW bad \in SUBSET (SUBSET S), bad # {}
    PROVE  \E s \in bad : \A x \in s : s \ {x} \notin bad
<1> DEFINE sizes == {Cardinality(s) : s \in bad}
<1>1. \A s \in bad : /\ Cardinality(s) \in Nat
                     /\ \A x \in s : /\ Cardinality(s \ {x}) = Cardinality(s) - 1
                                     /\ Cardinality(s \ {x}) \in Nat
  BY SubsetsArePairSets
<1>2. sizes \in SUBSET Nat /\ sizes # {}
  BY <1>1
<1>3. PICK n \in sizes : \A k \in sizes : n <= k
  <2> HIDE DEF sizes
  <2> QED BY <1>2, LeastNumber
<1>4. PICK s \in bad : Cardinality(s) = n
  BY <1>3
<1>5. ASSUME NEW x \in s, s \ {x} \in bad PROVE FALSE
  <2>1. Cardinality(s) <= Cardinality(s \ {x})
    BY <1>3, <1>4, <1>5
  <2> QED BY <1>1, <2>1
<1> QED BY <1>5

(* g has the sum of every set in D.                                        *)
SumsUp(D, g) ==
    g = [s \in D |-> IF s = {} THEN 0 ELSE Pick(s)[2] + g[s \ {Pick(s)}]]

SmallSubsets(S, n) == {s \in SUBSET S : Cardinality(s) <= n}

LEMMA SumsGrow ==
    ASSUME NEW S, IsPairSet(S), NEW n \in Nat, NEW g, SumsUp(SmallSubsets(S, n), g)
    PROVE  \E h : SumsUp(SmallSubsets(S, n + 1), h)
<1> DEFINE Sum(f, s) == IF s = {} THEN 0 ELSE Pick(s)[2] + f[s \ {Pick(s)}]
           h == [s \in SmallSubsets(S, n + 1) |-> Sum(g, s)]
<1>1. ASSUME NEW s \in SmallSubsets(S, n + 1), s # {}
      PROVE  s \ {Pick(s)} \in SmallSubsets(S, n)
  <2>1. s \in SUBSET S /\ Cardinality(s) <= n + 1
    BY DEF SmallSubsets
  <2>2. /\ s \ {Pick(s)} \in SUBSET S /\ Cardinality(s) \in Nat
        /\ Cardinality(s \ {Pick(s)}) = Cardinality(s) - 1
    BY <1>1, <2>1, SubsetsArePairSets
  <2> QED BY <2>1, <2>2 DEF SmallSubsets
<1>2. ASSUME NEW s \in SmallSubsets(S, n) PROVE s \in SmallSubsets(S, n + 1)
  BY SubsetsArePairSets DEF SmallSubsets
<1>3. \A s \in SmallSubsets(S, n) : g[s] = Sum(g, s)
  BY DEF SumsUp
<1>4. \A s \in SmallSubsets(S, n) : h[s] = g[s]
  BY <1>2, <1>3
<1>5. \A s \in SmallSubsets(S, n + 1) : Sum(g, s) = Sum(h, s)
  BY <1>1, <1>4
<1>6. h = [s \in SmallSubsets(S, n + 1) |-> Sum(h, s)]
  BY <1>5
<1>7. SumsUp(SmallSubsets(S, n + 1), h)
  <2> HIDE DEF h
  <2> QED BY <1>6 DEF SumsUp
<1> HIDE DEF h
<1> QED BY <1>7

LEMMA SmallSumsExist ==
    ASSUME NEW S, IsPairSet(S)
    PROVE  \A n \in Nat : \E g : SumsUp(SmallSubsets(S, n), g)
<1> DEFINE bad == {n \in Nat : ~ \E g : SumsUp(SmallSubsets(S, n), g)}
<1> SUFFICES ASSUME bad # {} PROVE FALSE
  OBVIOUS
<1>1. PICK n \in bad : \A k \in bad : n <= k
  <2>1. bad \in SUBSET Nat
    OBVIOUS
  <2> HIDE DEF bad
  <2> QED BY <2>1, LeastNumber
<1>2. n \in Nat /\ ~ \E g : SumsUp(SmallSubsets(S, n), g)
  BY <1>1
<1>3. CASE n = 0
  <2> DEFINE g == [s \in SmallSubsets(S, 0) |-> 0]
  <2>1. ASSUME NEW s \in SmallSubsets(S, 0) PROVE s = {}
    <3>1. Cardinality(s) = 0 /\ IsFiniteSet(s)
      BY SubsetsArePairSets DEF SmallSubsets, IsPairSet
    <3> QED BY <3>1, FS_EmptySet
  <2>2. SumsUp(SmallSubsets(S, 0), g)
    BY <2>1 DEF SumsUp
  <2> QED BY <1>2, <1>3, <2>2
<1>4. CASE n # 0
  <2>1. n - 1 \in Nat /\ ~(n <= n - 1) /\ (n - 1) + 1 = n
    BY <1>2, <1>4
  <2>2. n - 1 \notin bad
    <3> HIDE DEF bad
    <3> QED BY <1>1, <2>1
  <2>3. PICK g : SumsUp(SmallSubsets(S, n - 1), g)
    BY <2>1, <2>2
  <2>4. \E h : SumsUp(SmallSubsets(S, (n - 1) + 1), h)
    BY <2>1, <2>3, SumsGrow
  <2> QED BY <1>2, <2>1, <2>4
<1> QED BY <1>3, <1>4

LEMMA SumsExist ==
    ASSUME NEW S, IsPairSet(S)
    PROVE  \E g : SumsUp(SUBSET S, g)
<1>1. Cardinality(S) \in Nat
  BY FS_CardinalityType DEF IsPairSet
<1>2. \E g : SumsUp(SmallSubsets(S, Cardinality(S)), g)
  BY <1>1, SmallSumsExist
<1>3. SmallSubsets(S, Cardinality(S)) = SUBSET S
  BY FS_Subset DEF IsPairSet, SmallSubsets
<1> QED BY <1>2, <1>3

LEMMA SumsAreUnique ==
    ASSUME NEW S, IsPairSet(S), NEW R \in SUBSET S
    PROVE  \A g, h : SumsUp(SUBSET S, g) /\ SumsUp(SUBSET R, h) => g[R] = h[R]
<1> SUFFICES ASSUME NEW g, NEW h, SumsUp(SUBSET S, g), SumsUp(SUBSET R, h)
             PROVE  \A s \in SUBSET R : g[s] = h[s]
  OBVIOUS
<1> DEFINE bad == {s \in SUBSET R : g[s] # h[s]}
<1> SUFFICES ASSUME bad # {} PROVE FALSE
  OBVIOUS
<1>1. IsPairSet(R) /\ bad \in SUBSET (SUBSET R)
  BY SubsetsArePairSets
<1>2. PICK s \in bad : \A x \in s : s \ {x} \notin bad
  <2> HIDE DEF bad
  <2> QED BY <1>1, LeastSubset
<1>3. s \in SUBSET R /\ s \in SUBSET S /\ g[s] # h[s]
  BY <1>2
<1>4. /\ g[s] = IF s = {} THEN 0 ELSE Pick(s)[2] + g[s \ {Pick(s)}]
      /\ h[s] = IF s = {} THEN 0 ELSE Pick(s)[2] + h[s \ {Pick(s)}]
  BY <1>3 DEF SumsUp
<1>5. s # {} /\ Pick(s) \in s
  BY <1>3, <1>4 DEF Pick
<1>6. g[s \ {Pick(s)}] = h[s \ {Pick(s)}]
  BY <1>2, <1>3, <1>5
<1> QED BY <1>3, <1>4, <1>6

LEMMA TotalIsASum ==
    ASSUME NEW S, IsPairSet(S)
    PROVE  \E g : SumsUp(SUBSET S, g) /\ TotalOf(S) = g[S]
<1> DEFINE sum == CHOOSE g : SumsUp(SUBSET S, g)
<1>1. SumsUp(SUBSET S, sum)
  BY SumsExist
<1>2. TotalOf(S) = (CHOOSE g : g = [s \in SUBSET S |->
                        IF s = {} THEN 0 ELSE Pick(s)[2] + g[s \ {Pick(s)}]])[S]
  BY Zenon DEF TotalOf, FoldSet, MapThenFoldSet, Pick
<1>3. TotalOf(S) = sum[S]
  BY Zenon, <1>2 DEF SumsUp
<1> HIDE DEF sum
<1> QED BY <1>1, <1>3

LEMMA TotalOfNothing == TotalOf({}) = 0
<1>1. IsPairSet({})
  BY FS_EmptySet DEF IsPairSet
<1>2. PICK g : SumsUp(SUBSET {}, g) /\ TotalOf({}) = g[{}]
  BY <1>1, TotalIsASum
<1> QED BY <1>2 DEF SumsUp

LEMMA TotalWithoutThePick ==
    ASSUME NEW S, IsPairSet(S), S # {}
    PROVE  TotalOf(S) = Pick(S)[2] + TotalOf(S \ {Pick(S)})
<1> DEFINE rest == S \ {Pick(S)}
<1>1. rest \in SUBSET S /\ IsPairSet(rest)
  BY SubsetsArePairSets
<1> HIDE DEF rest
<1>2. PICK g : SumsUp(SUBSET S, g) /\ TotalOf(S) = g[S]
  BY TotalIsASum
<1>3. PICK h : SumsUp(SUBSET rest, h) /\ TotalOf(rest) = h[rest]
  BY <1>1, TotalIsASum
<1>4. g[rest] = h[rest]
  BY <1>1, <1>2, <1>3, SumsAreUnique
<1>5. g[S] = Pick(S)[2] + g[rest]
  BY <1>2 DEF SumsUp, rest
<1> QED BY <1>2, <1>3, <1>4, <1>5 DEF rest

LEMMA TotalIsNatural ==
    ASSUME NEW S, IsPairSet(S)
    PROVE  TotalOf(S) \in Nat
<1> DEFINE bad == {s \in SUBSET S : TotalOf(s) \notin Nat}
<1> SUFFICES ASSUME bad # {} PROVE FALSE
  OBVIOUS
<1>1. PICK s \in bad : \A x \in s : s \ {x} \notin bad
  <2>1. bad \in SUBSET (SUBSET S)
    OBVIOUS
  <2> HIDE DEF bad
  <2> QED BY <2>1, LeastSubset
<1>2. s \in SUBSET S /\ TotalOf(s) \notin Nat
  BY <1>1
<1>3. IsPairSet(s)
  BY <1>2, SubsetsArePairSets
<1>31. s # {}
  BY <1>2, TotalOfNothing
<1>4. Pick(s) \in s /\ Pick(s)[2] \in Nat /\ s \ {Pick(s)} \in SUBSET S
  BY <1>2, <1>31, SubsetsArePairSets
<1>5. TotalOf(s \ {Pick(s)}) \in Nat
  BY <1>1, <1>4
<1> QED BY <1>2, <1>3, <1>31, <1>4, <1>5, TotalWithoutThePick

(* It does not matter which pair is taken out first.                       *)
LEMMA TotalWithout ==
    ASSUME NEW S, IsPairSet(S), NEW x \in S
    PROVE  TotalOf(S) = x[2] + TotalOf(S \ {x})
<1> DEFINE Splits(s) == \A y \in s : TotalOf(s) = y[2] + TotalOf(s \ {y})
           bad == {s \in SUBSET S : ~Splits(s)}
<1>1. SUFFICES ASSUME bad # {} PROVE FALSE
  OBVIOUS
<1>2. PICK s \in bad : \A y \in s : s \ {y} \notin bad
  <2>1. bad \in SUBSET (SUBSET S)
    OBVIOUS
  <2> HIDE DEF bad
  <2> QED BY <1>1, <2>1, LeastSubset
<1>3. s \in SUBSET S /\ ~Splits(s)
  BY <1>2
<1>4. PICK y \in s : TotalOf(s) # y[2] + TotalOf(s \ {y})
  BY <1>3
<1> DEFINE p == Pick(s)
           both == s \ {p, y}
<1>5. /\ IsPairSet(s) /\ p \in s /\ p[2] \in Nat /\ y[2] \in Nat
      /\ TotalOf(s) = p[2] + TotalOf(s \ {p})
  BY <1>3, <1>4, TotalWithoutThePick, SubsetsArePairSets DEF IsPairSet
<1> HIDE DEF p
<1>6. p # y
  BY <1>4, <1>5
<1>7. Splits(s \ {p}) /\ Splits(s \ {y})
  BY <1>2, <1>3, <1>4, <1>5
<1>8. (s \ {p}) \ {y} = both /\ (s \ {y}) \ {p} = both
  OBVIOUS
<1>9. TotalOf(both) \in Nat
  BY <1>3, SubsetsArePairSets, TotalIsNatural
<1> HIDE DEF bad, both
<1>10. TotalOf(s \ {p}) = y[2] + TotalOf(both)
  BY <1>4, <1>6, <1>7, <1>8
<1>11. TotalOf(s \ {y}) = p[2] + TotalOf(both)
  BY <1>5, <1>6, <1>7, <1>8
<1> HIDE DEF Splits
<1> QED BY <1>4, <1>5, <1>9, <1>10, <1>11

LEMMA TotalIsMonotone ==
    ASSUME NEW T, IsPairSet(T), NEW S \in SUBSET T
    PROVE  TotalOf(S) <= TotalOf(T)
<1> DEFINE bad == {R \in SUBSET T : S \subseteq R /\ ~(TotalOf(S) <= TotalOf(R))}
<1> SUFFICES ASSUME bad # {} PROVE FALSE
  OBVIOUS
<1>1. PICK R \in bad : \A x \in R : R \ {x} \notin bad
  <2>1. bad \in SUBSET (SUBSET T)
    OBVIOUS
  <2> HIDE DEF bad
  <2> QED BY <2>1, LeastSubset
<1>2. R \in SUBSET T /\ S \subseteq R /\ ~(TotalOf(S) <= TotalOf(R))
  BY <1>1
<1>3. TotalOf(S) \in Nat
  BY SubsetsArePairSets, TotalIsNatural
<1>4. PICK x \in R : x \notin S
  BY <1>2, <1>3
<1>5. IsPairSet(R) /\ IsPairSet(R \ {x}) /\ x[2] \in Nat
  BY <1>2, SubsetsArePairSets DEF IsPairSet
<1>6. TotalOf(S) <= TotalOf(R \ {x})
  BY <1>1, <1>2, <1>4
<1>7. TotalOf(R) = x[2] + TotalOf(R \ {x}) /\ TotalOf(R \ {x}) \in Nat
  BY <1>5, TotalWithout, TotalIsNatural
<1> HIDE DEF bad
<1> QED BY <1>2, <1>3, <1>5, <1>6, <1>7

(* A set that has the whole sum has every pair that adds to it.            *)
LEMMA NothingIsMissing ==
    ASSUME NEW T, IsPairSet(T), NEW S \in SUBSET T, TotalOf(T) <= TotalOf(S),
           NEW x \in T, x[2] > 0
    PROVE  x \in S
<1> SUFFICES ASSUME x \notin S PROVE FALSE
  OBVIOUS
<1>1. /\ IsPairSet(T \ {x}) /\ S \in SUBSET (T \ {x}) /\ x[2] \in Nat
      /\ IsPairSet(S)
  BY SubsetsArePairSets DEF IsPairSet
<1>2. TotalOf(S) <= TotalOf(T \ {x}) /\ TotalOf(T) = x[2] + TotalOf(T \ {x})
  BY <1>1, TotalIsMonotone, TotalWithout
<1> QED BY <1>1, <1>2, TotalIsNatural
-----------------------------------------------------------------------------
(* The exchange's order and what is said of it.                            *)

LEMMA TradesAddUp ==
    ASSUME NEW order, IsSound(order)
    PROVE  /\ TradeCount(order) \in 0 .. Quantity
           /\ \A n \in 0 .. TradeCount(order) :
                 /\ UpTo(order, n) \in 0 .. Quantity
                 /\ PriceUpTo(order, n) \in [paid : Nat, for : 0 .. Quantity]
           /\ \A k \in 1 .. TradeCount(order) :
                 /\ order.trades[k] \in TradeRecord /\ k \in 1 .. Quantity
                 /\ UpTo(order, k) = order.trades[k].upTo
           /\ Executed(order.trades) = UpTo(order, TradeCount(order))
           /\ Paid(order.trades) = PriceUpTo(order, TradeCount(order)).paid
           /\ AverageOf(order.trades) = PriceUpTo(order, TradeCount(order))
<1>1. order.trades \in Seq(TradeRecord) /\ TradeCount(order) \in Nat
  BY LenProperties DEF IsSound, TradeCount
<1>2. ASSUME NEW k \in 1 .. TradeCount(order)
      PROVE  /\ order.trades[k] \in TradeRecord /\ k <= Quantity
             /\ UpTo(order, k) = order.trades[k].upTo
  <2>1. order.trades[k] \in TradeRecord
    BY <1>1, ElementOfSeq DEF TradeCount
  <2> QED BY <1>1, <2>1, QuantityAssumption DEF IsSound, UpTo, TradeRecord
<1>3. TradeCount(order) \in 0 .. Quantity
  BY <1>1, <1>2, QuantityAssumption
<1>4. ASSUME NEW n \in 0 .. TradeCount(order)
      PROVE  /\ UpTo(order, n) \in 0 .. Quantity
             /\ PriceUpTo(order, n) \in [paid : Nat, for : 0 .. Quantity]
  <2>1. CASE n = 0
    BY <2>1, QuantityAssumption DEF UpTo, PriceUpTo, NoPrice
  <2>2. CASE n # 0
    <3>1. order.trades[n] \in TradeRecord
      BY <1>1, <1>2, <2>2
    <3> QED BY <2>2, <3>1, QuantityAssumption DEF UpTo, PriceUpTo, TradeRecord
  <2> QED BY <2>1, <2>2
<1>5. order.trades = <<>> <=> TradeCount(order) = 0
  BY <1>1, EmptySeq DEF TradeCount
<1>6. /\ Executed(order.trades) = UpTo(order, TradeCount(order))
      /\ Paid(order.trades) = PriceUpTo(order, TradeCount(order)).paid
      /\ AverageOf(order.trades) = PriceUpTo(order, TradeCount(order))
  BY <1>5 DEF Executed, Paid, AverageOf, UpTo, PriceUpTo, NoPrice, TradeCount
<1> QED BY <1>1, <1>2, <1>3, <1>4, <1>6

(* A cumulative quantity names the trades it counts.                       *)
LEMMA FillsNameTheirTrades ==
    ASSUME NEW order, IsSound(order), NEW m \in 0 .. TradeCount(order)
    PROVE  /\ \A n \in 0 .. TradeCount(order) :
                 UpTo(order, m) = UpTo(order, n) => m = n
           /\ UpTo(order, m) <= UpTo(order, TradeCount(order))
           /\ UpTo(order, m) = Quantity =>
                 order.status = "FILLED" /\ m = TradeCount(order)
           /\ order.status = "FILLED" =>
                 UpTo(order, TradeCount(order)) = Quantity
<1> DEFINE last == TradeCount(order)
<1>1. /\ last \in Nat /\ \A n \in 0 .. last : UpTo(order, n) \in 0 .. Quantity
  BY TradesAddUp
<1>2. \A i, j \in 0 .. last : i < j => UpTo(order, i) < UpTo(order, j)
  BY DEF IsSound
<1>3. \A n \in 0 .. last : UpTo(order, m) = UpTo(order, n) => m = n
  BY <1>1, <1>2
<1>4. UpTo(order, m) <= UpTo(order, last)
  BY <1>1, <1>2
<1>5. ASSUME UpTo(order, m) = Quantity PROVE order.status = "FILLED" /\ m = last
  <2>1. UpTo(order, last) = Quantity /\ m = last
    BY <1>1, <1>3, <1>4, <1>5, QuantityAssumption
  <2>2. order.status # "ABSENT"
    BY <2>1, QuantityAssumption DEF IsSound, NoOrder, UpTo, TradeCount
  <2> QED BY <2>1, <2>2, QuantityAssumption
          DEF IsSound, NativeStatus, Final, StateAfterTrade
<1>6. ASSUME order.status = "FILLED" PROVE UpTo(order, last) = Quantity
  BY <1>6 DEF IsSound, StateAfterTrade
<1> QED BY <1>3, <1>4, <1>5, <1>6

LEMMA GrowthKeepsFills ==
    ASSUME NEW before, NEW after, IsSound(before), IsSound(after),
           Grows(before, after)
    PROVE  \A n \in 0 .. TradeCount(before) :
               /\ n \in 0 .. TradeCount(after)
               /\ UpTo(after, n) = UpTo(before, n)
               /\ PriceUpTo(after, n) = PriceUpTo(before, n)
<1>1. TradeCount(before) \in Nat /\ TradeCount(after) \in Nat
  BY TradesAddUp
<1> QED BY <1>1 DEF Grows, UpTo, PriceUpTo

LEMMA NewsStaysNews ==
    ASSUME NEW before, NEW after, IsSound(before), IsSound(after),
           Grows(before, after)
    PROVE  News(before) \subseteq News(after) /\ History(before) \subseteq History(after)
<1>1. TradeCount(before) \in Nat /\ TradeCount(after) \in Nat
  BY TradesAddUp
<1>2. ASSUME NEW k \in 1 .. TradeCount(before)
      PROVE  /\ k \in 1 .. TradeCount(after)
             /\ TradeNews(after, k) = TradeNews(before, k)
             /\ FillOf(after, k) = FillOf(before, k)
  <2>1. k \in 1 .. TradeCount(after) /\ after.trades[k] = before.trades[k]
    BY <1>1 DEF Grows
  <2>2. UpTo(after, k) = UpTo(before, k) /\ PriceUpTo(after, k) = PriceUpTo(before, k)
    BY <1>1, GrowthKeepsFills
  <2> QED BY <2>1, <2>2 DEF TradeNews, FillOf
<1>3. before.status \in {"CANCELED", "EXPIRED"} => after = before
  BY DEF Grows, Final
<1>4. News(before) \subseteq News(after)
  <2> SUFFICES ASSUME NEW e \in News(before) PROVE e \in News(after)
    OBVIOUS
  <2>1. CASE e = Acceptance /\ before.status # "ABSENT"
    BY <2>1 DEF News, Grows
  <2>2. CASE \E k \in 1 .. TradeCount(before) : e = TradeNews(before, k)
    BY <1>2, <2>2 DEF News
  <2>3. CASE before.status \in {"CANCELED", "EXPIRED"}
    BY <1>3, <2>3
  <2> QED BY <2>1, <2>2, <2>3 DEF News
<1>5. History(before) \subseteq History(after)
  BY <1>2 DEF History
<1> QED BY <1>4, <1>5

LEMMA BackedStaysBacked ==
    ASSUME NEW before, NEW after, IsSound(before), IsSound(after),
           Grows(before, after), NEW r, IsBacked(r, before)
    PROVE  IsBacked(r, after)
<1>1. PICK n \in 0 .. TradeCount(before) :
          /\ r.cum = UpTo(before, n)
          /\ r.average \in {NoPrice, PriceUpTo(before, n)}
          /\ r.state \in Final => r.state = before.status /\ n = TradeCount(before)
  BY DEF IsBacked
<1>2. /\ n \in 0 .. TradeCount(after) /\ UpTo(after, n) = UpTo(before, n)
      /\ PriceUpTo(after, n) = PriceUpTo(before, n)
  BY GrowthKeepsFills
<1>3. r.state \in Final => r.state = after.status /\ n = TradeCount(after)
  BY <1>1 DEF Grows
<1> QED BY <1>1, <1>2, <1>3 DEF IsBacked

-----------------------------------------------------------------------------
(* The exchange's steps.                                                   *)

Open == {"NEW", "PARTIALLY_FILLED"}

LEMMA TradeGrows ==
    ASSUME IsSound(exch), exch.status \in Open,
           NEW q \in 1 .. Quantity - Executed(exch.trades), NEW asset \in FeeAsset,
           NEW trades, trades = Append(exch.trades, TradeAfter(exch.trades, q, asset)),
           NEW order, order = [status |-> StateAfterTrade(Quantity, Executed(trades)),
                               trades |-> trades]
    PROVE  /\ IsSound(order) /\ Grows(exch, order)
           /\ TradeCount(order) = TradeCount(exch) + 1
           /\ order.status = StateAfterTrade(Quantity, UpTo(order, TradeCount(order)))
<1> DEFINE last == TradeCount(exch)
           new == TradeAfter(exch.trades, q, asset)
<1>1. /\ last \in 0 .. Quantity /\ exch.trades \in Seq(TradeRecord)
      /\ \A n \in 0 .. last : UpTo(exch, n) \in 0 .. Quantity
      /\ \A k \in 1 .. last : exch.trades[k] \in TradeRecord
      /\ Executed(exch.trades) = UpTo(exch, last)
  BY TradesAddUp DEF IsSound
<1>2. /\ q \in 1 .. Quantity /\ UpTo(exch, last) + q \in 1 .. Quantity
      /\ UpTo(exch, last) \in 0 .. Quantity
  <2>1. UpTo(exch, last) \in 0 .. Quantity
    BY <1>1
  <2>2. q \in 1 .. Quantity - UpTo(exch, last)
    BY <1>1
  <2> QED BY <2>1, <2>2, QuantityAssumption
<1>3. new = [quantity |-> q, asset |-> asset, upTo |-> UpTo(exch, last) + q,
             paid |-> (IF exch.trades = <<>> THEN 0 ELSE exch.trades[last].paid)
                      + (last + 1) * q]
  <2>1. exch.trades = <<>> <=> last = 0
    BY <1>1, EmptySeq DEF TradeCount
  <2> QED BY <2>1 DEF TradeAfter, UpTo, TradeCount
<1>4. new \in TradeRecord
  <2>1. (last + 1) * q \in Nat \ {0}
    <3>1. last + 1 \in Nat \ {0} /\ q \in Nat \ {0}
      BY <1>1, <1>2, QuantityAssumption
    <3>2. \A a, b \in Nat \ {0} : a * b \in Nat \ {0}
      OBVIOUS
    <3> QED BY <3>1, <3>2
  <2>2. (IF exch.trades = <<>> THEN 0 ELSE exch.trades[last].paid) \in Nat
    <3>1. CASE exch.trades = <<>>
      BY <3>1
    <3>2. CASE exch.trades # <<>>
      <4>1. last \in 1 .. last
        BY <1>1, <3>2, EmptySeq DEF TradeCount
      <4> QED BY <1>1, <3>2, <4>1 DEF TradeRecord
    <3> QED BY <3>1, <3>2
  <2>3. new.paid \in Nat \ {0}
    <3> DEFINE before == IF exch.trades = <<>> THEN 0 ELSE exch.trades[last].paid
               more == (last + 1) * q
    <3>1. before \in Nat /\ more \in Nat \ {0} /\ new.paid = before + more
      BY <1>3, <2>1, <2>2
    <3> HIDE DEF before, more, new
    <3> QED BY <3>1
  <2> HIDE DEF last
  <2> QED BY <1>2, <1>3, <2>3 DEF TradeRecord
<1> HIDE DEF new
<1>5. /\ trades \in Seq(TradeRecord) /\ Len(trades) = last + 1
      /\ \A k \in 1 .. last : trades[k] = exch.trades[k]
      /\ trades[last + 1] = new
  BY <1>1, <1>4, AppendProperties DEF TradeCount, new
<1>6. TradeCount(order) = last + 1
  BY <1>5 DEF TradeCount
<1>7. \A n \in 0 .. last : UpTo(order, n) = UpTo(exch, n)
  BY <1>1, <1>5 DEF UpTo
<1>8. UpTo(order, last + 1) = UpTo(exch, last) + q
  <2>1. order.trades[last + 1].upTo = UpTo(exch, last) + q
    BY <1>3, <1>5
  <2>2. last + 1 # 0
    BY <1>1
  <2> HIDE DEF last
  <2> QED BY <2>1, <2>2 DEF UpTo
<1>9. Executed(trades) = UpTo(order, last + 1)
  <2>1. trades # <<>>
    BY <1>1, <1>5, EmptySeq
  <2> QED BY <1>1, <1>5, <2>1 DEF Executed, UpTo
<1>10. order.status = StateAfterTrade(Quantity, UpTo(order, TradeCount(order)))
  BY <1>6, <1>9
<1>11. order.status \in {"PARTIALLY_FILLED", "FILLED", "NEW"}
  BY <1>10 DEF StateAfterTrade
<1>12. order \in [status : NativeStatus, trades : Seq(TradeRecord)]
  BY <1>5, <1>11 DEF NativeStatus, Final
<1>13. ASSUME NEW k \in 1 .. last + 1
       PROVE  /\ k <= UpTo(order, k)
              /\ UpTo(order, k) = UpTo(order, k - 1) + order.trades[k].quantity
  <2>1. CASE k \in 1 .. last
    <3>1. k - 1 \in 0 .. last /\ k \in 0 .. last
      BY <1>1, <2>1
    <3>2. /\ k <= UpTo(exch, k)
          /\ UpTo(exch, k) = UpTo(exch, k - 1) + exch.trades[k].quantity
      BY <2>1 DEF IsSound
    <3> QED BY <1>5, <1>7, <2>1, <3>1, <3>2
  <2>2. CASE k = last + 1
    <3>1. last <= UpTo(exch, last)
      <4>1. CASE last = 0
        BY <4>1 DEF UpTo
      <4>2. CASE last # 0
        BY <1>1, <4>2 DEF IsSound
      <4> QED BY <4>1, <4>2
    <3>2. k - 1 = last /\ order.trades[k].quantity = q
      BY <1>1, <1>3, <1>5, <2>2 DEF new
    <3>3. UpTo(order, k - 1) = UpTo(exch, last)
      <4>1. last \in 0 .. last
        BY <1>1
      <4>2. UpTo(order, last) = UpTo(exch, last)
        BY <1>7, <4>1
      <4> QED BY <3>2, <4>2
    <3>4. UpTo(order, k) = UpTo(exch, last) + q
      BY <1>8, <2>2
    <3>5. q >= 1 /\ UpTo(exch, last) \in Int /\ q \in Int /\ last \in Int
      BY <1>1, <1>2, QuantityAssumption
    <3>6. k <= UpTo(order, k)
      <4> HIDE DEF last
      <4> QED BY <2>2, <3>1, <3>4, <3>5
    <3> QED BY <3>2, <3>3, <3>4, <3>6
  <2>3. k \in 1 .. last \/ k = last + 1
    BY <1>1
  <2> QED BY <2>1, <2>2, <2>3
<1>14. ASSUME NEW i \in 0 .. last + 1, NEW j \in 0 .. last + 1, i < j
       PROVE  UpTo(order, i) < UpTo(order, j)
  <2>1. i \in 0 .. last
    BY <1>1, <1>14
  <2>2. CASE j \in 0 .. last
    BY <1>7, <1>14, <2>1, <2>2 DEF IsSound
  <2>3. CASE j = last + 1
    <3>1. UpTo(exch, i) <= UpTo(exch, last)
      BY <2>1, FillsNameTheirTrades
    <3>2. UpTo(exch, i) \in 0 .. Quantity
      BY <1>1, <2>1
    <3>3. UpTo(order, i) = UpTo(exch, i) /\ UpTo(order, j) = UpTo(exch, last) + q
      BY <1>7, <1>8, <2>1, <2>3
    <3> QED BY <1>2, <3>1, <3>2, <3>3, QuantityAssumption
  <2> QED BY <1>1, <2>2, <2>3
<1>15. IsSound(order)
  <2>1. /\ \A k \in 1 .. TradeCount(order) :
              /\ k <= UpTo(order, k)
              /\ UpTo(order, k) = UpTo(order, k - 1) + order.trades[k].quantity
        /\ \A i, j \in 0 .. TradeCount(order) : i < j => UpTo(order, i) < UpTo(order, j)
    <3> HIDE DEF last
    <3> QED BY <1>6, <1>13, <1>14
  <2>2. order.status \notin {"ABSENT", "CANCELED", "EXPIRED"}
    BY <1>11
  <2> HIDE DEF last
  <2> QED BY <1>10, <1>12, <2>1, <2>2 DEF IsSound
<1>16. Grows(exch, order)
  BY <1>1, <1>5, <1>6, <1>11 DEF Grows, Open, Final
<1> QED BY <1>6, <1>10, <1>15, <1>16

LEMMA EndGrows ==
    ASSUME IsSound(exch), exch.status \in Open, NEW status \in {"CANCELED", "EXPIRED"},
           NEW order, order = [exch EXCEPT !.status = status]
    PROVE  IsSound(order) /\ Grows(exch, order) /\ order.status = status
<1>1. exch \in [status : NativeStatus, trades : Seq(TradeRecord)]
  BY DEF IsSound
<1>2. /\ order \in [status : NativeStatus, trades : Seq(TradeRecord)]
      /\ order.status = status /\ order.trades = exch.trades
      /\ TradeCount(order) = TradeCount(exch)
      /\ \A n : UpTo(order, n) = UpTo(exch, n)
  BY <1>1 DEF NativeStatus, Final, TradeCount, UpTo
<1>3. UpTo(exch, TradeCount(exch)) < Quantity
  <2>1. UpTo(exch, TradeCount(exch)) \in 0 .. Quantity /\ TradeCount(exch) \in Nat
    BY TradesAddUp
  <2>2. UpTo(exch, TradeCount(exch)) # Quantity
    BY <2>1, FillsNameTheirTrades DEF Open
  <2> QED BY <2>1, <2>2, QuantityAssumption
<1>4. IsSound(order)
  BY <1>2, <1>3 DEF IsSound
<1>5. TradeCount(exch) \in Nat
  BY TradesAddUp
<1> QED BY <1>2, <1>4, <1>5 DEF Grows, Open, Final

LEMMA AcceptGrows ==
    ASSUME NEW order, order = [status |-> "NEW", trades |-> <<>>]
    PROVE  IsSound(order) /\ Grows(NoOrder, order)
<1>1. TradeCount(order) = 0 /\ TradeCount(NoOrder) = 0
  BY DEF TradeCount, NoOrder
<1>2. order \in [status : NativeStatus, trades : Seq(TradeRecord)]
  BY EmptySeq DEF NativeStatus
<1>3. IsSound(order)
  BY <1>1, <1>2, QuantityAssumption DEF IsSound, UpTo, StateAfterTrade
<1> QED BY <1>1, <1>3 DEF Grows, NoOrder, Final

LEMMA NoOrderIsSound == IsSound(NoOrder)
<1>1. TradeCount(NoOrder) = 0 /\ <<>> \in Seq(TradeRecord)
  BY EmptySeq DEF TradeCount, NoOrder
<1>2. NoOrder \in [status : NativeStatus, trades : Seq(TradeRecord)]
  BY <1>1 DEF NoOrder, NativeStatus
<1> QED BY <1>1, <1>2 DEF IsSound, UpTo, NoOrder

ExchangeSteps == Accept \/ Trade \/ End

LEMMA OthersLeaveTheExchange ==
    ASSUME [Next]_vars, ~ExchangeSteps
    PROVE  exch' = exch
BY DEF Next, vars, ExchangeSteps, Locking, ConsumeFrame, Calling, Working, World,
       BeginCommit, EndCommit, Submit, SubmitAnswered, SubmitTimesOut,
       QueryAnswered, Sweep, ReadJournal, FetchFills, Backfill, Reveal,
       LoseRequest, Redeliver, Connect, Disconnect, Crash, Restart, worldVars

LEMMA ExchangeGrows ==
    ASSUME IsSound(exch), RequestComesFirst, [Next]_vars
    PROVE  IsSound(exch') /\ Grows(exch, exch')
<1>1. CASE Accept
  BY <1>1, AcceptGrows DEF Accept, RequestComesFirst
<1>2. CASE Trade
  <2>1. exch.status \in Open
    BY <1>2 DEF Trade, Open
  <2>2. PICK q \in 1 .. Quantity - Executed(exch.trades), asset \in FeeAsset :
            LET trades == Append(exch.trades, TradeAfter(exch.trades, q, asset))
            IN  exch' = [status |-> StateAfterTrade(Quantity, Executed(trades)),
                         trades |-> trades]
    BY <1>2 DEF Trade
  <2> QED BY <2>1, <2>2, TradeGrows
<1>3. CASE End
  <2>1. exch.status \in Open
    BY <1>3 DEF End, Open
  <2>2. PICK status \in {"CANCELED", "EXPIRED"} : exch' = [exch EXCEPT !.status = status]
    BY <1>3 DEF End
  <2> QED BY <2>1, <2>2, EndGrows
<1>4. CASE ~ExchangeSteps
  <2>1. exch' = exch
    BY <1>4, OthersLeaveTheExchange
  <2>2. TradeCount(exch) \in Nat
    BY TradesAddUp
  <2> QED BY <2>1, <2>2 DEF Grows
<1> QED BY <1>1, <1>2, <1>3, <1>4 DEF ExchangeSteps
-----------------------------------------------------------------------------
(* What the engine hears: frames of the stream and answers over REST.      *)

LEMMA NewsIsTyped ==
    ASSUME NEW order, IsSound(order), NEW e \in News(order)
    PROVE  e \in JournalEvent /\ e.id.from = "stream"
<1>1. /\ TradeCount(order) \in 0 .. Quantity
      /\ \A n \in 0 .. TradeCount(order) :
            /\ UpTo(order, n) \in 0 .. Quantity
            /\ PriceUpTo(order, n) \in [paid : Nat, for : 0 .. Quantity]
      /\ \A k \in 1 .. TradeCount(order) :
            order.trades[k] \in TradeRecord /\ k \in 1 .. Quantity
  BY TradesAddUp
<1>2. CASE e = Acceptance
  BY <1>2, QuantityAssumption
     DEF Acceptance, JournalEvent, OrderEventKind, OrderState, NoPrice
<1>3. ASSUME NEW k \in 1 .. TradeCount(order), e = TradeNews(order, k)
      PROVE  e \in JournalEvent /\ e.id.from = "stream"
  <2>1. /\ UpTo(order, k) \in 0 .. Quantity /\ order.trades[k] \in TradeRecord
        /\ PriceUpTo(order, k) \in [paid : Nat, for : 0 .. Quantity]
        /\ k \in 1 .. Quantity
    BY <1>1
  <2>2. StateAfterTrade(Quantity, UpTo(order, k)) \in OrderState
    BY DEF StateAfterTrade, OrderState
  <2> QED BY <1>3, <2>1, <2>2
          DEF TradeNews, JournalEvent, OrderEventKind, TradeRecord
<1>4. CASE order.status \in {"CANCELED", "EXPIRED"} /\ e = EndNews(order)
  <2>1. /\ UpTo(order, TradeCount(order)) \in 0 .. Quantity
        /\ PriceUpTo(order, TradeCount(order)) \in [paid : Nat, for : 0 .. Quantity]
    BY <1>1
  <2> QED BY <1>4, <2>1 DEF EndNews, JournalEvent, OrderEventKind, OrderState
<1> QED BY <1>2, <1>3, <1>4 DEF News

LEMMA HistoryIsTyped ==
    ASSUME NEW order, IsSound(order), NEW k \in 1 .. TradeCount(order)
    PROVE  LET e == HistoryEvent(FillOf(order, k)) IN
           /\ e \in JournalEvent /\ e.id.from = "rest-fill" /\ e.id.trade = k
           /\ e.kind = "TRADE" /\ e.trade = k /\ e.last = order.trades[k].quantity
           /\ e.fee = order.trades[k].quantity /\ e.asset = order.trades[k].asset
           /\ e.cum = NoQuantity
<1>1. order.trades[k] \in TradeRecord /\ k \in 1 .. Quantity
  BY TradesAddUp
<1> DEFINE q == order.trades[k].quantity
           a == order.trades[k].asset
<1>2. HistoryEvent(FillOf(order, k)) =
          [kind |-> "TRADE", cum |-> NoQuantity, to |-> "CREATED",
           id |-> [from |-> "rest-fill", trade |-> k, execution |-> "NONE"],
           average |-> NoPrice, last |-> q, trade |-> k, fee |-> q, asset |-> a]
  <2>1. Unpriced(LocalEvent("TRADE")) =
            [kind |-> "TRADE", cum |-> NoQuantity, to |-> "CREATED", id |-> LocalId,
             average |-> NoPrice, last |-> NoValue, trade |-> NoValue,
             fee |-> NoValue, asset |-> "NONE"]
    BY DEF Unpriced, LocalEvent
  <2> DEFINE f == FillOf(order, k)
  <2>2. f.trade = k /\ f.quantity = q /\ f.fee = q /\ f.asset = a
    BY DEF FillOf
  <2> DEFINE base == Unpriced(LocalEvent("TRADE"))
             id == [from |-> "rest-fill", trade |-> k, execution |-> "NONE"]
  <2>3. base \in [kind : {"TRADE"}, cum : {NoQuantity}, to : {"CREATED"},
                  id : {LocalId, id}, average : {NoPrice}, last : {NoValue, q},
                  trade : {NoValue, k}, fee : {NoValue, q}, asset : {"NONE", a}]
    BY <2>1
  <2> HIDE DEF q, a, base, id, f
  <2>4. HistoryId(f) = id
    BY <2>2 DEF HistoryId, id
  <2>5. HistoryEvent(f) =
            [base EXCEPT !.id = id, !.last = q, !.trade = k, !.fee = q, !.asset = a]
    BY <2>2, <2>4, Zenon DEF HistoryEvent, base
  <2>6. HistoryEvent(f) \in
              [kind : {"TRADE"}, cum : {NoQuantity}, to : {"CREATED"},
               id : {id}, average : {NoPrice}, last : {q},
               trade : {k}, fee : {q}, asset : {a}]
    BY <2>3, <2>5
  <2> QED BY <2>6 DEF id, f
<1>3. q \in 1 .. Quantity /\ a \in FeeAsset
  BY <1>1 DEF TradeRecord
<1> HIDE DEF q, a
<1>4. NoPrice \in [paid : Nat, for : 0 .. Quantity]
  BY QuantityAssumption DEF NoPrice
<1>5. HistoryEvent(FillOf(order, k)) \in JournalEvent
  BY <1>1, <1>2, <1>3, <1>4 DEF JournalEvent, OrderEventKind, OrderState
<1> QED BY <1>2, <1>5 DEF q, a

LEMMA AcceptanceIsHeard ==
    ASSUME NEW m \in Market, NEW order, order = [status |-> "NEW", trades |-> <<>>]
    PROVE  /\ Frame(m, "NEW", order) \in FrameRecord
           /\ Heard(Frame(m, "NEW", order)) = Acceptance
<1>1. Executed(order.trades) = 0 /\ Paid(order.trades) = 0
      /\ AverageOf(order.trades) = NoPrice
  BY DEF Executed, Paid, AverageOf
<1>2. Frame(m, "NEW", order) =
         [e |-> m, x |-> "NEW", X |-> "NEW", z |-> 0, Z |-> 0, ap |-> NoPrice,
          l |-> NoValue, t |-> NoValue, n |-> NoValue, N |-> "NONE"]
  BY <1>1 DEF Frame
<1> DEFINE f == Frame(m, "NEW", order)
<1>3. f \in FrameRecord
  BY <1>2, QuantityAssumption DEF FrameRecord, NativeStatus, NoPrice
<1>4. /\ f.e = m /\ f.x = "NEW" /\ f.X = "NEW" /\ f.z = 0 /\ f.Z = 0 /\ f.ap = NoPrice
      /\ f.l = NoValue /\ f.t = NoValue /\ f.n = NoValue /\ f.N = "NONE"
  BY <1>2
<1> HIDE DEF f
<1>5. ParsedAverage(f) = NoPrice
  BY <1>4 DEF ParsedAverage
<1>6. StreamState("NEW") = "NEW"
  BY DEF StreamState, CommonState, ReconcilableState
<1>7. Heard(f) = Acceptance
  BY <1>4, <1>5, <1>6
     DEF Heard, ToDomain, ParseOrderEvent, EventKind, StreamId, Acceptance
<1> QED BY <1>3, <1>7 DEF f

(* The average of both products is the price of the fills it counts.       *)
LEMMA AverageIsHeard ==
    ASSUME NEW order, IsSound(order), NEW m \in Market, NEW x
    PROVE  ParsedAverage(Frame(m, x, order)) = PriceUpTo(order, TradeCount(order))
<1>1. /\ Executed(order.trades) = UpTo(order, TradeCount(order))
      /\ Paid(order.trades) = PriceUpTo(order, TradeCount(order)).paid
      /\ AverageOf(order.trades) = PriceUpTo(order, TradeCount(order))
      /\ UpTo(order, TradeCount(order)) \in 0 .. Quantity
      /\ TradeCount(order) \in Nat
  BY TradesAddUp
<1>2. CASE m = "MARGIN"
  <2>1. ParsedAverage(Frame(m, x, order)) =
            IF Executed(order.trades) > 0
            THEN [paid |-> Paid(order.trades), for |-> Executed(order.trades)]
            ELSE NoPrice
    BY <1>2 DEF ParsedAverage, Frame
  <2>2. CASE TradeCount(order) = 0
    BY <1>1, <2>1, <2>2 DEF UpTo, PriceUpTo
  <2>3. CASE TradeCount(order) # 0
    <3>1. UpTo(order, TradeCount(order)) > 0
      BY <1>1, <2>3 DEF IsSound
    <3> QED BY <1>1, <2>1, <2>3, <3>1 DEF UpTo, PriceUpTo
  <2> QED BY <2>2, <2>3
<1>3. CASE m # "MARGIN"
  BY <1>1, <1>3 DEF ParsedAverage, Frame
<1> QED BY <1>2, <1>3

LEMMA FramesAreTyped ==
    ASSUME NEW order, IsSound(order), NEW m \in Market,
           NEW x \in {"NEW", "TRADE", "CANCELED", "EXPIRED"},
           x = "TRADE" => TradeCount(order) # 0
    PROVE  Frame(m, x, order) \in FrameRecord
<1>1. /\ Executed(order.trades) \in 0 .. Quantity /\ order.status \in NativeStatus
      /\ Paid(order.trades) \in Nat
      /\ AverageOf(order.trades) \in [paid : Nat, for : 0 .. Quantity]
      /\ TradeCount(order) \in Nat
  BY TradesAddUp DEF IsSound
<1>2. x = "TRADE" =>
         /\ TradeCount(order) \in 1 .. Quantity
         /\ order.trades[TradeCount(order)].quantity \in 1 .. Quantity
         /\ order.trades[TradeCount(order)].asset \in FeeAsset
  BY <1>1, TradesAddUp DEF TradeRecord
<1>3. NoPrice \in [paid : Nat, for : 0 .. Quantity]
  BY QuantityAssumption DEF NoPrice
<1> QED BY <1>1, <1>2, <1>3 DEF Frame, FrameRecord, TradeCount

LEMMA TradeIsHeard ==
    ASSUME NEW order, IsSound(order), NEW m \in Market, TradeCount(order) # 0,
           order.status = StateAfterTrade(Quantity, UpTo(order, TradeCount(order)))
    PROVE  Heard(Frame(m, "TRADE", order)) = TradeNews(order, TradeCount(order))
<1> DEFINE last == TradeCount(order)
           f == Frame(m, "TRADE", order)
<1>1. ParsedAverage(f) = PriceUpTo(order, last)
  BY AverageIsHeard
<1>2. /\ f.x = "TRADE" /\ f.X = order.status /\ f.z = Executed(order.trades)
      /\ f.l = order.trades[last].quantity /\ f.t = last
      /\ f.n = order.trades[last].quantity /\ f.N = order.trades[last].asset
  BY DEF Frame, TradeCount
<1>3. Executed(order.trades) = UpTo(order, last)
  BY TradesAddUp
<1>4. StreamState(order.status) = StateAfterTrade(Quantity, UpTo(order, last))
  BY DEF StreamState, CommonState, ReconcilableState, StateAfterTrade
<1> HIDE DEF f, last
<1> QED BY <1>1, <1>2, <1>3, <1>4
        DEF Heard, ToDomain, ParseOrderEvent, EventKind, StreamId, TradeNews, f, last

LEMMA EndIsHeard ==
    ASSUME NEW order, IsSound(order), NEW m \in Market,
           order.status \in {"CANCELED", "EXPIRED"}
    PROVE  Heard(Frame(m, order.status, order)) = EndNews(order)
<1> DEFINE f == Frame(m, order.status, order)
<1>1. ParsedAverage(f) = PriceUpTo(order, TradeCount(order))
  BY AverageIsHeard
<1>2. /\ f.x = order.status /\ f.X = order.status /\ f.z = Executed(order.trades)
      /\ f.l = NoValue /\ f.t = NoValue /\ f.n = NoValue /\ f.N = "NONE"
  BY DEF Frame
<1>3. Executed(order.trades) = UpTo(order, TradeCount(order))
  BY TradesAddUp
<1>4. StreamState(order.status) = order.status
  BY DEF StreamState, CommonState, ReconcilableState
<1> HIDE DEF f
<1> QED BY <1>1, <1>2, <1>3, <1>4
        DEF Heard, ToDomain, ParseOrderEvent, EventKind, StreamId, EndNews, f

(* The answer of either product, with or without its price.                *)
SnapshotNews(order, priced) ==
    [kind |-> "RECONCILED", cum |-> UpTo(order, TradeCount(order)),
     to |-> order.status, id |-> LocalId,
     average |-> IF priced THEN PriceUpTo(order, TradeCount(order)) ELSE NoPrice,
     last |-> NoValue, trade |-> NoValue, fee |-> NoValue, asset |-> "NONE"]

LEMMA AnswerIsHeard ==
    ASSUME NEW order, IsSound(order), order.status # "ABSENT",
           NEW m \in Market, NEW priced \in BOOLEAN
    PROVE  /\ SnapshotEvent(OrderRecord(ParseOrder(OrderPayload(m, order, priced))))
                  = SnapshotNews(order, priced)
           /\ SnapshotNews(order, priced) \in OwnEvents
<1> DEFINE last == TradeCount(order)
           payload == OrderPayload(m, order, priced)
<1>1. /\ Executed(order.trades) = UpTo(order, last)
      /\ Paid(order.trades) = PriceUpTo(order, last).paid
      /\ AverageOf(order.trades) = PriceUpTo(order, last)
      /\ UpTo(order, last) \in 0 .. Quantity
      /\ PriceUpTo(order, last) \in [paid : Nat, for : 0 .. Quantity]
      /\ last \in Nat
      /\ last # 0 => order.trades[last] \in TradeRecord
  BY TradesAddUp
<1>2. order.status \in NativeStatus \ {"ABSENT"}
  BY DEF IsSound
<1>3. GatewayState(order.status) = order.status
  BY <1>2 DEF GatewayState, CommonState, ReconcilableState, NativeStatus, Final
<1>4. AveragePrice(payload) = IF priced THEN PriceUpTo(order, last) ELSE NoPrice
  <2>1. /\ payload.executedQty = UpTo(order, last)
        /\ payload.cumQuote = IF priced THEN PriceUpTo(order, last).paid ELSE 0
        /\ payload.avgPrice = IF priced /\ m = "USD_M_FUTURES"
                              THEN PriceUpTo(order, last) ELSE NoPrice
    BY <1>1 DEF OrderPayload
  <2> HIDE DEF payload
  <2>2. CASE last = 0
    <3>1. PriceUpTo(order, last) = NoPrice /\ UpTo(order, last) = 0
      BY <2>2 DEF UpTo, PriceUpTo
    <3> QED BY <2>1, <3>1 DEF AveragePrice, NoPrice
  <2>3. CASE last # 0
    <3>1. /\ PriceUpTo(order, last).paid > 0 /\ UpTo(order, last) > 0
          /\ PriceUpTo(order, last) = [paid |-> PriceUpTo(order, last).paid,
                                       for |-> UpTo(order, last)]
      BY <1>1, <2>3, QuantityAssumption DEF UpTo, PriceUpTo, TradeRecord
    <3> QED BY <2>1, <3>1 DEF AveragePrice, NoPrice
  <2> QED BY <2>2, <2>3
<1>5. OrderRecord(ParseOrder(payload)) =
          [state |-> order.status, cum |-> UpTo(order, last),
           average |-> IF priced THEN PriceUpTo(order, last) ELSE NoPrice]
  <2>1. payload.status = order.status /\ payload.executedQty = UpTo(order, last)
    BY <1>1 DEF OrderPayload
  <2> HIDE DEF payload, last
  <2> QED BY <1>3, <1>4, <2>1 DEF OrderRecord, ParseOrder
<1>6. SnapshotEvent(OrderRecord(ParseOrder(payload))) = SnapshotNews(order, priced)
  BY <1>5 DEF SnapshotEvent, Unpriced, Reconciliation, SnapshotNews
<1>7. SnapshotNews(order, priced) \in OwnEvents
  <2>1. NoPrice \in [paid : Nat, for : 0 .. Quantity]
    BY QuantityAssumption DEF NoPrice
  <2>2. order.status \in OrderState
    BY <1>2 DEF NativeStatus, Final, OrderState
  <2>3. (IF priced THEN PriceUpTo(order, last) ELSE NoPrice)
            \in [paid : Nat, for : 0 .. Quantity]
    BY <1>1, <2>1
  <2> HIDE DEF last
  <2> QED BY <1>1, <2>2, <2>3
          DEF SnapshotNews, OwnEvents, JournalEvent, LocalId, OrderEventKind, last
<1> QED BY <1>6, <1>7

-----------------------------------------------------------------------------
(* What the engine makes of it.                                            *)

(* A row takes over the fills and the price of what it is told.            *)
LEMMA FillIsApplied ==
    ASSUME NEW order, IsSound(order), NEW r, IsBacked(r, order), NEW e,
           e.kind \in {"TRADE", "CANCELED", "EXPIRED", "RECONCILED"},
           NEW n \in 0 .. TradeCount(order), e.cum = UpTo(order, n),
           \/ e.average = PriceUpTo(order, n)
           \/ e.average = NoPrice /\ r.average = NoPrice,
           Accepts(Quantity, r, e),
           NEW state, state = StateAfter(Quantity, r, e),
           ~IsTerminal(r) =>
               /\ state \in OrderState \ {"CREATED", "REJECTED"}
               /\ state \in Final => state = order.status /\ n = TradeCount(order)
    PROVE  LET new == ApplyEvent(Quantity, r, e) IN
           IsBacked(new, order) /\ FollowsFrom(new, r, e)
<1> DEFINE new == ApplyEvent(Quantity, r, e)
<1>1. PICK m \in 0 .. TradeCount(order) :
          /\ r.cum = UpTo(order, m)
          /\ r.average \in {NoPrice, PriceUpTo(order, m)}
          /\ r.state \in Final => r.state = order.status /\ m = TradeCount(order)
  BY DEF IsBacked
<1>2. /\ r.cum \in 0 .. Quantity /\ e.cum \in 0 .. Quantity
      /\ e.cum # NoQuantity
      /\ PriceUpTo(order, n) \in [paid : Nat, for : 0 .. Quantity]
      /\ NoPrice \in [paid : Nat, for : 0 .. Quantity]
      /\ r \in Row
  BY <1>1, TradesAddUp, QuantityAssumption DEF NoQuantity, NoPrice, IsBacked
<1>3. /\ new.state = Apply(Quantity, r, e).state /\ new.cum = Apply(Quantity, r, e).cum
      /\ new.known = (r.known \/ IsExchangeNews(e))
      /\ new.average = IF e.average # NoPrice THEN e.average ELSE r.average
      /\ new = [state |-> new.state, cum |-> new.cum, known |-> new.known,
                average |-> new.average]
  BY DEF ApplyEvent
<1> HIDE DEF new
<1>4. new.known \in BOOLEAN
  BY <1>2, <1>3 DEF Row, IsExchangeNews
<1>5. new.average \in [paid : Nat, for : 0 .. Quantity]
  BY <1>2, <1>3 DEF Row
<1>6. CASE IsTerminal(r)
  <2>1. /\ new.state = r.state /\ new.cum = r.cum
    BY <1>3, <1>6 DEF Apply
  <2>2. e.cum = r.cum
    BY <1>2, <1>6 DEF Accepts, IsIdempotentTerminalReplay
  <2>3. m = n
    BY <1>1, <2>2, FillsNameTheirTrades
  <2>4. new.average \in {NoPrice, PriceUpTo(order, m)}
    BY <1>1, <1>3, <2>3
  <2>5. new \in Row
    BY <1>2, <1>3, <1>4, <1>5, <2>1 DEF Row
  <2>6. IsBacked(new, order)
    BY <1>1, <2>1, <2>4, <2>5 DEF IsBacked
  <2>7. FollowsFrom(new, r, e)
    BY <1>2, <2>1, <2>2 DEF FollowsFrom
  <2> QED BY <2>6, <2>7 DEF new
<1>7. CASE ~IsTerminal(r)
  <2>1. CarriesFill(e)
    BY <1>2 DEF CarriesFill
  <2>2. new.state = state /\ new.cum = e.cum
    BY <1>3, <1>7, <2>1 DEF Apply
  <2>3. e.cum \in r.cum .. Quantity
    BY <1>7, <2>1 DEF Accepts, ObservedFillIsValid
  <2>4. new.average \in {NoPrice, PriceUpTo(order, n)}
    <3>1. CASE e.average # NoPrice
      BY <1>3, <3>1
    <3>2. CASE e.average = NoPrice /\ r.average = NoPrice
      BY <1>3, <3>2
    <3>3. CASE e.average = NoPrice /\ PriceUpTo(order, n) = NoPrice
      <4>1. n = 0
        <5>1. n # 0 => order.trades[n] \in TradeRecord
          BY TradesAddUp
        <5>2. n # 0 => PriceUpTo(order, n).for \in 1 .. Quantity
          BY <5>1 DEF PriceUpTo, TradeRecord
        <5> QED BY <3>3, <5>2 DEF NoPrice
      <4>2. r.cum = 0
        BY <1>2, <2>3, <4>1 DEF UpTo
      <4>3. m = n
        BY <1>1, <4>1, <4>2, FillsNameTheirTrades DEF UpTo
      <4> QED BY <1>1, <1>3, <3>3, <4>3
    <3> QED BY <3>1, <3>2, <3>3
  <2>5. new \in Row
    BY <1>2, <1>3, <1>4, <1>5, <1>7, <2>2 DEF Row
  <2>6. IsBacked(new, order)
    BY <1>7, <2>2, <2>4, <2>5 DEF IsBacked, OrderState
  <2>7. FollowsFrom(new, r, e)
    BY <1>2, <1>7, <2>2, <2>3 DEF FollowsFrom
  <2> QED BY <2>6, <2>7 DEF new
<1> QED BY <1>6, <1>7

LEMMA NewsIsApplied ==
    ASSUME NEW order, IsSound(order), NEW r, IsBacked(r, order),
           NEW e \in News(order), Accepts(Quantity, r, e)
    PROVE  LET new == ApplyEvent(Quantity, r, e) IN
           IsBacked(new, order) /\ FollowsFrom(new, r, e)
<1> DEFINE last == TradeCount(order)
<1>0. last \in Nat
  BY TradesAddUp
<1>1. CASE e = Acceptance
  <2> DEFINE new == ApplyEvent(Quantity, r, e)
  <2>1. e.kind = "ACKNOWLEDGED" /\ e.cum = 0 /\ r \in Row
    BY <1>1 DEF Acceptance, IsBacked
  <2>2. ~IsTerminal(r)
    BY <2>1 DEF Accepts, IsIdempotentTerminalReplay, IsTerminal, TerminalOrderState
  <2>3. /\ new.state \in {r.state, "NEW"} /\ new.cum = r.cum
        /\ new.known = (r.known \/ IsExchangeNews(e)) /\ new.average = r.average
        /\ new = [state |-> new.state, cum |-> new.cum, known |-> new.known,
                  average |-> new.average]
    BY <2>1, <2>2 DEF ApplyEvent, Apply, StateAfter, CarriesFill
  <2> HIDE DEF new
  <2>4. new \in Row
    BY <2>1, <2>3 DEF Row, OrderState, IsExchangeNews
  <2>5. IsBacked(new, order)
    BY <2>2, <2>3, <2>4 DEF IsBacked, Final
  <2>6. FollowsFrom(new, r, e)
    BY <2>1, <2>2, <2>3, QuantityAssumption DEF FollowsFrom, Row
  <2> QED BY <2>5, <2>6 DEF new
<1>2. ASSUME NEW k \in 1 .. last, e = TradeNews(order, k)
      PROVE  LET new == ApplyEvent(Quantity, r, e) IN
             IsBacked(new, order) /\ FollowsFrom(new, r, e)
  <2>1. /\ e.kind = "TRADE" /\ e.cum = UpTo(order, k) /\ k \in 0 .. last
        /\ e.average = PriceUpTo(order, k)
    BY <1>0, <1>2 DEF TradeNews
  <2>2. StateAfter(Quantity, r, e) = StateAfterTrade(Quantity, UpTo(order, k))
    BY <2>1 DEF StateAfter
  <2>3. /\ StateAfterTrade(Quantity, UpTo(order, k)) \in OrderState \ {"CREATED", "REJECTED"}
        /\ StateAfterTrade(Quantity, UpTo(order, k)) \in Final =>
               /\ StateAfterTrade(Quantity, UpTo(order, k)) = order.status
               /\ k = last
    BY <2>1, FillsNameTheirTrades DEF StateAfterTrade, OrderState, Final
  <2> QED BY <2>1, <2>2, <2>3, FillIsApplied
<1>3. CASE order.status \in {"CANCELED", "EXPIRED"} /\ e = EndNews(order)
  <2>1. /\ e.kind = order.status /\ e.cum = UpTo(order, last) /\ last \in 0 .. last
        /\ e.average = PriceUpTo(order, last)
    BY <1>0, <1>3 DEF EndNews
  <2>2. StateAfter(Quantity, r, e) = order.status
    BY <1>3, <2>1 DEF StateAfter
  <2>3. order.status \in OrderState \ {"CREATED", "REJECTED"}
    BY <1>3 DEF OrderState
  <2> QED BY <1>3, <2>1, <2>2, <2>3, FillIsApplied
<1> QED BY <1>1, <1>2, <1>3 DEF News

LEMMA SnapshotIsApplied ==
    ASSUME NEW order, IsSound(order), order.status # "ABSENT",
           NEW r, IsBacked(r, order), NEW priced \in BOOLEAN,
           priced \/ r.average = NoPrice,
           NEW e, e = SnapshotNews(order, priced), Accepts(Quantity, r, e)
    PROVE  LET new == ApplyEvent(Quantity, r, e) IN
           IsBacked(new, order) /\ FollowsFrom(new, r, e)
<1> DEFINE last == TradeCount(order)
<1>1. /\ e.kind = "RECONCILED" /\ e.cum = UpTo(order, last) /\ last \in 0 .. last
      /\ e.average = IF priced THEN PriceUpTo(order, last) ELSE NoPrice
      /\ e.to = order.status
  BY TradesAddUp DEF SnapshotNews
<1>2. StateAfter(Quantity, r, e) = order.status
  BY <1>1 DEF StateAfter
<1>3. order.status \in OrderState \ {"CREATED", "REJECTED"}
  BY DEF IsSound, NativeStatus, Final, OrderState
<1>4. \/ e.average = PriceUpTo(order, last)
      \/ e.average = NoPrice /\ r.average = NoPrice
  BY <1>1
<1> QED BY <1>1, <1>2, <1>3, <1>4, FillIsApplied

(* The local events of a submission.                                       *)
LEMMA LocalRows ==
    /\ SubmittedRow = [state |-> "SUBMITTING", cum |-> 0, known |-> FALSE,
                       average |-> NoPrice]
    /\ NoRow = [state |-> "ABSENT", cum |-> 0, known |-> FALSE, average |-> NoPrice]
<1>1. NoRow \in [state : {"ABSENT"}, cum : {0}, known : {FALSE}, average : {NoPrice}]
  BY DEF NoRow
<1>2. SubmittedRow \in [state : {"ABSENT", "SUBMITTING"}, cum : {0}, known : {FALSE},
                       average : {NoPrice}]
      /\ SubmittedRow.state = "SUBMITTING"
  BY <1>1 DEF SubmittedRow
<1> QED BY <1>1, <1>2

LEMMA SubmitIsApplied ==
    ASSUME NEW order, IsSound(order)
    PROVE  LET e == RequestEvent("SUBMIT_REQUESTED")
               new == ApplyEvent(Quantity, CreatedRow, e)
           IN  /\ e \in OwnEvents /\ new = SubmittedRow /\ IsBacked(new, order)
               /\ FollowsFrom(new, NoRow, e)
<1> DEFINE e == RequestEvent("SUBMIT_REQUESTED")
<1>1. e = [kind |-> "SUBMIT_REQUESTED", cum |-> NoQuantity, to |-> "CREATED",
           id |-> LocalId, average |-> NoPrice, last |-> NoValue, trade |-> NoValue,
           fee |-> NoValue, asset |-> "NONE"]
  BY DEF RequestEvent, Unpriced, LocalEvent
<1> HIDE DEF e
<1>2. e \in OwnEvents
  BY <1>1, QuantityAssumption
     DEF OwnEvents, JournalEvent, LocalId, OrderEventKind, OrderState, NoPrice
<1>3. ApplyEvent(Quantity, CreatedRow, e) = SubmittedRow
  <2>1. /\ CreatedRow.state = "CREATED" /\ CreatedRow.cum = 0
        /\ CreatedRow.known = FALSE /\ CreatedRow.average = NoPrice
    BY DEF CreatedRow, NoRow
  <2>2. /\ Apply(Quantity, CreatedRow, e).state = "SUBMITTING"
        /\ Apply(Quantity, CreatedRow, e).cum = 0
    BY <1>1, <2>1 DEF Apply, StateAfter, CarriesFill, IsTerminal, TerminalOrderState
  <2>3. ~IsExchangeNews(e)
    BY <1>1 DEF IsExchangeNews, LocalId
  <2> QED BY <1>1, <2>1, <2>2, <2>3, LocalRows DEF ApplyEvent
<1>4. IsBacked(SubmittedRow, order)
  <2>1. SubmittedRow \in Row
    BY LocalRows, QuantityAssumption DEF Row, OrderState, NoPrice
  <2>2. 0 \in 0 .. TradeCount(order) /\ UpTo(order, 0) = 0
    BY TradesAddUp DEF UpTo
  <2> QED BY <2>1, <2>2, LocalRows DEF IsBacked, Final
<1>5. FollowsFrom(SubmittedRow, NoRow, e)
  BY <1>1, LocalRows DEF FollowsFrom, IsTerminal, TerminalOrderState, NoQuantity
<1> QED BY <1>2, <1>3, <1>4, <1>5 DEF e

LEMMA TimeOutIsApplied ==
    ASSUME NEW order, IsSound(order)
    PROVE  LET e == RequestEvent("REQUEST_TIMED_OUT")
               new == ApplyEvent(Quantity, SubmittedRow, e)
           IN  /\ e \in OwnEvents /\ IsBacked(new, order)
               /\ FollowsFrom(new, SubmittedRow, e)
<1> DEFINE e == RequestEvent("REQUEST_TIMED_OUT")
           new == [state |-> "UNKNOWN", cum |-> 0, known |-> FALSE, average |-> NoPrice]
<1>1. e = [kind |-> "REQUEST_TIMED_OUT", cum |-> NoQuantity, to |-> "CREATED",
           id |-> LocalId, average |-> NoPrice, last |-> NoValue, trade |-> NoValue,
           fee |-> NoValue, asset |-> "NONE"]
  BY DEF RequestEvent, Unpriced, LocalEvent
<1> HIDE DEF e
<1>2. e \in OwnEvents
  BY <1>1, QuantityAssumption
     DEF OwnEvents, JournalEvent, LocalId, OrderEventKind, OrderState, NoPrice
<1>3. ApplyEvent(Quantity, SubmittedRow, e) = new
  <2>1. /\ SubmittedRow.state = "SUBMITTING" /\ SubmittedRow.cum = 0
        /\ SubmittedRow.known = FALSE /\ SubmittedRow.average = NoPrice
    BY LocalRows
  <2>2. /\ Apply(Quantity, SubmittedRow, e).state = "UNKNOWN"
        /\ Apply(Quantity, SubmittedRow, e).cum = 0
    BY <1>1, <2>1 DEF Apply, StateAfter, CarriesFill, IsTerminal, TerminalOrderState
  <2>3. ~IsExchangeNews(e)
    BY <1>1 DEF IsExchangeNews, LocalId
  <2> QED BY <1>1, <2>1, <2>2, <2>3 DEF ApplyEvent
<1>4. IsBacked(new, order)
  <2>1. new \in Row
    BY QuantityAssumption DEF Row, OrderState, NoPrice
  <2>2. 0 \in 0 .. TradeCount(order) /\ UpTo(order, 0) = 0
    BY TradesAddUp DEF UpTo
  <2> QED BY <2>1, <2>2 DEF IsBacked, Final
<1>5. FollowsFrom(new, SubmittedRow, e)
  BY <1>1, LocalRows DEF FollowsFrom, IsTerminal, TerminalOrderState, NoQuantity
<1> QED BY <1>2, <1>3, <1>4, <1>5 DEF e
-----------------------------------------------------------------------------
(* The kinds of steps the engine takes, as far as the invariant can tell.  *)

(* Frames get lost, repeated or consumed; none is made up.                 *)
WireOnlyRepeats ==
    /\ wire' \in Seq(FrameRecord)
    /\ \A i \in 1 .. Len(wire') : \E j \in 1 .. Len(wire) : wire'[i] = wire[j]

Idle ==
    /\ UNCHANGED <<market, exch, row, journal, writer, thread, worker>>
    /\ visible' \in 0 .. Len(exch.trades)
    /\ request' => request
    /\ {request', up', online', recheck'} \subseteq BOOLEAN
    /\ WireOnlyRepeats
    /\ up => up'
    /\ ~up' => ~online' /\ wire' = <<>>

Stop == StopProcess /\ UNCHANGED <<worldVars, request, row, journal>>

(* A thread that holds the lock, or takes it, goes on to what c says.      *)
Take(t, c) ==
    /\ up
    /\ UNCHANGED <<market, exch, visible, request, row, journal, writer, up, online,
                   worker>>
    /\ recheck' \in BOOLEAN
    /\ WireOnlyRepeats
    /\ Unlocked \/ thread[t].at \in {"sent", "query"}
    /\ thread' = [thread EXCEPT ![t] = c]
    /\ c \in ThreadState /\ c.at \in {"free", "query", "commit"}
    /\ t = "consumer" => c.at = "commit" /\ c.next = "free"
    /\ c.at = "commit" => CommitIsSound(c)
    /\ c.at = "query" => row # NoRow

Begin(t) ==
    /\ thread[t].at = "commit" /\ writer = "nobody"
    /\ writer' = t
    /\ thread' = [thread EXCEPT ![t].at = "writing"]
    /\ UNCHANGED <<worldVars, request, wire, row, journal, processVars, worker>>

Replay(t) ==
    /\ thread[t].at = "commit" /\ thread[t].next = "free" /\ writer = "nobody"
    /\ thread' = [thread EXCEPT ![t].at = "free"]
    /\ UNCHANGED <<worldVars, request, wire, row, journal, writer, processVars,
                   worker>>

LEMMA FreeIsTyped ==
    /\ Free \in ThreadState /\ Free.at = "free" /\ Free.next = "free"
    /\ NoRow \in Row /\ NoEvent \in JournalEvent
<1>1. NoRow \in Row
  BY QuantityAssumption, LocalRows DEF Row, NoPrice
<1>2. NoEvent \in JournalEvent
  BY NoOrderIsSound, SubmitIsApplied DEF NoEvent, OwnEvents
<1> QED BY <1>1, <1>2 DEF Free, ThreadState

LEMMA WireStays ==
    ASSUME wire \in Seq(FrameRecord), wire' = wire
    PROVE  WireOnlyRepeats
BY DEF WireOnlyRepeats

LEMMA WireIsConsumed ==
    ASSUME wire \in Seq(FrameRecord), wire # <<>>, wire' = Tail(wire)
    PROVE  WireOnlyRepeats
<1>1. /\ Tail(wire) \in Seq(FrameRecord) /\ Len(Tail(wire)) = Len(wire) - 1
      /\ Len(wire) \in Nat
      /\ \A i \in 1 .. Len(Tail(wire)) : Tail(wire)[i] = wire[i + 1]
  BY HeadTailProperties, LenProperties
<1>2. \A i \in 1 .. Len(wire) - 1 : i + 1 \in 1 .. Len(wire)
  BY <1>1
<1> QED BY <1>1, <1>2 DEF WireOnlyRepeats

LEMMA NewsNeedsAnOrder ==
    ASSUME NEW order, IsSound(order), NEW e \in News(order)
    PROVE  order # NoOrder /\ order.status # "ABSENT"
<1>1. order.status = "ABSENT" => order = NoOrder
  BY DEF IsSound
<1>2. ASSUME order = NoOrder PROVE FALSE
  <2>1. order.status = "ABSENT" /\ TradeCount(order) = 0
    BY <1>2 DEF NoOrder, TradeCount
  <2> QED BY <2>1 DEF News
<1> QED BY <1>1, <1>2

(* An order the exchange has is on disk, and the exchange backs its row.   *)
LEMMA OrderIsOnDisk ==
    ASSUME Inv, exch # NoOrder
    PROVE  /\ row # NoRow /\ IsBacked(row, exch) /\ exch.status # "ABSENT"
           /\ row \in Row
BY DEF Inv, RequestComesFirst, RowIsBacked, IsSound, IsBacked

LEMMA ConsumeKind ==
    ASSUME Inv, ConsumeFrame
    PROVE  Stop \/ Idle \/ \E c : Take("consumer", c)
<1> DEFINE event == Heard(Head(wire))
<1>1. /\ up /\ wire # <<>> /\ Unlocked /\ UNCHANGED <<worldVars, request, row, journal>>
      /\ \/ UNCHANGED <<thread, writer, worker, processVars>> /\ wire' = Tail(wire)
         \/ /\ IsOvertaken(row, event)
            /\ thread' = [thread EXCEPT !["consumer"] = Committing(row, event, "free")]
            /\ wire' = Tail(wire)
            /\ UNCHANGED <<writer, worker, processVars>>
         \/ /\ Accepts(Quantity, row, event)
            /\ thread' = [thread EXCEPT !["consumer"] =
                              Committing(ApplyEvent(Quantity, row, event), event, "free")]
            /\ wire' = Tail(wire)
            /\ UNCHANGED <<writer, worker, processVars>>
         \/ StopProcess
  BY Zenon DEF ConsumeFrame, Heard
<1>2. wire \in Seq(FrameRecord) /\ IsSound(exch) /\ TypeOK
  BY DEF Inv, Typed
<1>3. event \in News(exch)
  <2>1. Head(wire) = wire[1] /\ 1 \in 1 .. Len(wire)
    BY <1>1, <1>2, HeadTailProperties, EmptySeq, LenProperties
  <2> QED BY <2>1 DEF Inv, StreamIsNews
<1>4. exch # NoOrder /\ event \in JournalEvent
  BY <1>2, <1>3, NewsNeedsAnOrder, NewsIsTyped
<1>5. row # NoRow /\ IsBacked(row, exch) /\ row \in Row
  BY <1>4, OrderIsOnDisk
<1>6. wire' = Tail(wire) => WireOnlyRepeats
  BY <1>1, <1>2, WireIsConsumed
<1> HIDE DEF event
<1>7. ASSUME NEW r, IsBacked(r, exch), FollowsFrom(r, row, event),
             thread' = [thread EXCEPT !["consumer"] = Committing(r, event, "free")],
             wire' = Tail(wire), UNCHANGED <<writer, worker, processVars>>
      PROVE  \E c : Take("consumer", c)
  <2> DEFINE c == Committing(r, event, "free")
  <2>1. /\ c.at = "commit" /\ c.next = "free" /\ c.row = r /\ c.event = event
        /\ c \in ThreadState
    BY <1>4, <1>7 DEF Committing, ThreadState, IsBacked
  <2> HIDE DEF c
  <2>2. CommitIsSound(c)
    BY <1>3, <1>5, <1>7, <2>1 DEF CommitIsSound
  <2>3. thread' = [thread EXCEPT !["consumer"] = c]
    BY <1>7 DEF c
  <2>4. recheck' \in BOOLEAN
    BY <1>2, <1>7 DEF TypeOK, processVars
  <2>5. Take("consumer", c)
    BY <1>1, <1>6, <1>7, <2>1, <2>2, <2>3, <2>4 DEF Take, worldVars, processVars
  <2> QED BY <2>5
<1>8. CASE IsOvertaken(row, event)
           /\ thread' = [thread EXCEPT !["consumer"] = Committing(row, event, "free")]
           /\ wire' = Tail(wire) /\ UNCHANGED <<writer, worker, processVars>>
  <2>1. FollowsFrom(row, row, event)
    BY <1>5, <1>8, QuantityAssumption DEF IsOvertaken, FollowsFrom, Row
  <2> QED BY <1>5, <1>7, <1>8, <2>1
<1>9. CASE Accepts(Quantity, row, event)
           /\ thread' = [thread EXCEPT !["consumer"] =
                             Committing(ApplyEvent(Quantity, row, event), event, "free")]
           /\ wire' = Tail(wire) /\ UNCHANGED <<writer, worker, processVars>>
  <2>1. /\ IsBacked(ApplyEvent(Quantity, row, event), exch)
        /\ FollowsFrom(ApplyEvent(Quantity, row, event), row, event)
    BY <1>2, <1>3, <1>5, <1>9, NewsIsApplied
  <2> QED BY <1>7, <1>9, <2>1
<1>10. CASE UNCHANGED <<thread, writer, worker, processVars>> /\ wire' = Tail(wire)
  BY <1>1, <1>2, <1>6, <1>10 DEF Idle, TypeOK, worldVars, processVars
<1>11. CASE StopProcess
  BY <1>1, <1>11 DEF Stop
<1> QED BY <1>1, <1>8, <1>9, <1>10, <1>11
-----------------------------------------------------------------------------
(* What the thread that submits and reconciles does.                       *)

LEMMA CallerTakes ==
    ASSUME Inv, up, NEW r, NEW e \in OwnEvents, NEW next \in {"free", "query"},
           IsBacked(r, exch), FollowsFrom(r, row, e), row # NoRow,
           thread["caller"].at \in {"sent", "query"},
           thread' = [thread EXCEPT !["caller"] = Committing(r, e, next)],
           UNCHANGED <<worldVars, request, wire, row, journal, writer, processVars,
                       worker>>
    PROVE  \E c : Take("caller", c)
<1> DEFINE c == Committing(r, e, next)
<1>1. /\ c.at = "commit" /\ c.next = next /\ c.row = r /\ c.event = e
      /\ c \in ThreadState
  BY DEF Committing, ThreadState, IsBacked, OwnEvents
<1>2. thread' = [thread EXCEPT !["caller"] = c]
  OBVIOUS
<1> HIDE DEF c
<1>3. CommitIsSound(c)
  BY <1>1 DEF CommitIsSound
<1>4. recheck' \in BOOLEAN /\ WireOnlyRepeats
  BY WireStays DEF Inv, Typed, TypeOK, processVars
<1>5. Take("caller", c)
  BY <1>1, <1>2, <1>3, <1>4 DEF Take, worldVars, processVars
<1> QED BY <1>5

LEMMA CallerIsUp ==
    ASSUME Inv, NEW t \in Locker, thread[t].at # "free"
    PROVE  up
BY DEF Inv, Typed, TypeOK, Unlocked

LEMMA SnapshotKind ==
    ASSUME Inv, NEW priced \in BOOLEAN, exch # NoOrder, CommitSnapshot(priced),
           thread["caller"].at \in {"sent", "query"}, priced \/ row.average = NoPrice,
           UNCHANGED <<worldVars, request, row, journal>>
    PROVE  Stop \/ \E c : Take("caller", c)
<1> DEFINE e == SnapshotEvent(OrderRecord(ParseOrder(OrderPayload(market, exch, priced))))
<1>1. \/ /\ Accepts(Quantity, row, e)
         /\ thread' = [thread EXCEPT !["caller"] =
                           Committing(ApplyEvent(Quantity, row, e), e, "free")]
         /\ UNCHANGED <<wire, writer, worker, processVars>>
      \/ StopProcess
  BY Zenon DEF CommitSnapshot
<1>2. IsSound(exch) /\ market \in Market
  BY DEF Inv, Typed, TypeOK
<1>3. row # NoRow /\ IsBacked(row, exch) /\ exch.status # "ABSENT"
  BY OrderIsOnDisk
<1>4. e = SnapshotNews(exch, priced) /\ e \in OwnEvents
  BY <1>2, <1>3, AnswerIsHeard
<1> HIDE DEF e
<1>5. CASE StopProcess
  BY <1>5 DEF Stop
<1>6. CASE Accepts(Quantity, row, e)
           /\ thread' = [thread EXCEPT !["caller"] =
                             Committing(ApplyEvent(Quantity, row, e), e, "free")]
           /\ UNCHANGED <<wire, writer, worker, processVars>>
  <2>1. /\ IsBacked(ApplyEvent(Quantity, row, e), exch)
        /\ FollowsFrom(ApplyEvent(Quantity, row, e), row, e)
    BY <1>2, <1>3, <1>4, <1>6, SnapshotIsApplied
  <2>2. up
    BY CallerIsUp DEF Locker
  <2> QED BY <1>3, <1>4, <1>6, <2>1, <2>2, CallerTakes
<1> QED BY <1>1, <1>5, <1>6

LEMMA SubmitKind ==
    ASSUME Inv, Submit
    PROVE  \E c : Take("caller", c)
<1> DEFINE e == RequestEvent("SUBMIT_REQUESTED")
           c == Committing(ApplyEvent(Quantity, CreatedRow, e), e, "sent")
<1>1. /\ up /\ row = NoRow /\ Unlocked
      /\ thread' = [thread EXCEPT !["caller"] = c]
      /\ UNCHANGED <<worldVars, request, wire, row, journal, writer,
                     processVars, worker>>
  BY DEF Submit
<1>2. IsSound(exch) /\ exch = NoOrder /\ ~request
  BY <1>1 DEF Inv, RequestComesFirst
<1>3. /\ e \in OwnEvents /\ ApplyEvent(Quantity, CreatedRow, e) = SubmittedRow
      /\ IsBacked(SubmittedRow, exch) /\ FollowsFrom(SubmittedRow, NoRow, e)
  BY <1>2, SubmitIsApplied
<1> HIDE DEF e
<1>4. /\ c.at = "commit" /\ c.next = "sent" /\ c.row = SubmittedRow /\ c.event = e
      /\ c \in ThreadState
  BY <1>3 DEF Committing, ThreadState, IsBacked, OwnEvents
<1> HIDE DEF c
<1>5. CommitIsSound(c)
  BY <1>1, <1>2, <1>3, <1>4 DEF CommitIsSound
<1>6. recheck' \in BOOLEAN /\ WireOnlyRepeats
  BY <1>1, WireStays DEF Inv, Typed, TypeOK, processVars
<1>7. Take("caller", c)
  BY <1>1, <1>4, <1>5, <1>6 DEF Take, worldVars, processVars
<1> QED BY <1>7

LEMMA TimeOutKind ==
    ASSUME Inv, SubmitTimesOut
    PROVE  \E c : Take("caller", c)
<1> DEFINE e == RequestEvent("REQUEST_TIMED_OUT")
<1>1. /\ thread["caller"].at = "sent"
      /\ thread' = [thread EXCEPT !["caller"] =
                        Committing(ApplyEvent(Quantity, row, e), e, "query")]
      /\ UNCHANGED <<worldVars, request, wire, row, journal, writer,
                     processVars, worker>>
  BY DEF SubmitTimesOut
<1>2. IsSound(exch) /\ row = SubmittedRow /\ row # NoRow /\ up
  BY <1>1, LocalRows, CallerIsUp DEF Inv, CommitsAreSound, Locker
<1>3. /\ e \in OwnEvents /\ IsBacked(ApplyEvent(Quantity, row, e), exch)
      /\ FollowsFrom(ApplyEvent(Quantity, row, e), row, e)
  BY <1>2, TimeOutIsApplied
<1> HIDE DEF e
<1> QED BY <1>1, <1>2, <1>3, CallerTakes

(* The caller lets go, or asks for the order's state.                      *)
LEMMA CallerAsks ==
    ASSUME Inv, up, NEW c, c \in ThreadState, c.at \in {"free", "query"},
           c.at = "query" => row # NoRow,
           Unlocked \/ thread["caller"].at \in {"sent", "query"},
           thread' = [thread EXCEPT !["caller"] = c], recheck' \in BOOLEAN,
           UNCHANGED <<worldVars, request, wire, row, journal, writer, up, online,
                       worker>>
    PROVE  Take("caller", c)
<1>1. WireOnlyRepeats
  BY WireStays DEF Inv, Typed
<1> QED BY <1>1 DEF Take, worldVars

LEMMA AnswerKind ==
    ASSUME Inv, SubmitAnswered \/ QueryAnswered
    PROVE  Stop \/ \E c : Take("caller", c)
<1>1. CASE SubmitAnswered
  <2>1. /\ thread["caller"].at = "sent" /\ exch # NoOrder
        /\ UNCHANGED <<worldVars, request, row, journal>>
    BY <1>1 DEF SubmitAnswered
  <2>2. PICK priced \in {TRUE, exch.status # "FILLED"} : CommitSnapshot(priced)
    BY <1>1 DEF SubmitAnswered
  <2>3. row.average = NoPrice
    BY <2>1, LocalRows DEF Inv, CommitsAreSound
  <2> QED BY <2>1, <2>2, <2>3, SnapshotKind
<1>2. CASE QueryAnswered /\ exch # NoOrder
  <2>1. /\ thread["caller"].at = "query" /\ CommitSnapshot(TRUE)
        /\ UNCHANGED <<worldVars, request, row, journal>>
    BY <1>2 DEF QueryAnswered
  <2> QED BY <1>2, <2>1, SnapshotKind
<1>3. CASE QueryAnswered /\ exch = NoOrder
  <2>1. /\ thread["caller"].at = "query"
        /\ thread' = [thread EXCEPT !["caller"] = Free]
        /\ UNCHANGED <<worldVars, request, wire, row, journal, writer, worker,
                       processVars>>
    BY <1>3 DEF QueryAnswered
  <2>2. up
    BY <2>1, CallerIsUp DEF Locker
  <2>3. recheck' \in BOOLEAN
    BY <2>1 DEF processVars, Inv, Typed, TypeOK
  <2> QED BY <2>1, <2>2, <2>3, FreeIsTyped, CallerAsks DEF processVars
<1> QED BY <1>1, <1>2, <1>3

LEMMA SweepKind ==
    ASSUME Inv, Sweep
    PROVE  Stop \/ Idle \/ \E c : Take("caller", c)
<1>1. /\ up /\ Unlocked /\ UNCHANGED <<worldVars, request, row, journal>>
      /\ \/ StopProcess
         \/ /\ recheck' = FALSE
            /\ \/ /\ IsOpen(row)
                  /\ thread' = [thread EXCEPT !["caller"] = [Free EXCEPT !.at = "query"]]
               \/ thread' = thread
            /\ UNCHANGED <<wire, writer, worker, up, online>>
  BY DEF Sweep
<1>2. CASE StopProcess
  BY <1>1, <1>2 DEF Stop
<1>3. CASE /\ recheck' = FALSE /\ IsOpen(row)
           /\ thread' = [thread EXCEPT !["caller"] = [Free EXCEPT !.at = "query"]]
           /\ UNCHANGED <<wire, writer, worker, up, online>>
  <2> DEFINE c == [Free EXCEPT !.at = "query"]
  <2>1. c \in ThreadState /\ c.at = "query"
    BY FreeIsTyped DEF ThreadState
  <2>2. row # NoRow
    BY <1>3 DEF IsOpen
  <2> QED BY <1>1, <1>3, <2>1, <2>2, CallerAsks
<1>4. CASE /\ recheck' = FALSE /\ thread' = thread
           /\ UNCHANGED <<wire, writer, worker, up, online>>
  <2>1. WireOnlyRepeats
    BY <1>4, WireStays DEF Inv, Typed
  <2> QED BY <1>1, <1>4, <2>1 DEF Idle, Inv, Typed, TypeOK, worldVars
<1> QED BY <1>1, <1>2, <1>3, <1>4
-----------------------------------------------------------------------------
(* Transactions, the world, and the list of all kinds of steps.            *)

LEMMA BeginKind ==
    ASSUME Inv, NEW t \in Locker, BeginCommit(t)
    PROVE  Stop \/ Begin(t) \/ Replay(t)
<1>1. /\ thread[t].at = "commit" /\ writer = "nobody"
      /\ UNCHANGED <<worldVars, request, row, journal>>
      /\ \/ /\ writer' = t
            /\ thread' = [thread EXCEPT ![t].at = "writing"]
            /\ UNCHANGED <<wire, processVars, worker>>
         \/ /\ Journaled(thread[t].event) # {}
            /\ thread' = [thread EXCEPT ![t].at = thread[t].next]
            /\ UNCHANGED <<wire, writer, processVars, worker>>
         \/ StopProcess
  BY DEF BeginCommit
<1>2. CASE /\ Journaled(thread[t].event) # {}
           /\ thread' = [thread EXCEPT ![t].at = thread[t].next]
           /\ UNCHANGED <<wire, writer, processVars, worker>>
  <2>1. thread[t].event.id # LocalId
    BY <1>2 DEF Journaled
  <2>2. thread[t].next = "free"
    BY <1>1, <2>1 DEF Inv, CommitsAreSound, IsCommitting, CommitIsSound, OwnEvents
  <2> QED BY <1>1, <1>2, <2>2 DEF Replay
<1>3. CASE /\ writer' = t
           /\ thread' = [thread EXCEPT ![t].at = "writing"]
           /\ UNCHANGED <<wire, processVars, worker>>
  BY <1>1, <1>3 DEF Begin
<1>4. CASE StopProcess
  BY <1>1, <1>4 DEF Stop
<1> QED BY <1>1, <1>2, <1>3, <1>4

LEMMA StillIsIdle ==
    ASSUME Inv, UNCHANGED vars
    PROVE  Idle
<1>1. WireOnlyRepeats
  BY WireStays DEF Inv, Typed, vars
<1> QED BY <1>1 DEF Idle, Inv, Typed, TypeOK, vars

LEMMA RedeliverRepeats ==
    ASSUME Inv, Redeliver
    PROVE  WireOnlyRepeats
<1>1. wire \in Seq(FrameRecord) /\ wire # <<>> /\ wire' = <<Head(wire)>> \o wire
  BY DEF Inv, Typed, Redeliver
<1>2. /\ Len(wire) \in Nat /\ 1 \in 1 .. Len(wire)
      /\ Head(wire) = wire[1] /\ wire[1] \in FrameRecord
  BY <1>1, EmptySeq, LenProperties, HeadTailProperties, ElementOfSeq
<1>3. <<Head(wire)>> \in Seq(FrameRecord) /\ Len(<<Head(wire)>>) = 1
      /\ <<Head(wire)>>[1] = wire[1]
  BY <1>2
<1>4. wire' \in Seq(FrameRecord) /\ Len(wire') = Len(wire) + 1
  BY <1>1, <1>2, <1>3, ConcatProperties
<1>5. \A i \in 1 .. Len(wire) + 1 :
          wire'[i] = IF i <= 1 THEN <<Head(wire)>>[i] ELSE wire[i - 1]
  BY <1>1, <1>2, <1>3, ConcatProperties
<1>6. ASSUME NEW i \in 1 .. Len(wire')
      PROVE  \E j \in 1 .. Len(wire) : wire'[i] = wire[j]
  <2>1. CASE i = 1
    BY <1>2, <1>3, <1>4, <1>5, <2>1
  <2>2. CASE i # 1
    <3>1. wire'[i] = wire[i - 1] /\ i - 1 \in 1 .. Len(wire)
      BY <1>2, <1>4, <1>5, <2>2
    <3> QED BY <3>1
  <2> QED BY <2>1, <2>2
<1> QED BY <1>4, <1>6 DEF WireOnlyRepeats

LEMMA DisconnectTruncates ==
    ASSUME Inv, Disconnect
    PROVE  WireOnlyRepeats
<1>1. wire \in Seq(FrameRecord) /\ Len(wire) \in Nat
  BY LenProperties DEF Inv, Typed
<1>2. PICK n \in 0 .. Len(wire) : wire' = SubSeq(wire, 1, n)
  BY DEF Disconnect
<1>3. /\ wire' \in Seq(FrameRecord) /\ Len(wire') = n
      /\ \A i \in 1 .. n : wire'[i] = wire[i]
  BY <1>1, <1>2, SubSeqProperties
<1> QED BY <1>1, <1>3 DEF WireOnlyRepeats

LEMMA WorldKind ==
    ASSUME Inv, World, ~ExchangeSteps
    PROVE  Stop \/ Idle
<1>1. /\ wire \in Seq(FrameRecord) /\ TypeOK /\ IsSound(exch)
      /\ wire' = wire => WireOnlyRepeats
      /\ Len(exch.trades) \in Nat /\ visible \in 0 .. Len(exch.trades)
  BY WireStays, TradesAddUp DEF Inv, Typed, TypeOK, TradeCount
<1>2. CASE Reveal
  BY <1>1, <1>2 DEF Reveal, Idle, TypeOK, processVars
<1>3. CASE LoseRequest
  BY <1>1, <1>3 DEF LoseRequest, Idle, TypeOK, processVars, worldVars
<1>4. CASE Redeliver
  <2>1. up /\ WireOnlyRepeats
    BY <1>1, <1>4, RedeliverRepeats DEF Redeliver, TypeOK
  <2> QED BY <1>1, <1>4, <2>1 DEF Redeliver, Idle, TypeOK, processVars, worldVars
<1>5. CASE Connect
  BY <1>1, <1>5 DEF Connect, Idle, TypeOK, worldVars
<1>6. CASE Disconnect
  <2>1. up /\ WireOnlyRepeats
    BY <1>1, <1>6, DisconnectTruncates DEF Disconnect, TypeOK
  <2> QED BY <1>1, <1>6, <2>1 DEF Disconnect, Idle, TypeOK, worldVars
<1>7. CASE Crash
  BY <1>7 DEF Crash, Stop
<1>8. CASE Restart
  BY <1>1, <1>8 DEF Restart, Idle, TypeOK, worldVars
<1> QED BY <1>2, <1>3, <1>4, <1>5, <1>6, <1>7, <1>8 DEF World, ExchangeSteps

LEMMA StepKinds ==
    ASSUME Inv, [Next]_vars
    PROVE  \/ ExchangeSteps \/ Stop \/ Idle \/ Working
           \/ \E t \in Locker : Begin(t) \/ Replay(t) \/ EndCommit(t)
           \/ \E t \in Locker : \E c : Take(t, c)
<1>1. CASE Locking
  BY <1>1, BeginKind DEF Locking
<1>2. CASE ConsumeFrame
  BY <1>2, ConsumeKind DEF Locker
<1>3. CASE Calling
  <2>1. Stop \/ Idle \/ \E c : Take("caller", c)
    BY <1>3, SubmitKind, AnswerKind, TimeOutKind, SweepKind DEF Calling
  <2> QED BY <2>1 DEF Locker
<1>4. CASE World
  BY <1>4, WorldKind
<1>5. CASE UNCHANGED vars
  BY <1>5, StillIsIdle
<1> QED BY <1>1, <1>2, <1>3, <1>4, <1>5 DEF Next
-----------------------------------------------------------------------------
(* The exchange moves: what it says is news, and nobody loses by it.       *)

LEMMA ExchangeKeeps ==
    ASSUME Inv, [Next]_vars
    PROVE  /\ IsSound(exch) /\ IsSound(exch') /\ Grows(exch, exch')
           /\ News(exch) \subseteq News(exch')
           /\ History(exch) \subseteq History(exch')
           /\ \A r : IsBacked(r, exch) => IsBacked(r, exch')
<1>1. IsSound(exch) /\ RequestComesFirst
  BY DEF Inv
<1>2. IsSound(exch') /\ Grows(exch, exch')
  BY <1>1, ExchangeGrows
<1> QED BY <1>1, <1>2, NewsStaysNews, BackedStaysBacked

LEMMA AcceptSpeaks ==
    ASSUME Inv, Accept
    PROVE  \/ wire' = wire
           \/ online /\ \E f \in FrameRecord : Heard(f) \in News(exch')
                                               /\ wire' = Append(wire, f)
<1> DEFINE order == [status |-> "NEW", trades |-> <<>>]
           f == Frame(market, "NEW", order)
<1>1. exch' = order /\ wire' = IF online THEN Append(wire, f) ELSE wire
  BY DEF Accept, Emit
<1>2. f \in FrameRecord /\ Heard(f) = Acceptance
  BY AcceptanceIsHeard DEF Inv, Typed, TypeOK
<1>3. Acceptance \in News(exch')
  BY <1>1 DEF News
<1> HIDE DEF f, order
<1> QED BY <1>1, <1>2, <1>3

LEMMA TradeSpeaks ==
    ASSUME Inv, Trade
    PROVE  \/ wire' = wire
           \/ online /\ \E f \in FrameRecord : Heard(f) \in News(exch')
                                               /\ wire' = Append(wire, f)
<1>1. IsSound(exch) /\ exch.status \in Open /\ market \in Market
  BY DEF Inv, Typed, TypeOK, Trade, Open
<1>2. PICK q \in 1 .. Quantity - Executed(exch.trades), asset \in FeeAsset :
          LET trades == Append(exch.trades, TradeAfter(exch.trades, q, asset))
              order == [status |-> StateAfterTrade(Quantity, Executed(trades)),
                        trades |-> trades]
          IN  exch' = order /\ Emit("TRADE", order)
  BY DEF Trade
<1> DEFINE f == Frame(market, "TRADE", exch')
<1>3. wire' = IF online THEN Append(wire, f) ELSE wire
  BY <1>2 DEF Emit
<1>4. /\ IsSound(exch') /\ TradeCount(exch') = TradeCount(exch) + 1
      /\ exch'.status = StateAfterTrade(Quantity, UpTo(exch', TradeCount(exch')))
  BY <1>1, <1>2, TradeGrows
<1>5. TradeCount(exch) \in Nat
  BY <1>1, TradesAddUp
<1>6. f \in FrameRecord /\ Heard(f) = TradeNews(exch', TradeCount(exch'))
  BY <1>1, <1>4, <1>5, FramesAreTyped, TradeIsHeard
<1>7. TradeNews(exch', TradeCount(exch')) \in News(exch')
  BY <1>4, <1>5 DEF News
<1> HIDE DEF f
<1> QED BY <1>3, <1>6, <1>7

LEMMA EndSpeaks ==
    ASSUME Inv, End
    PROVE  \/ wire' = wire
           \/ online /\ \E f \in FrameRecord : Heard(f) \in News(exch')
                                               /\ wire' = Append(wire, f)
<1>1. IsSound(exch) /\ exch.status \in Open /\ market \in Market
  BY DEF Inv, Typed, TypeOK, End, Open
<1>2. PICK status \in {"CANCELED", "EXPIRED"} :
          exch' = [exch EXCEPT !.status = status] /\ Emit(status, exch')
  BY DEF End
<1> DEFINE f == Frame(market, status, exch')
<1>3. wire' = IF online THEN Append(wire, f) ELSE wire
  BY <1>2 DEF Emit
<1>4. IsSound(exch') /\ exch'.status = status
  BY <1>1, <1>2, EndGrows
<1>5. f \in FrameRecord /\ Heard(f) = EndNews(exch')
  BY <1>1, <1>4, FramesAreTyped, EndIsHeard
<1>6. EndNews(exch') \in News(exch')
  BY <1>4 DEF News
<1> HIDE DEF f
<1> QED BY <1>3, <1>5, <1>6

LEMMA ExchangeStep ==
    ASSUME Inv, ExchangeSteps
    PROVE  /\ UNCHANGED <<market, visible, row, journal, writer, up, online, recheck,
                          thread, worker>>
           /\ row # NoRow /\ ~request' /\ (request \/ exch # NoOrder)
           /\ \/ wire' = wire
              \/ online /\ \E f \in FrameRecord : Heard(f) \in News(exch')
                                                  /\ wire' = Append(wire, f)
<1>1. CASE Accept
  <2>1. /\ request /\ request' = FALSE
        /\ UNCHANGED <<market, visible, row, journal, writer, processVars,
                       thread, worker>>
    BY <1>1 DEF Accept
  <2> QED BY <1>1, <2>1, AcceptSpeaks DEF processVars, Inv, RequestComesFirst
<1>2. CASE Trade \/ End
  <2>1. /\ exch.status # "ABSENT"
        /\ UNCHANGED <<market, visible, request, row, journal, writer, processVars,
                       thread, worker>>
    BY <1>2 DEF Trade, End
  <2>2. exch # NoOrder
    BY <2>1 DEF NoOrder
  <2>3. row # NoRow /\ ~request
    BY <2>2 DEF Inv, RequestComesFirst
  <2> QED BY <1>2, <2>1, <2>2, <2>3, TradeSpeaks, EndSpeaks DEF processVars
<1> QED BY <1>1, <1>2 DEF ExchangeSteps
-----------------------------------------------------------------------------
(* Each part of the invariant is kept: the lock and its threads.           *)

LEMMA QuietKinds ==
    ASSUME Inv, ExchangeSteps \/ Idle \/ Working
    PROVE  UNCHANGED <<thread, writer, row>>
BY ExchangeStep DEF Idle, Working, ReadJournal, FetchFills, Backfill

LEMMA ThreadsStayTyped ==
    ASSUME Inv, [Next]_vars
    PROVE  /\ thread' \in [Locker -> ThreadState]
           /\ writer' \in {"nobody"} \cup Locker
           /\ \A t \in Locker : writer' = t <=> thread'[t].at = "writing"
<1>1. /\ thread \in [Locker -> ThreadState] /\ writer \in {"nobody"} \cup Locker
      /\ \A t \in Locker : writer = t <=> thread[t].at = "writing"
      /\ \A t \in Locker : thread[t] \in ThreadState
  BY DEF Inv, Typed, TypeOK
<1>2. CASE ExchangeSteps \/ Idle \/ Working
  BY <1>1, <1>2, QuietKinds
<1>3. CASE Stop
  BY <1>3, FreeIsTyped DEF Stop, StopProcess, Locker
<1>4. ASSUME NEW t \in Locker, Begin(t)
      PROVE  /\ thread' \in [Locker -> ThreadState]
             /\ writer' \in {"nobody"} \cup Locker
             /\ \A u \in Locker : writer' = u <=> thread'[u].at = "writing"
  <2>1. [thread[t] EXCEPT !.at = "writing"] \in ThreadState
    BY <1>1 DEF ThreadState
  <2>2. /\ thread' = [thread EXCEPT ![t] = [thread[t] EXCEPT !.at = "writing"]]
        /\ writer' = t /\ writer = "nobody"
    BY <1>4 DEF Begin
  <2>3. [thread[t] EXCEPT !.at = "writing"].at = "writing"
    BY <1>1 DEF ThreadState
  <2>4. \A u \in Locker : u # "nobody"
    BY DEF Locker
  <2> QED BY <1>1, <2>1, <2>2, <2>3, <2>4
<1>5. ASSUME NEW t \in Locker, Replay(t)
      PROVE  /\ thread' \in [Locker -> ThreadState]
             /\ writer' \in {"nobody"} \cup Locker
             /\ \A u \in Locker : writer' = u <=> thread'[u].at = "writing"
  <2>1. [thread[t] EXCEPT !.at = "free"] \in ThreadState
    BY <1>1 DEF ThreadState
  <2>2. /\ thread' = [thread EXCEPT ![t] = [thread[t] EXCEPT !.at = "free"]]
        /\ writer' = "nobody" /\ writer = "nobody"
    BY <1>5 DEF Replay
  <2>3. [thread[t] EXCEPT !.at = "free"].at = "free"
    BY <1>1 DEF ThreadState
  <2>4. \A u \in Locker : u # "nobody"
    BY DEF Locker
  <2> QED BY <1>1, <2>1, <2>2, <2>3, <2>4
<1>6. ASSUME NEW t \in Locker, EndCommit(t)
      PROVE  /\ thread' \in [Locker -> ThreadState]
             /\ writer' \in {"nobody"} \cup Locker
             /\ \A u \in Locker : writer' = u <=> thread'[u].at = "writing"
  <2> DEFINE c == [Free EXCEPT !.at = thread[t].next]
  <2>1. c \in ThreadState /\ c.at = thread[t].next /\ c.at # "writing"
    BY <1>1, FreeIsTyped DEF ThreadState
  <2>2. /\ thread' = [thread EXCEPT ![t] = c] /\ writer' = "nobody" /\ writer = t
    BY <1>1, <1>6 DEF EndCommit
  <2>3. \A u \in Locker : u # "nobody"
    BY DEF Locker
  <2> HIDE DEF c
  <2> QED BY <1>1, <2>1, <2>2, <2>3
<1>7. ASSUME NEW t \in Locker, NEW c, Take(t, c)
      PROVE  /\ thread' \in [Locker -> ThreadState]
             /\ writer' \in {"nobody"} \cup Locker
             /\ \A u \in Locker : writer' = u <=> thread'[u].at = "writing"
  <2>1. /\ thread' = [thread EXCEPT ![t] = c] /\ writer' = writer
        /\ c \in ThreadState /\ c.at # "writing" /\ thread[t].at # "writing"
    BY <1>7 DEF Take, Unlocked
  <2> QED BY <1>1, <2>1
<1> QED BY <1>2, <1>3, <1>4, <1>5, <1>6, <1>7, StepKinds

LEMMA LockStaysExclusive ==
    ASSUME Inv, [Next]_vars
    PROVE  LockIsExclusive'
<1>1. thread \in [Locker -> ThreadState] /\ LockIsExclusive
      /\ "consumer" \in Locker /\ "caller" \in Locker
  BY DEF Inv, Typed, Locker
<1>2. CASE ExchangeSteps \/ Idle \/ Working
  BY <1>1, <1>2, QuietKinds DEF LockIsExclusive
<1>3. CASE Stop
  BY <1>3, FreeIsTyped DEF Stop, StopProcess, Locker, LockIsExclusive
<1>4. ASSUME NEW t \in Locker, Begin(t) \/ Replay(t)
      PROVE  LockIsExclusive'
  <2>1. PICK at \in {"writing", "free"} :
            thread' = [thread EXCEPT ![t] = [thread[t] EXCEPT !.at = at]]
    BY <1>4 DEF Begin, Replay
  <2>2. /\ thread'[t].at = at /\ thread'[t].next = thread[t].next
        /\ \A u \in Locker \ {t} : thread'[u] = thread[u]
    BY <1>1, <2>1 DEF ThreadState
  <2>3. thread[t].at # "free"
    BY <1>4 DEF Begin, Replay
  <2> QED BY <1>1, <2>1, <2>2, <2>3 DEF LockIsExclusive
<1>5. ASSUME NEW t \in Locker, EndCommit(t)
      PROVE  LockIsExclusive'
  <2> DEFINE c == [Free EXCEPT !.at = thread[t].next]
  <2>1. c.at = thread[t].next /\ c.next = "free"
    BY FreeIsTyped DEF ThreadState
  <2>2. thread' = [thread EXCEPT ![t] = c] /\ thread[t].at = "writing"
    BY <1>5 DEF EndCommit
  <2> HIDE DEF c
  <2> QED BY <1>1, <2>1, <2>2 DEF LockIsExclusive
<1>6. ASSUME NEW t \in Locker, NEW c, Take(t, c)
      PROVE  LockIsExclusive'
  <2>1. /\ thread' = [thread EXCEPT ![t] = c]
        /\ Unlocked \/ thread[t].at \in {"sent", "query"}
        /\ t = "consumer" => c.at = "commit" /\ c.next = "free"
    BY <1>6 DEF Take
  <2>2. \A u \in Locker \ {t} : thread[u].at = "free"
    BY <1>1, <2>1 DEF LockIsExclusive, Unlocked
  <2> QED BY <1>1, <2>1, <2>2 DEF LockIsExclusive
<1> QED BY <1>2, <1>3, <1>4, <1>5, <1>6, StepKinds

(* What is written by the end of a commit.                                 *)
LEMMA CommitWrites ==
    ASSUME Inv, NEW t \in Locker, EndCommit(t)
    PROVE  /\ CommitIsSound(thread[t])
           /\ row' = thread[t].row /\ journal' = journal \cup {thread[t].event}
           /\ exch' = exch /\ row' # NoRow /\ row' \in Row /\ IsBacked(row', exch)
           /\ request' = (request \/ thread[t].next = "sent")
           /\ thread'[t].at = thread[t].next
           /\ \A u \in Locker \ {t} : thread'[u] = thread[u] /\ thread[u].at = "free"
           /\ thread[t].event \in News(exch) \cup OwnEvents
           /\ FollowsFrom(thread[t].row, row, thread[t].event)
<1>1. /\ thread[t].at = "writing" /\ row' = thread[t].row
      /\ journal' = journal \cup {thread[t].event} /\ exch' = exch
      /\ request' = (request \/ thread[t].next = "sent")
      /\ thread' = [thread EXCEPT ![t] = [Free EXCEPT !.at = thread[t].next]]
  BY DEF EndCommit, worldVars
<1>2. CommitIsSound(thread[t])
  BY <1>1 DEF Inv, CommitsAreSound, IsCommitting
<1>3. thread[t].row # NoRow /\ thread[t].row \in Row
  BY <1>2, LocalRows DEF CommitIsSound, IsBacked
<1>4. thread \in [Locker -> ThreadState] /\ LockIsExclusive
  BY DEF Inv, Typed
<1>5. [Free EXCEPT !.at = thread[t].next].at = thread[t].next
  BY FreeIsTyped DEF ThreadState
<1>6. thread'[t].at = thread[t].next
  BY <1>1, <1>4, <1>5
<1>7. \A u \in Locker \ {t} : thread'[u] = thread[u] /\ thread[u].at = "free"
  BY <1>1, <1>4 DEF LockIsExclusive
<1> QED BY <1>1, <1>2, <1>3, <1>6, <1>7 DEF CommitIsSound
-----------------------------------------------------------------------------
(* The row and what threads are about to write to it.                      *)

LEMMA RequestStaysFirst ==
    ASSUME Inv, [Next]_vars
    PROVE  RequestComesFirst' /\ RowIsBacked'
<1>1. RequestComesFirst /\ RowIsBacked /\ \A r : IsBacked(r, exch) => IsBacked(r, exch')
  BY ExchangeKeeps DEF Inv
<1>2. CASE ExchangeSteps
  <2>1. row' = row /\ row # NoRow /\ ~request'
    BY <1>2, ExchangeStep
  <2> QED BY <1>1, <2>1 DEF RequestComesFirst, RowIsBacked
<1>3. CASE Stop
  BY <1>1, <1>3 DEF Stop, worldVars, RequestComesFirst, RowIsBacked
<1>4. CASE Idle
  <2>1. UNCHANGED <<exch, row>> /\ (request' => request)
    BY <1>4 DEF Idle
  <2> QED BY <1>1, <2>1 DEF RequestComesFirst, RowIsBacked
<1>5. CASE Working
  <2>1. UNCHANGED <<exch, request, row>>
    BY <1>5 DEF Working, ReadJournal, FetchFills, Backfill, worldVars
  <2> QED BY <1>1, <2>1 DEF RequestComesFirst, RowIsBacked
<1>6. ASSUME NEW t \in Locker, Begin(t) \/ Replay(t)
      PROVE  RequestComesFirst' /\ RowIsBacked'
  <2>1. UNCHANGED <<exch, request, row>>
    BY <1>6 DEF Begin, Replay, worldVars
  <2> QED BY <1>1, <2>1 DEF RequestComesFirst, RowIsBacked
<1>7. ASSUME NEW t \in Locker, EndCommit(t)
      PROVE  RequestComesFirst' /\ RowIsBacked'
  <2>1. /\ row' # NoRow /\ exch' = exch /\ IsBacked(row', exch)
        /\ request' = (request \/ thread[t].next = "sent")
        /\ thread[t].next = "sent" => exch = NoOrder
    BY <1>7, CommitWrites DEF CommitIsSound
  <2> QED BY <1>1, <2>1 DEF RequestComesFirst, RowIsBacked
<1>8. ASSUME NEW t \in Locker, NEW c, Take(t, c)
      PROVE  RequestComesFirst' /\ RowIsBacked'
  BY <1>1, <1>8 DEF Take, RequestComesFirst, RowIsBacked
<1> QED BY <1>2, <1>3, <1>4, <1>5, <1>6, <1>7, <1>8, StepKinds

(* As long as the row is not written a commit stays sound.                 *)
LEMMA CommitStaysSound ==
    ASSUME Inv, [Next]_vars, row' = row, request' => request,
           exch' = exch \/ request \/ exch # NoOrder,
           NEW c, CommitIsSound(c)
    PROVE  CommitIsSound(c)'
<1>1. /\ News(exch) \subseteq News(exch')
      /\ \A r : IsBacked(r, exch) => IsBacked(r, exch')
  BY ExchangeKeeps
<1>2. c.event \in News(exch') \cup OwnEvents /\ IsBacked(c.row, exch')
  BY <1>1 DEF CommitIsSound
<1> QED BY <1>2 DEF CommitIsSound

LEMMA CommitsStaySound ==
    ASSUME Inv, [Next]_vars
    PROVE  CommitsAreSound'
<1>1. /\ thread \in [Locker -> ThreadState] /\ LockIsExclusive /\ CommitsAreSound
      /\ "consumer" \in Locker /\ "caller" \in Locker
  BY DEF Inv, Typed, Locker
<1>2. ASSUME UNCHANGED <<thread, row>>, request' => request,
             exch' = exch \/ request \/ exch # NoOrder
      PROVE  CommitsAreSound'
  <2>1. \A t \in Locker : IsCommitting(t) => CommitIsSound(thread[t])'
    BY <1>1, <1>2, CommitStaysSound DEF CommitsAreSound
  <2> QED BY <1>1, <1>2, <2>1 DEF CommitsAreSound, CommitIsSound, IsCommitting
<1>3. CASE ExchangeSteps
  <2>1. UNCHANGED <<thread, row>> /\ ~request' /\ (request \/ exch # NoOrder)
    BY <1>3, ExchangeStep
  <2> QED BY <1>2, <2>1
<1>4. CASE Stop
  BY <1>4, FreeIsTyped DEF Stop, StopProcess, Locker, CommitsAreSound, IsCommitting
<1>5. CASE Idle
  <2>1. UNCHANGED <<exch, row, thread>> /\ (request' => request)
    BY <1>5 DEF Idle
  <2> QED BY <1>2, <2>1
<1>6. CASE Working
  <2>1. UNCHANGED <<exch, request, row, thread>>
    BY <1>6 DEF Working, ReadJournal, FetchFills, Backfill, worldVars
  <2> QED BY <1>2, <2>1
<1>7. ASSUME NEW t \in Locker, Begin(t)
      PROVE  CommitsAreSound'
  <2>1. /\ UNCHANGED <<exch, request, row>> /\ thread[t].at = "commit"
        /\ thread' = [thread EXCEPT ![t] = [thread[t] EXCEPT !.at = "writing"]]
    BY <1>7 DEF Begin, worldVars
  <2>2. /\ thread'[t].at = "writing" /\ thread'[t].next = thread[t].next
        /\ thread'[t].row = thread[t].row /\ thread'[t].event = thread[t].event
        /\ \A u \in Locker \ {t} : thread'[u] = thread[u] /\ thread[u].at = "free"
    BY <1>1, <2>1 DEF ThreadState, LockIsExclusive
  <2>3. CommitIsSound(thread[t])
    BY <1>1, <2>1 DEF CommitsAreSound, IsCommitting
  <2>4. CommitIsSound(thread[t])'
    BY <2>1, <2>2, <2>3 DEF CommitIsSound
  <2>5. \A u \in Locker : IsCommitting(u)' => u = t
    BY <2>2 DEF IsCommitting
  <2> QED BY <1>1, <2>2, <2>4, <2>5 DEF CommitsAreSound
<1>8. ASSUME NEW t \in Locker, Replay(t)
      PROVE  CommitsAreSound'
  <2>1. /\ thread[t].at = "commit"
        /\ thread' = [thread EXCEPT ![t] = [thread[t] EXCEPT !.at = "free"]]
    BY <1>8 DEF Replay
  <2>2. \A u \in Locker : thread'[u].at = "free"
    BY <1>1, <2>1 DEF ThreadState, LockIsExclusive
  <2> QED BY <1>1, <2>2 DEF CommitsAreSound, IsCommitting
<1>9. ASSUME NEW t \in Locker, EndCommit(t)
      PROVE  CommitsAreSound'
  <2>1. /\ CommitIsSound(thread[t]) /\ row' = thread[t].row /\ row' # NoRow
        /\ thread'[t].at = thread[t].next
        /\ \A u \in Locker \ {t} : thread'[u] = thread[u] /\ thread[u].at = "free"
    BY <1>9, CommitWrites
  <2>2. thread[t].next \in {"free", "sent", "query"}
    BY <1>1 DEF ThreadState
  <2>3. thread[t].next = "sent" => row' = SubmittedRow
    BY <2>1 DEF CommitIsSound
  <2> QED BY <1>1, <2>1, <2>2, <2>3 DEF CommitsAreSound, IsCommitting
<1>10. ASSUME NEW t \in Locker, NEW c, Take(t, c)
       PROVE  CommitsAreSound'
  <2>1. /\ UNCHANGED <<exch, request, row>>
        /\ thread' = [thread EXCEPT ![t] = c]
        /\ Unlocked \/ thread[t].at \in {"sent", "query"}
        /\ c.at \in {"free", "query", "commit"}
        /\ c.at = "commit" => CommitIsSound(c)
        /\ c.at = "query" => row # NoRow
    BY <1>10 DEF Take
  <2>2. /\ thread'[t] = c
        /\ \A u \in Locker \ {t} : thread'[u] = thread[u] /\ thread[u].at = "free"
    BY <1>1, <2>1 DEF LockIsExclusive, Unlocked
  <2>3. c.at = "commit" => CommitIsSound(c)'
    BY <1>10, <2>1, CommitStaysSound DEF Take
  <2> QED BY <1>1, <2>1, <2>2, <2>3 DEF CommitsAreSound, IsCommitting, CommitIsSound
<1> QED BY <1>3, <1>4, <1>5, <1>6, <1>7, <1>8, <1>9, <1>10, StepKinds

-----------------------------------------------------------------------------
(* The stream, and the types of the rest.                                  *)

LEMMA StreamStaysNews ==
    ASSUME Inv, [Next]_vars
    PROVE  wire' \in Seq(FrameRecord) /\ StreamIsNews'
<1>1. /\ wire \in Seq(FrameRecord) /\ StreamIsNews /\ Len(wire) \in Nat
      /\ News(exch) \subseteq News(exch')
  BY ExchangeKeeps, LenProperties DEF Inv, Typed
<1>2. ASSUME WireOnlyRepeats
      PROVE  wire' \in Seq(FrameRecord) /\ StreamIsNews'
  BY <1>1, <1>2 DEF WireOnlyRepeats, StreamIsNews
<1>3. ASSUME wire' = wire
      PROVE  wire' \in Seq(FrameRecord) /\ StreamIsNews'
  BY <1>1, <1>2, <1>3, WireStays
<1>4. CASE ExchangeSteps
  <2>1. CASE wire' = wire
    BY <1>3, <2>1
  <2>2. ASSUME NEW f \in FrameRecord, Heard(f) \in News(exch'), wire' = Append(wire, f)
        PROVE  wire' \in Seq(FrameRecord) /\ StreamIsNews'
    <3>1. /\ wire' \in Seq(FrameRecord) /\ Len(wire') = Len(wire) + 1
          /\ \A i \in 1 .. Len(wire) : wire'[i] = wire[i]
          /\ wire'[Len(wire) + 1] = f
      BY <1>1, <2>2, AppendProperties
    <3>2. ASSUME NEW i \in 1 .. Len(wire') PROVE Heard(wire'[i]) \in News(exch')
      <4>1. CASE i = Len(wire) + 1
        BY <2>2, <3>1, <4>1
      <4>2. CASE i # Len(wire) + 1
        <5>1. i \in 1 .. Len(wire)
          BY <1>1, <3>1, <4>2
        <5> QED BY <1>1, <3>1, <5>1 DEF StreamIsNews
      <4> QED BY <4>1, <4>2
    <3> QED BY <3>1, <3>2 DEF StreamIsNews
  <2> QED BY <1>4, <2>1, <2>2, ExchangeStep
<1>5. CASE Stop
  BY <1>5, EmptySeq DEF Stop, StopProcess, StreamIsNews
<1>6. CASE Idle
  BY <1>2, <1>6 DEF Idle
<1>7. CASE Working
  <2>1. wire' = wire
    BY <1>7 DEF Working, ReadJournal, FetchFills, Backfill
  <2> QED BY <1>3, <2>1
<1>8. ASSUME NEW t \in Locker, Begin(t) \/ Replay(t) \/ EndCommit(t)
      PROVE  wire' \in Seq(FrameRecord) /\ StreamIsNews'
  <2>1. wire' = wire
    BY <1>8 DEF Begin, Replay, EndCommit
  <2> QED BY <1>3, <2>1
<1>9. ASSUME NEW t \in Locker, NEW c, Take(t, c)
      PROVE  wire' \in Seq(FrameRecord) /\ StreamIsNews'
  BY <1>2, <1>9 DEF Take
<1> QED BY <1>4, <1>5, <1>6, <1>7, <1>8, <1>9, StepKinds

LEMMA DeadStaysQuiet ==
    ASSUME Inv, [Next]_vars
    PROVE  /\ market' \in Market
           /\ {request', up', online', recheck'} \subseteq BOOLEAN
           /\ ~up' => Unlocked' /\ worker' = Resting /\ ~online' /\ wire' = <<>>
<1>1. /\ TypeOK /\ thread \in [Locker -> ThreadState]
      /\ {request, up, online, recheck} \subseteq BOOLEAN
      /\ ~up => Unlocked /\ worker = Resting /\ ~online /\ wire = <<>>
  BY DEF Inv, Typed, TypeOK
<1>2. CASE ExchangeSteps
  <2>1. /\ UNCHANGED <<market, up, online, recheck, thread, worker>>
        /\ request' \in BOOLEAN /\ (wire' = wire \/ online)
    <3>1. request' \in BOOLEAN
      BY <1>1, <1>2 DEF ExchangeSteps, Accept, Trade, End
    <3> QED BY <1>2, <3>1, ExchangeStep
  <2> QED BY <1>1, <2>1 DEF TypeOK, Unlocked
<1>3. CASE Stop
  BY <1>1, <1>3, FreeIsTyped DEF Stop, StopProcess, TypeOK, Unlocked, worldVars
<1>4. CASE Idle
  BY <1>1, <1>4 DEF Idle, TypeOK, Unlocked
<1>5. CASE Working
  <2>1. /\ UNCHANGED <<market, request, up, online, recheck>>
        /\ worker.at # "rest" \/ up
    BY <1>5 DEF Working, ReadJournal, FetchFills, Backfill, IsNextFill, Works,
                worldVars, processVars
  <2>2. up
    BY <1>1, <2>1 DEF Resting
  <2> QED BY <1>1, <2>1, <2>2 DEF TypeOK
<1>6. ASSUME NEW t \in Locker, Begin(t) \/ Replay(t) \/ EndCommit(t)
      PROVE  /\ market' \in Market
             /\ {request', up', online', recheck'} \subseteq BOOLEAN
             /\ ~up' => Unlocked' /\ worker' = Resting /\ ~online' /\ wire' = <<>>
  <2>1. /\ UNCHANGED <<market, up, online, recheck>>
        /\ request' = request \/ request' = (request \/ thread[t].next = "sent")
        /\ thread[t].at # "free"
    BY <1>6 DEF Begin, Replay, EndCommit, worldVars, processVars
  <2>2. up
    BY <2>1, CallerIsUp
  <2> QED BY <1>1, <2>1, <2>2 DEF TypeOK
<1>7. ASSUME NEW t \in Locker, NEW c, Take(t, c)
      PROVE  /\ market' \in Market
             /\ {request', up', online', recheck'} \subseteq BOOLEAN
             /\ ~up' => Unlocked' /\ worker' = Resting /\ ~online' /\ wire' = <<>>
  BY <1>1, <1>7 DEF Take, TypeOK
<1> QED BY <1>2, <1>3, <1>4, <1>5, <1>6, <1>7, StepKinds

LEMMA HistoryStaysShort ==
    ASSUME Inv, [Next]_vars
    PROVE  visible' \in 0 .. Len(exch'.trades)
<1>1. /\ visible \in 0 .. Len(exch.trades)
      /\ Len(exch.trades) \in Nat /\ Len(exch'.trades) \in Nat
      /\ Len(exch.trades) <= Len(exch'.trades)
  BY ExchangeKeeps, TradesAddUp DEF Inv, Typed, TypeOK, Grows, TradeCount
<1>2. visible' \in 0 .. Len(exch.trades)
  BY <1>1, ExchangeStep, StepKinds
     DEF Stop, Idle, Working, Begin, Replay, EndCommit, Take, ReadJournal,
         FetchFills, Backfill, worldVars
<1> QED BY <1>1, <1>2

LEMMA RowStaysTyped ==
    ASSUME Inv, [Next]_vars
    PROVE  row' \in Row
<1>1. row \in Row
  BY DEF Inv, Typed, TypeOK
<1>2. row' = row \/ \E t \in Locker : EndCommit(t)
  BY ExchangeStep, StepKinds
     DEF Stop, Idle, Working, Begin, Replay, Take, ReadJournal, FetchFills, Backfill
<1> QED BY <1>1, <1>2, CommitWrites
-----------------------------------------------------------------------------
(* The journal and the history.                                            *)

LEMMA TradesAreReal ==
    ASSUME NEW order, IsSound(order), NEW j,
           j \subseteq OwnEvents \cup News(order) \cup History(order),
           NEW e \in j, e.kind = "TRADE"
    PROVE  \E k \in 1 .. TradeCount(order) :
              /\ e = TradeNews(order, k) \/ e = HistoryEvent(FillOf(order, k))
              /\ e.trade = k /\ HasFee(e) /\ e.last = order.trades[k].quantity
              /\ e.fee = order.trades[k].quantity /\ e.asset = order.trades[k].asset
<1>1. \A k \in 1 .. TradeCount(order) :
          /\ order.trades[k].quantity \in 1 .. Quantity
          /\ order.trades[k].asset \in FeeAsset
  BY TradesAddUp DEF TradeRecord
<1>2. \/ \E k \in 1 .. TradeCount(order) : e = TradeNews(order, k)
      \/ \E k \in 1 .. TradeCount(order) : e = HistoryEvent(FillOf(order, k))
  BY DEF OwnEvents, News, History, Acceptance, EndNews
<1>3. ASSUME NEW k \in 1 .. TradeCount(order),
             e = TradeNews(order, k) \/ e = HistoryEvent(FillOf(order, k))
      PROVE  /\ e.trade = k /\ e.last = order.trades[k].quantity
             /\ e.fee = order.trades[k].quantity /\ e.asset = order.trades[k].asset
  <2>1. CASE e = TradeNews(order, k)
    BY <2>1 DEF TradeNews
  <2>2. CASE e = HistoryEvent(FillOf(order, k))
    BY <2>2, HistoryIsTyped
  <2> QED BY <1>3, <2>1, <2>2
<1>4. ASSUME NEW k \in 1 .. TradeCount(order),
             e.fee = order.trades[k].quantity, e.asset = order.trades[k].asset
      PROVE  HasFee(e)
  BY <1>1, <1>4, QuantityAssumption DEF HasFee, NoValue, NoQuantity, FeeAsset
<1> QED BY <1>2, <1>3, <1>4

LEMMA KnownTradesGrow ==
    ASSUME NEW j, NEW k, j \subseteq k
    PROVE  KnownTrades(j) \subseteq KnownTrades(k)
BY DEF KnownTrades

(* An event of the history is told apart from all others by its trade.     *)
LEMMA HistoryIsApart ==
    ASSUME NEW order, IsSound(order), NEW k \in 1 .. TradeCount(order)
    PROVE  /\ HistoryEvent(FillOf(order, k)) \notin OwnEvents \cup News(order)
           /\ \A n : n \in 1 .. TradeCount(order)
                     /\ HistoryEvent(FillOf(order, n)) = HistoryEvent(FillOf(order, k))
                     => n = k
<1>1. /\ HistoryEvent(FillOf(order, k)).id.from = "rest-fill"
      /\ HistoryEvent(FillOf(order, k)).trade = k
      /\ \A n \in 1 .. TradeCount(order) : HistoryEvent(FillOf(order, n)).trade = n
  BY HistoryIsTyped
<1>2. \A e \in OwnEvents : e.id.from = "local"
  BY DEF OwnEvents, LocalId
<1> QED BY <1>1, <1>2, NewsIsTyped

(* What a step of the worker's own writes.                                 *)
LEMMA BackfillWrites ==
    ASSUME Inv, Backfill
    PROVE  \E k \in 1 .. TradeCount(exch) :
              LET fill == FillOf(exch, k) IN
              /\ fill \in worker.todo /\ worker.at = "backfill"
              /\ \A other \in worker.todo : k <= other.trade
              /\ journal' \in {journal, journal \cup {HistoryEvent(fill)}}
              /\ k \in KnownTrades(journal')
              /\ worker' = Resting \/ worker' = [worker EXCEPT !.todo = @ \ {fill}]
              /\ UNCHANGED <<exch, row, visible>>
<1>1. PICK fill \in worker.todo :
          /\ IsNextFill(fill)
          /\ journal' = IF Journaled(HistoryEvent(fill)) = {}
                        THEN journal \cup {HistoryEvent(fill)} ELSE journal
          /\ worker' = Resting \/ worker' = [worker EXCEPT !.todo = @ \ {fill}]
          /\ UNCHANGED <<exch, row, visible>>
  BY DEF Backfill, worldVars
<1>2. PICK k \in 1 .. TradeCount(exch) : fill = FillOf(exch, k)
  BY DEF Inv, WorkerIsBehind
<1>3. IsSound(exch) /\ journal \subseteq OwnEvents \cup News(exch) \cup History(exch)
  BY DEF Inv, JournalIsReal
<1> DEFINE event == HistoryEvent(fill)
<1>4. /\ event.kind = "TRADE" /\ event.trade = k /\ event.id.from = "rest-fill"
      /\ event.id.trade = k /\ event \in History(exch)
  BY <1>2, <1>3, HistoryIsTyped DEF History
<1>5. fill.trade = k
  BY <1>2 DEF FillOf
<1>6. k \in KnownTrades(journal')
  <2>1. ASSUME NEW e \in journal', e.kind = "TRADE", e.trade = k
        PROVE  k \in KnownTrades(journal')
    <3>1. journal' \subseteq OwnEvents \cup News(exch) \cup History(exch)
      BY <1>1, <1>3, <1>4
    <3>2. HasFee(e)
      BY <1>3, <2>1, <3>1, TradesAreReal
    <3> QED BY <2>1, <3>2 DEF KnownTrades
  <2>2. CASE Journaled(event) = {}
    <3>1. event \in journal'
      BY <1>1, <2>2
    <3> QED BY <1>4, <2>1, <3>1
  <2>3. CASE Journaled(event) # {}
    <3>1. PICK e \in journal : e.id = event.id
      BY <2>3 DEF Journaled
    <3>2. e \in journal' /\ e.id.from = "rest-fill" /\ e.id.trade = k
      BY <1>1, <1>4, <3>1
    <3>3. e \in History(exch)
      <4>1. \A f \in OwnEvents : f.id.from = "local"
        BY DEF OwnEvents, LocalId
      <4> QED BY <1>3, <3>1, <3>2, <4>1, NewsIsTyped
    <3>4. PICK n \in 1 .. TradeCount(exch) : e = HistoryEvent(FillOf(exch, n))
      BY <3>3 DEF History
    <3>5. e.kind = "TRADE" /\ e.trade = n /\ e.id.trade = n
      BY <1>3, <3>4, HistoryIsTyped
    <3> QED BY <2>1, <3>2, <3>5
  <2> QED BY <2>2, <2>3
<1>7. journal' \in {journal, journal \cup {HistoryEvent(fill)}}
  BY <1>1
<1> HIDE DEF event
<1> QED BY <1>1, <1>2, <1>5, <1>6, <1>7 DEF IsNextFill

(* The journal only grows: by commits and by what the worker found.        *)
LEMMA JournalSteps ==
    ASSUME Inv, [Next]_vars
    PROVE  \/ journal' = journal /\ row' = row
           \/ \E t \in Locker : EndCommit(t)
           \/ Backfill
BY ExchangeStep, StepKinds
   DEF Stop, Idle, Working, Begin, Replay, Take, ReadJournal, FetchFills

LEMMA JournalGrows ==
    ASSUME Inv, [Next]_vars
    PROVE  /\ journal \subseteq journal' /\ KnownTrades(journal) \subseteq KnownTrades(journal')
<1>1. journal \subseteq journal'
  BY JournalSteps, CommitWrites, BackfillWrites
<1> QED BY <1>1, KnownTradesGrow

LEMMA JournalStaysReal ==
    ASSUME Inv, [Next]_vars
    PROVE  /\ JournalIsReal' /\ \A e \in journal' : e \in JournalEvent
<1>1. /\ journal \subseteq OwnEvents \cup News(exch) \cup History(exch)
      /\ News(exch) \subseteq News(exch') /\ History(exch) \subseteq History(exch')
      /\ IsSound(exch')
  BY ExchangeKeeps DEF Inv, JournalIsReal
<1>2. journal' \subseteq OwnEvents \cup News(exch') \cup History(exch')
  <2>1. CASE journal' = journal
    BY <1>1, <2>1
  <2>2. ASSUME NEW t \in Locker, EndCommit(t)
        PROVE  journal' \subseteq OwnEvents \cup News(exch') \cup History(exch')
    BY <1>1, <2>2, CommitWrites
  <2>3. CASE Backfill
    <3>1. PICK k \in 1 .. TradeCount(exch) :
              journal' \in {journal, journal \cup {HistoryEvent(FillOf(exch, k))}}
      BY <2>3, BackfillWrites
    <3> QED BY <1>1, <3>1 DEF History
  <2> QED BY <2>1, <2>2, <2>3, JournalSteps
<1>3. \A e \in History(exch') : e \in JournalEvent
  BY <1>1, HistoryIsTyped DEF History
<1>4. \A e \in News(exch') : e \in JournalEvent
  BY <1>1, NewsIsTyped
<1> QED BY <1>2, <1>3, <1>4 DEF JournalIsReal, OwnEvents

LEMMA RowStaysItsJournal ==
    ASSUME Inv, [Next]_vars
    PROVE  RowIsItsJournal'
<1> DEFINE counted == {e.cum : e \in journal} \ {NoQuantity}
<1>1. /\ \A cum \in counted : cum <= row.cum
      /\ row.cum # 0 => row.cum \in counted
      /\ row.cum \in 0 .. Quantity
      /\ \A cum \in counted : cum \in 0 .. Quantity
  BY DEF Inv, RowIsItsJournal, Typed, TypeOK, Row, JournalEvent
<1>2. CASE journal' = journal /\ row' = row
  BY <1>1, <1>2 DEF RowIsItsJournal
<1>3. ASSUME NEW t \in Locker, EndCommit(t)
      PROVE  RowIsItsJournal'
  <2> DEFINE event == thread[t].event
  <2>1. /\ journal' = journal \cup {event} /\ row' \in Row
        /\ row.cum <= row'.cum /\ event.cum <= row'.cum
        /\ row'.cum \in {row.cum, event.cum}
    BY <1>3, CommitWrites DEF FollowsFrom
  <2>2. event.cum \in {NoQuantity} \cup 0 .. Quantity
    BY <1>3 DEF Inv, Typed, ThreadState, JournalEvent
  <2>3. row'.cum \in 0 .. Quantity /\ row'.cum # NoQuantity
    BY <2>1 DEF Row, NoQuantity
  <2>4. {e.cum : e \in journal'} \ {NoQuantity} =
            counted \cup ({event.cum} \ {NoQuantity})
    BY <2>1
  <2> HIDE DEF event, counted
  <2>5. \A cum \in counted \cup ({event.cum} \ {NoQuantity}) : cum <= row'.cum
    BY <1>1, <2>1, <2>3
  <2>6. row'.cum # 0 => row'.cum \in counted \cup ({event.cum} \ {NoQuantity})
    BY <1>1, <2>1, <2>3
  <2> QED BY <2>4, <2>5, <2>6 DEF RowIsItsJournal
<1>4. CASE Backfill
  <2>1. PICK k \in 1 .. TradeCount(exch) :
            /\ journal' \in {journal, journal \cup {HistoryEvent(FillOf(exch, k))}}
            /\ row' = row
    BY <1>4, BackfillWrites
  <2>2. HistoryEvent(FillOf(exch, k)).cum = NoQuantity
    BY HistoryIsTyped DEF Inv
  <2>3. {e.cum : e \in journal'} \ {NoQuantity} = counted
    BY <2>1, <2>2
  <2> QED BY <1>1, <2>1, <2>3 DEF RowIsItsJournal
<1> QED BY <1>2, <1>3, <1>4, JournalSteps
-----------------------------------------------------------------------------
(* The worker writes the history down in order.                            *)

LEMMA FillsStay ==
    ASSUME Inv, [Next]_vars, NEW k \in 1 .. TradeCount(exch)
    PROVE  k \in 1 .. TradeCount(exch') /\ FillOf(exch', k) = FillOf(exch, k)
<1>1. /\ TradeCount(exch) \in Nat /\ TradeCount(exch') \in Nat
      /\ Grows(exch, exch')
  BY ExchangeKeeps, TradesAddUp
<1> QED BY <1>1 DEF Grows, FillOf

LEMMA HistoryStaysInOrder ==
    ASSUME Inv, [Next]_vars
    PROVE  HistoryIsInOrder'
<1> SUFFICES ASSUME NEW k \in 1 .. TradeCount(exch'),
                    HistoryEvent(FillOf(exch', k)) \in journal'
             PROVE  1 .. (k - 1) \subseteq KnownTrades(journal')
  BY DEF HistoryIsInOrder
<1>1. /\ IsSound(exch) /\ IsSound(exch') /\ News(exch) \subseteq News(exch')
      /\ journal \subseteq OwnEvents \cup News(exch) \cup History(exch)
      /\ KnownTrades(journal) \subseteq KnownTrades(journal')
  BY ExchangeKeeps, JournalGrows DEF Inv, JournalIsReal
<1> DEFINE event == HistoryEvent(FillOf(exch', k))
<1>2. event \notin OwnEvents \cup News(exch') /\ event.trade = k
  BY <1>1, HistoryIsApart, HistoryIsTyped
<1>3. ASSUME NEW n \in 1 .. TradeCount(exch), event = HistoryEvent(FillOf(exch, n))
      PROVE  n = k
  BY <1>1, <1>2, <1>3, HistoryIsTyped
<1>4. CASE event \in journal
  <2>1. event \in History(exch)
    BY <1>1, <1>2, <1>4
  <2>2. PICK n \in 1 .. TradeCount(exch) : event = HistoryEvent(FillOf(exch, n))
    BY <2>1 DEF History
  <2>3. n = k /\ HistoryEvent(FillOf(exch, k)) \in journal /\ k \in 1 .. TradeCount(exch)
    BY <1>3, <1>4, <2>2
  <2> QED BY <1>1, <2>3 DEF Inv, HistoryIsInOrder
<1>5. ASSUME NEW t \in Locker, EndCommit(t), event \notin journal
      PROVE  FALSE
  <2>1. event = thread[t].event /\ thread[t].event \in News(exch) \cup OwnEvents
    <3>1. journal' = journal \cup {thread[t].event}
      BY <1>5, CommitWrites
    <3> QED BY <1>5, <3>1, CommitWrites
  <2> QED BY <1>1, <1>2, <2>1
<1>6. CASE Backfill /\ event \notin journal
  <2>1. PICK n \in 1 .. TradeCount(exch) :
            /\ FillOf(exch, n) \in worker.todo
            /\ \A other \in worker.todo : n <= other.trade
            /\ journal' \in {journal, journal \cup {HistoryEvent(FillOf(exch, n))}}
    BY <1>6, BackfillWrites
  <2>2. event \in journal'
    OBVIOUS
  <2>3. n = k
    BY <1>3, <1>6, <2>1, <2>2
  <2>4. FillOf(exch, n).trade = n
    BY DEF FillOf
  <2>5. ASSUME NEW j \in 1 .. (n - 1) PROVE j \in KnownTrades(journal)
    <3>1. j \in KnownTrades(journal) \/ \E g \in worker.todo : g.trade = j
      BY <2>1, <2>4, <2>5 DEF Inv, WorkerIsBehind
    <3>2. n \in Nat
      OBVIOUS
    <3> QED BY <2>1, <3>1, <3>2
  <2> QED BY <1>1, <2>3, <2>5
<1>7. (\E t \in Locker : EndCommit(t)) \/ Backfill \/ event \in journal
  BY JournalSteps
<1> QED BY <1>4, <1>5, <1>6, <1>7

LEMMA WorkerSteps ==
    ASSUME Inv, [Next]_vars
    PROVE  worker' = worker \/ worker' = Resting \/ Working
BY ExchangeStep, StepKinds
   DEF Stop, StopProcess, Idle, Begin, Replay, EndCommit, Take

(* What the worker has read, and what it still has to write down.          *)
LEMMA KnownTradesAreTyped ==
    ASSUME Inv
    PROVE  KnownTrades(journal) \subseteq 1 .. Quantity
<1>1. IsSound(exch) /\ journal \subseteq OwnEvents \cup News(exch) \cup History(exch)
  BY DEF Inv, JournalIsReal
<1>2. TradeCount(exch) \in 0 .. Quantity
  BY <1>1, TradesAddUp
<1>3. ASSUME NEW e \in journal, e.kind = "TRADE" PROVE e.trade \in 1 .. Quantity
  BY <1>1, <1>2, <1>3, TradesAreReal, QuantityAssumption
<1> QED BY <1>3 DEF KnownTrades

LEMMA RestingIsBehind ==
    Resting \in WorkerState /\ Resting.todo = {} /\ Resting.at = "rest"
BY DEF Resting, WorkerState

LEMMA FetchedIsBehind ==
    ASSUME Inv, FetchFills, worker' # Resting
    PROVE  /\ worker' \in WorkerState /\ worker'.at = "backfill"
           /\ UNCHANGED <<exch, journal>>
           /\ \A f \in worker'.todo :
                 /\ \E k \in 1 .. TradeCount(exch) : f = FillOf(exch, k)
                 /\ \A j \in 1 .. (f.trade - 1) :
                       \/ j \in KnownTrades(journal)
                       \/ \E g \in worker'.todo : g.trade = j
<1> DEFINE fills == {f \in OrderFills(exch, visible) : f.trade \notin worker.known}
<1>1. /\ worker.at = "fetch" /\ worker' = [worker EXCEPT !.at = "backfill", !.todo = fills]
      /\ UNCHANGED <<exch, journal>>
  BY DEF FetchFills, worldVars
<1>2. /\ worker \in WorkerState /\ visible \in 0 .. TradeCount(exch)
      /\ worker.known \subseteq KnownTrades(journal) /\ IsSound(exch)
      /\ TradeCount(exch) \in Nat
  BY <1>1, TradesAddUp DEF Inv, Typed, TypeOK, WorkerIsBehind, TradeCount
<1>3. OrderFills(exch, visible) = {FillOf(exch, k) : k \in 1 .. visible}
  BY DEF OrderFills, FillOf
<1>4. \A k \in 1 .. TradeCount(exch) : FillOf(exch, k).trade = k /\ FillOf(exch, k) \in FillRecord
  BY <1>2, TradesAddUp DEF FillOf, FillRecord, TradeRecord
<1>5. \A k \in 1 .. visible : k \in 1 .. TradeCount(exch)
  BY <1>2
<1>6. fills \subseteq FillRecord
  BY <1>3, <1>4, <1>5
<1>7. ASSUME NEW f \in fills
      PROVE  /\ \E k \in 1 .. TradeCount(exch) : f = FillOf(exch, k)
             /\ \A j \in 1 .. (f.trade - 1) :
                   j \in KnownTrades(journal) \/ \E g \in fills : g.trade = j
  <2>1. PICK k \in 1 .. visible : f = FillOf(exch, k)
    BY <1>3
  <2>2. k \in 1 .. TradeCount(exch) /\ f.trade = k
    BY <1>4, <1>5, <2>1
  <2>3. ASSUME NEW j \in 1 .. (f.trade - 1), j \notin KnownTrades(journal)
        PROVE  \E g \in fills : g.trade = j
    <3>1. j \in 1 .. visible
      BY <1>2, <2>2
    <3>2. FillOf(exch, j) \in OrderFills(exch, visible) /\ FillOf(exch, j).trade = j
      BY <1>3, <1>4, <1>5, <3>1
    <3>3. j \notin worker.known
      BY <1>2, <2>3
    <3> QED BY <3>2, <3>3
  <2> QED BY <2>1, <2>2, <2>3
<1> HIDE DEF fills
<1>8. worker' \in WorkerState /\ worker'.at = "backfill" /\ worker'.todo = fills
  BY <1>1, <1>2, <1>6 DEF WorkerState
<1> QED BY <1>1, <1>7, <1>8

LEMMA WorkerStaysBehind ==
    ASSUME Inv, [Next]_vars
    PROVE  worker' \in WorkerState /\ WorkerIsBehind'
<1>1. /\ worker \in WorkerState /\ WorkerIsBehind
      /\ KnownTrades(journal) \subseteq KnownTrades(journal')
  BY JournalGrows DEF Inv, Typed
<1>2. CASE worker' = Resting
  BY <1>2, RestingIsBehind DEF WorkerIsBehind
<1>3. CASE worker' = worker
  <2>1. worker.at = "fetch" => worker.known \subseteq KnownTrades(journal')
    BY <1>1 DEF WorkerIsBehind
  <2>2. ASSUME NEW f \in worker.todo
        PROVE  /\ \E k \in 1 .. TradeCount(exch') : f = FillOf(exch', k)
               /\ \A j \in 1 .. (f.trade - 1) :
                     \/ j \in KnownTrades(journal')
                     \/ \E g \in worker.todo : g.trade = j
    <3>1. \E k \in 1 .. TradeCount(exch') : f = FillOf(exch', k)
      BY <1>1, FillsStay DEF WorkerIsBehind
    <3> QED BY <1>1, <3>1 DEF WorkerIsBehind
  <2> QED BY <1>1, <1>3, <2>1, <2>2 DEF WorkerIsBehind
<1>4. CASE ReadJournal
  <2>1. /\ worker' = [Resting EXCEPT !.at = "fetch", !.known = KnownTrades(journal)]
        /\ journal' = journal
    BY <1>4 DEF ReadJournal
  <2>2. /\ worker' \in WorkerState /\ worker'.todo = {}
        /\ worker'.known = KnownTrades(journal')
    BY <2>1, KnownTradesAreTyped, RestingIsBehind DEF WorkerState
  <2> QED BY <2>2 DEF WorkerIsBehind
<1>5. CASE FetchFills /\ worker' # Resting
  <2>1. /\ worker' \in WorkerState /\ worker'.at = "backfill"
        /\ UNCHANGED <<exch, journal>>
        /\ \A f \in worker'.todo :
              /\ \E k \in 1 .. TradeCount(exch) : f = FillOf(exch, k)
              /\ \A j \in 1 .. (f.trade - 1) :
                    \/ j \in KnownTrades(journal)
                    \/ \E g \in worker'.todo : g.trade = j
    BY <1>5, FetchedIsBehind
  <2> QED BY <2>1 DEF WorkerIsBehind
<1>6. CASE Backfill /\ worker' # Resting
  <2>1. PICK k \in 1 .. TradeCount(exch) :
            LET fill == FillOf(exch, k) IN
            /\ fill \in worker.todo /\ worker.at = "backfill"
            /\ k \in KnownTrades(journal')
            /\ worker' = [worker EXCEPT !.todo = @ \ {fill}]
            /\ exch' = exch
    BY <1>6, BackfillWrites
  <2> DEFINE fill == FillOf(exch, k)
  <2>2. fill.trade = k
    BY DEF FillOf
  <2> HIDE DEF fill
  <2>3. /\ worker' \in WorkerState /\ worker'.at = "backfill"
        /\ worker'.todo = worker.todo \ {fill}
    BY <1>1, <2>1 DEF WorkerState, fill
  <2>4. ASSUME NEW f \in worker.todo \ {fill}
        PROVE  /\ \E n \in 1 .. TradeCount(exch) : f = FillOf(exch, n)
               /\ \A j \in 1 .. (f.trade - 1) :
                     \/ j \in KnownTrades(journal')
                     \/ \E g \in worker.todo \ {fill} : g.trade = j
    <3>1. f \in worker.todo
      OBVIOUS
    <3>2. ASSUME NEW j \in 1 .. (f.trade - 1), j \notin KnownTrades(journal')
          PROVE  \E g \in worker.todo \ {fill} : g.trade = j
      <4>1. PICK g \in worker.todo : g.trade = j
        BY <1>1, <3>1, <3>2 DEF WorkerIsBehind
      <4>2. g # fill
        BY <2>1, <2>2, <3>2, <4>1
      <4> QED BY <4>1, <4>2
    <3>3. \E n \in 1 .. TradeCount(exch) : f = FillOf(exch, n)
      BY <1>1, <3>1 DEF WorkerIsBehind
    <3> QED BY <3>2, <3>3
  <2> QED BY <2>1, <2>3, <2>4 DEF WorkerIsBehind
<1> QED BY <1>2, <1>3, <1>4, <1>5, <1>6, WorkerSteps DEF Working

-----------------------------------------------------------------------------
(* The invariant holds.                                                    *)

LEMMA InitIsSound ==
    ASSUME Init
    PROVE  Inv
<1>1. /\ exch = NoOrder /\ row = NoRow /\ journal = {} /\ wire = <<>>
      /\ thread = [t \in Locker |-> Free] /\ writer = "nobody" /\ worker = Resting
      /\ visible = 0 /\ request = FALSE
  BY DEF Init
<1>2. /\ IsSound(exch) /\ TradeCount(exch) = 0 /\ exch.status = "ABSENT"
      /\ Len(exch.trades) = 0
  BY <1>1, NoOrderIsSound DEF NoOrder, TradeCount
<1>3. \A t \in Locker : thread[t] = Free
  BY <1>1
<1>4. Typed
  <2>1. TypeOK
    <3>1. /\ market \in Market /\ up = TRUE
          /\ {request, up, online, recheck} \subseteq BOOLEAN
      BY DEF Init
    <3>2. \A t \in Locker : writer = t <=> thread[t].at = "writing"
      BY <1>1, <1>3, FreeIsTyped DEF Locker
    <3> QED BY <1>1, <1>2, <3>1, <3>2, FreeIsTyped DEF TypeOK
  <2>2. thread \in [Locker -> ThreadState]
    BY <1>1, FreeIsTyped
  <2>3. wire \in Seq(FrameRecord)
    BY <1>1, EmptySeq
  <2> QED BY <1>1, <2>1, <2>2, <2>3, RestingIsBehind DEF Typed
<1>5. LockIsExclusive /\ RequestComesFirst /\ RowIsBacked
  BY <1>1, <1>3, FreeIsTyped DEF LockIsExclusive, RequestComesFirst, RowIsBacked, Locker
<1>6. StreamIsNews
  BY <1>1 DEF StreamIsNews
<1>7. CommitsAreSound
  BY <1>3, FreeIsTyped DEF CommitsAreSound, IsCommitting, Locker
<1>8. RowIsItsJournal
  BY <1>1, LocalRows DEF RowIsItsJournal
<1>9. JournalIsReal /\ HistoryIsInOrder /\ WorkerIsBehind
  BY <1>1, <1>2, RestingIsBehind DEF JournalIsReal, HistoryIsInOrder, WorkerIsBehind
<1> QED BY <1>2, <1>4, <1>5, <1>6, <1>7, <1>8, <1>9 DEF Inv

LEMMA TypesStay ==
    ASSUME Inv, [Next]_vars
    PROVE  Typed'
<1>1. exch'.status \in NativeStatus
  BY ExchangeKeeps DEF IsSound
<1>2. TypeOK'
  BY <1>1, DeadStaysQuiet, HistoryStaysShort, RowStaysTyped, JournalStaysReal,
     ThreadsStayTyped DEF TypeOK, NativeStatus, Final
<1> QED BY <1>2, ThreadsStayTyped, WorkerStaysBehind, StreamStaysNews DEF Typed

LEMMA StepIsSound ==
    ASSUME Inv, [Next]_vars
    PROVE  Inv'
BY TypesStay, ExchangeKeeps, LockStaysExclusive, RequestStaysFirst, CommitsStaySound,
   StreamStaysNews, JournalStaysReal, RowStaysItsJournal, HistoryStaysInOrder,
   WorkerStaysBehind DEF Inv

(* Every reachable state is one in which everything heard, written or      *)
(* about to be written is true of the exchange's order.                    *)
THEOREM JournalInvariant == Spec => []Inv
BY InitIsSound, StepIsSound, PTL DEF Spec
-----------------------------------------------------------------------------
(* What follows for the row and its price.                                 *)

(* Row, journal, wire, threads and worker keep their types; a transaction  *)
(* belongs to a thread that is writing, and no thread outlives the process *)
(* (SqliteAtomicOrderPersistence.commit).                                  *)
THEOREM TypeCorrect == Spec => []TypeOK
<1>1. Inv => TypeOK
  BY DEF Inv, Typed
<1> QED BY <1>1, JournalInvariant, PTL

(* No journaled fill is missing from the row, and the row counts no fill   *)
(* that was not journaled (SqliteAtomicOrderPersistence).                  *)
THEOREM RowIsAlwaysItsJournal == Spec => []RowIsItsJournal
<1>1. Inv => RowIsItsJournal
  BY DEF Inv
<1> QED BY <1>1, JournalInvariant, PTL

LEMMA PriceOfTheFirst ==
    ASSUME NEW order, IsSound(order), NEW n \in 1 .. TradeCount(order)
    PROVE  AverageOf(SubSeq(order.trades, 1, n)) = PriceUpTo(order, n)
<1>1. /\ n \in Nat \ {0} /\ \A i \in 1 .. n : order.trades[i] \in TradeRecord
  BY TradesAddUp
<1> DEFINE first == SubSeq(order.trades, 1, n)
<1>2. /\ first \in Seq(TradeRecord) /\ Len(first) = n
      /\ \A i \in 1 .. n : first[i] = order.trades[i]
  BY <1>1, SubSeqProperties
<1> HIDE DEF first
<1>3. first # <<>> /\ first[n] = order.trades[n]
  BY <1>1, <1>2, EmptySeq
<1> QED BY <1>1, <1>2, <1>3 DEF AverageOf, Paid, Executed, PriceUpTo, first

(* The price of a row is what the fills it counts have cost, whichever     *)
(* payload it was read from (_average_price, parse_order_event).           *)
THEOREM PriceIsAlwaysOfItsFills == Spec => []PriceIsOfItsFills
<1>1. ASSUME Inv, row.average # NoPrice
      PROVE  \E n \in DOMAIN exch.trades :
                 /\ row.average = AverageOf(SubSeq(exch.trades, 1, n))
                 /\ row.average.for = row.cum
  <2>1. IsSound(exch) /\ IsBacked(row, exch)
    BY <1>1, LocalRows DEF Inv, RowIsBacked
  <2>2. PICK n \in 0 .. TradeCount(exch) :
            row.cum = UpTo(exch, n) /\ row.average = PriceUpTo(exch, n)
    BY <1>1, <2>1 DEF IsBacked
  <2>3. n # 0
    BY <1>1, <2>2 DEF PriceUpTo
  <2>4. TradeCount(exch) \in Nat
    BY <2>1, TradesAddUp
  <2>5. n \in 1 .. TradeCount(exch)
    BY <2>3, <2>4
  <2>6. row.average = AverageOf(SubSeq(exch.trades, 1, n))
    BY <2>1, <2>2, <2>5, PriceOfTheFirst
  <2>7. row.average.for = row.cum
    BY <2>2, <2>3 DEF PriceUpTo, UpTo
  <2>8. n \in DOMAIN exch.trades
    BY <2>1, <2>5, LenProperties DEF IsSound, TradeCount
  <2> QED BY <2>6, <2>7, <2>8
<1>2. Inv => PriceIsOfItsFills
  BY <1>1 DEF PriceIsOfItsFills
<1> QED BY <1>2, JournalInvariant, PTL

-----------------------------------------------------------------------------
(* The fees: what the worker adds up, and what the exchange took.          *)

(* The quantities of the trades of ks, told apart by number.               *)
Amounts(order, ks) == {<<k, order.trades[k].quantity>> : k \in ks}

LEMMA AmountsAreFinite ==
    ASSUME NEW order, IsSound(order), NEW ks \in SUBSET (1 .. TradeCount(order))
    PROVE  IsPairSet(Amounts(order, ks))
<1>1. \A k \in ks : k \in 1 .. Quantity /\ order.trades[k].quantity \in 1 .. Quantity
  BY TradesAddUp DEF TradeRecord
<1>2. IsFiniteSet(1 .. Quantity)
  BY FS_Interval, QuantityAssumption
<1>3. IsFiniteSet((1 .. Quantity) \X (1 .. Quantity))
  BY <1>2, FS_Product
<1>4. Amounts(order, ks) \in SUBSET ((1 .. Quantity) \X (1 .. Quantity))
  BY <1>1 DEF Amounts
<1>5. IsFiniteSet(Amounts(order, ks))
  BY <1>3, <1>4, FS_Subset
<1>6. \A x \in Amounts(order, ks) : x[2] \in Nat
  BY <1>1 DEF Amounts
<1> QED BY <1>5, <1>6 DEF IsPairSet

(* The first m trades amount to what the order has filled by then.         *)
LEMMA AmountsAddUp ==
    ASSUME NEW order, IsSound(order), NEW m \in 0 .. TradeCount(order)
    PROVE  TotalOf(Amounts(order, 1 .. m)) = UpTo(order, m)
<1> DEFINE AddsUp(n) == TotalOf(Amounts(order, 1 .. n)) = UpTo(order, n)
           bad == {n \in 0 .. TradeCount(order) : ~AddsUp(n)}
<1>0. TradeCount(order) \in Nat
  BY TradesAddUp
<1>1. SUFFICES ASSUME bad # {} PROVE FALSE
  OBVIOUS
<1>2. PICK n \in bad : \A i \in bad : n <= i
  <2>1. bad \in SUBSET Nat
    BY <1>0
  <2> HIDE DEF bad
  <2> QED BY <1>1, <2>1, LeastNumber
<1>3. n \in 0 .. TradeCount(order) /\ ~AddsUp(n)
  BY <1>2
<1>4. CASE n = 0
  <2>1. Amounts(order, 1 .. 0) = {}
    BY DEF Amounts
  <2> QED BY <1>3, <1>4, <2>1, TotalOfNothing DEF UpTo
<1>5. CASE n # 0
  <2> DEFINE x == <<n, order.trades[n].quantity>>
  <2>1. n \in 1 .. TradeCount(order) /\ n - 1 \in 0 .. TradeCount(order)
    BY <1>0, <1>3, <1>5
  <2>2. AddsUp(n - 1)
    <3>1. n - 1 \notin bad
      BY <1>2, <2>1
    <3> QED BY <2>1, <3>1
  <2>3. Amounts(order, 1 .. n) \ {x} = Amounts(order, 1 .. n - 1)
    <3>1. \A k \in 1 .. n : k # n <=> k \in 1 .. n - 1
      BY <2>1
    <3>2. 1 .. n - 1 \subseteq 1 .. n /\ n \in 1 .. n
      BY <2>1
    <3>3. \A k \in 1 .. n - 1 : k # n
      BY <2>1
    <3> QED BY <3>1, <3>2, <3>3 DEF Amounts
  <2>4. x \in Amounts(order, 1 .. n) /\ IsPairSet(Amounts(order, 1 .. n))
    <3>1. n \in 1 .. n
      BY <2>1
    <3>2. \A k \in 1 .. n : k \in 1 .. TradeCount(order)
      BY <1>0, <2>1
    <3> QED BY <3>1, <3>2, AmountsAreFinite DEF Amounts
  <2>5. TotalOf(Amounts(order, 1 .. n)) = x[2] + TotalOf(Amounts(order, 1 .. n - 1))
    BY <2>3, <2>4, TotalWithout
  <2>6. UpTo(order, n) = UpTo(order, n - 1) + order.trades[n].quantity
    BY <2>1 DEF IsSound
  <2>7. order.trades[n] \in TradeRecord /\ UpTo(order, n - 1) \in 0 .. Quantity
    BY <2>1, TradesAddUp
  <2>8. order.trades[n].quantity \in Int
    BY <2>7 DEF TradeRecord
  <2> QED BY <1>3, <2>2, <2>5, <2>6, <2>7, <2>8
<1> QED BY <1>4, <1>5

(* The trades whose fee is in the base asset, up to a quantity.            *)
BaseTrades(order, cum) ==
    {k \in 1 .. TradeCount(order) : /\ order.trades[k].asset = "BASE"
                                    /\ order.trades[k].upTo <= cum}

KnownBaseTrades(j) ==
    {e.trade : e \in {f \in j : f.kind = "TRADE" /\ f.asset = "BASE"}}

LEMMA FeesAreAmounts ==
    ASSUME Inv
    PROVE  /\ \A cum : BaseFees(cum) = TotalOf(Amounts(exch, BaseTrades(exch, cum)))
           /\ BaseCommission(journal) = TotalOf(Amounts(exch, KnownBaseTrades(journal)))
           /\ KnownBaseTrades(journal) \subseteq BaseTrades(exch, Quantity)
           /\ \A k \in KnownTrades(journal) :
                 exch.trades[k].asset = "BASE" => k \in KnownBaseTrades(journal)
<1>1. IsSound(exch) /\ journal \subseteq OwnEvents \cup News(exch) \cup History(exch)
  BY DEF Inv, JournalIsReal
<1>2. DOMAIN exch.trades = 1 .. TradeCount(exch)
  BY <1>1, LenProperties DEF IsSound, TradeCount
<1>3. ASSUME NEW cum
      PROVE  BaseFees(cum) = TotalOf(Amounts(exch, BaseTrades(exch, cum)))
  BY <1>2 DEF BaseFees, Amounts, BaseTrades
<1>4. ASSUME NEW e \in journal, e.kind = "TRADE"
      PROVE  /\ e.trade \in 1 .. TradeCount(exch)
             /\ e.fee = exch.trades[e.trade].quantity
             /\ e.asset = exch.trades[e.trade].asset
  BY <1>1, <1>4, TradesAreReal
<1>5. {<<e.trade, e.fee>> : e \in {f \in journal : f.kind = "TRADE" /\ f.asset = "BASE"}}
          = Amounts(exch, KnownBaseTrades(journal))
  BY <1>4 DEF Amounts, KnownBaseTrades
<1>6. KnownBaseTrades(journal) \subseteq BaseTrades(exch, Quantity)
  <2>1. \A k \in 1 .. TradeCount(exch) : exch.trades[k].upTo <= Quantity
    BY <1>1, TradesAddUp, QuantityAssumption DEF TradeRecord
  <2> QED BY <1>4, <2>1 DEF KnownBaseTrades, BaseTrades
<1>7. ASSUME NEW k \in KnownTrades(journal), exch.trades[k].asset = "BASE"
      PROVE  k \in KnownBaseTrades(journal)
  <2>1. PICK e \in journal : e.kind = "TRADE" /\ e.trade = k
    BY DEF KnownTrades
  <2> QED BY <1>4, <1>7, <2>1 DEF KnownBaseTrades
<1> QED BY <1>3, <1>5, <1>6, <1>7 DEF BaseCommission

LEMMA AmountsGrow ==
    ASSUME NEW order, IsSound(order), NEW ks \in SUBSET (1 .. TradeCount(order)),
           NEW js \in SUBSET ks
    PROVE  TotalOf(Amounts(order, js)) <= TotalOf(Amounts(order, ks))
<1>1. Amounts(order, js) \in SUBSET Amounts(order, ks)
  BY DEF Amounts
<1> QED BY <1>1, AmountsAreFinite, TotalIsMonotone

(* A fee learned from the stream, from the history, or from both is        *)
(* counted once (FundingWorker._spot_hedge_progress).                      *)
THEOREM FeesAreAlwaysCountedOnce == Spec => []FeesAreCountedOnce
<1>1. ASSUME Inv PROVE FeesAreCountedOnce
  <2>1. BaseTrades(exch, Quantity) \in SUBSET (1 .. TradeCount(exch)) /\ IsSound(exch)
    BY <1>1 DEF BaseTrades, Inv
  <2> QED BY <1>1, <2>1, FeesAreAmounts, AmountsGrow DEF FeesAreCountedOnce
<1> QED BY <1>1, JournalInvariant, PTL

(* A complete history has every trade that the row counts.                 *)
LEMMA CompleteHasEveryTrade ==
    ASSUME Inv, FillHistoryIsComplete(journal, row.cum), row.cum > 0,
           NEW m \in 0 .. TradeCount(exch), row.cum = UpTo(exch, m)
    PROVE  1 .. m \subseteq KnownTrades(journal)
<1> DEFINE trades == {<<e.trade, e.last>> : e \in Executions(journal)}
<1>1. /\ IsSound(exch) /\ journal \subseteq OwnEvents \cup News(exch) \cup History(exch)
      /\ TradeCount(exch) \in Nat
  BY TradesAddUp DEF Inv, JournalIsReal
<1>2. /\ \A t \in trades : t[1] \in KnownTrades(journal)
      /\ TotalOf(trades) >= row.cum
  <2>1. row.cum \in Int
    BY DEF Inv, Typed, TypeOK, Row
  <2> QED BY <2>1 DEF FillHistoryIsComplete
<1>3. ASSUME NEW e \in Executions(journal)
      PROVE  /\ e \in journal /\ e.kind = "TRADE" /\ e.trade \in 1 .. TradeCount(exch)
             /\ e.last = exch.trades[e.trade].quantity
             /\ \/ e = TradeNews(exch, e.trade)
                \/ e = HistoryEvent(FillOf(exch, e.trade))
  BY <1>1, TradesAreReal DEF Executions
<1>4. CASE \E e \in Executions(journal) : e.trade > m
  <2>1. PICK e \in Executions(journal) : e.trade > m
    BY <1>4
  <2>2. e # TradeNews(exch, e.trade)
    <3> SUFFICES ASSUME e = TradeNews(exch, e.trade) PROVE FALSE
      OBVIOUS
    <3>1. e.cum = UpTo(exch, e.trade)
      BY DEF TradeNews
    <3>2. UpTo(exch, m) < UpTo(exch, e.trade)
      BY <1>1, <1>3, <2>1 DEF IsSound
    <3>3. UpTo(exch, e.trade) \in 0 .. Quantity /\ UpTo(exch, m) \in 0 .. Quantity
      BY <1>1, <1>3, TradesAddUp
    <3>4. e.cum <= row.cum
      BY <1>3, <3>1, <3>3 DEF Inv, RowIsItsJournal, NoQuantity
    <3> QED BY <3>1, <3>2, <3>3, <3>4
  <2>3. 1 .. (e.trade - 1) \subseteq KnownTrades(journal)
    BY <1>3, <2>2 DEF Inv, HistoryIsInOrder
  <2>4. 1 .. m \subseteq 1 .. (e.trade - 1)
    BY <1>1, <1>3, <2>1
  <2> QED BY <2>3, <2>4
<1>5. CASE \A e \in Executions(journal) : e.trade <= m
  <2>1. trades \in SUBSET Amounts(exch, 1 .. m)
    <3>1. \A e \in Executions(journal) : e.trade \in 1 .. m
      BY <1>1, <1>3, <1>5
    <3> QED BY <1>3, <3>1 DEF Amounts
  <2>2. 1 .. m \in SUBSET (1 .. TradeCount(exch))
    BY <1>1
  <2>3. IsPairSet(Amounts(exch, 1 .. m))
    BY <1>1, <2>2, AmountsAreFinite
  <2>4. TotalOf(Amounts(exch, 1 .. m)) = row.cum
    BY <1>1, AmountsAddUp
  <2>5. IsPairSet(trades)
    BY <2>1, <2>3, SubsetsArePairSets
  <2> HIDE DEF trades
  <2>6. TotalOf(Amounts(exch, 1 .. m)) <= TotalOf(trades)
    BY <1>2, <2>3, <2>4, <2>5, TotalIsNatural
  <2>7. ASSUME NEW k \in 1 .. m PROVE k \in KnownTrades(journal)
    <3> DEFINE x == <<k, exch.trades[k].quantity>>
    <3>1. exch.trades[k] \in TradeRecord
      BY <1>1, <2>2, TradesAddUp
    <3>2. x \in Amounts(exch, 1 .. m) /\ x[2] > 0 /\ x[1] = k
      BY <3>1 DEF Amounts, TradeRecord
    <3> HIDE DEF x
    <3>3. x \in trades
      BY <2>1, <2>3, <2>6, <3>2, NothingIsMissing
    <3> QED BY <1>2, <3>2, <3>3
  <2> QED BY <2>7
<1>6. \A e \in Executions(journal) : e.trade > m \/ e.trade <= m
  BY <1>1, <1>3
<1> QED BY <1>4, <1>5, <1>6

(* A history that is taken for complete accounts for every fee of what the *)
(* row counts (FundingWorker._fill_history_is_complete): the stream's      *)
(* trades are in the row's count, and the history's come in order.         *)
THEOREM CompleteAlwaysMeansEveryFee == Spec => []CompleteMeansEveryFee
<1>1. ASSUME Inv, FillHistoryIsComplete(journal, row.cum)
      PROVE  BaseCommission(journal) >= BaseFees(row.cum)
  <2>1. /\ IsSound(exch) /\ row.cum \in 0 .. Quantity
        /\ TradeCount(exch) \in Nat
        /\ \A k \in 1 .. TradeCount(exch) :
              UpTo(exch, k) = exch.trades[k].upTo /\ UpTo(exch, k) \in 0 .. Quantity
    BY <1>1, TradesAddUp DEF Inv, Typed, TypeOK, Row
  <2>2. BaseTrades(exch, row.cum) \subseteq KnownBaseTrades(journal)
    <3>1. CASE row.cum = 0
      <4>1. BaseTrades(exch, row.cum) = {}
        BY <2>1, <3>1 DEF BaseTrades, IsSound
      <4> QED BY <4>1
    <3>2. CASE row.cum # 0
      <4>1. IsBacked(row, exch)
        BY <1>1, <3>2, LocalRows DEF Inv, RowIsBacked
      <4>2. PICK m \in 0 .. TradeCount(exch) : row.cum = UpTo(exch, m)
        BY <4>1 DEF IsBacked
      <4>3. 1 .. m \subseteq KnownTrades(journal)
        BY <1>1, <2>1, <3>2, <4>2, CompleteHasEveryTrade
      <4>4. ASSUME NEW k \in BaseTrades(exch, row.cum)
            PROVE  k \in 1 .. m
        <5>1. k \in 1 .. TradeCount(exch) /\ UpTo(exch, k) <= UpTo(exch, m)
          BY <2>1, <4>2 DEF BaseTrades
        <5>2. k > m => UpTo(exch, m) < UpTo(exch, k)
          BY <2>1, <5>1 DEF IsSound
        <5>3. UpTo(exch, m) \in 0 .. Quantity
          BY <2>1, <4>2
        <5> QED BY <2>1, <5>1, <5>2, <5>3
      <4> QED BY <1>1, <4>3, <4>4, FeesAreAmounts DEF BaseTrades
    <3> QED BY <3>1, <3>2
  <2>3. KnownBaseTrades(journal) \in SUBSET (1 .. TradeCount(exch))
    BY <1>1, FeesAreAmounts DEF BaseTrades
  <2>4. TotalOf(Amounts(exch, BaseTrades(exch, row.cum)))
            <= TotalOf(Amounts(exch, KnownBaseTrades(journal)))
    BY <2>1, <2>2, <2>3, AmountsGrow
  <2>5. /\ TotalOf(Amounts(exch, BaseTrades(exch, row.cum))) \in Nat
        /\ TotalOf(Amounts(exch, KnownBaseTrades(journal))) \in Nat
    <3>1. BaseTrades(exch, row.cum) \in SUBSET (1 .. TradeCount(exch))
      BY DEF BaseTrades
    <3> QED BY <2>1, <2>3, <3>1, AmountsAreFinite, TotalIsNatural
  <2>6. /\ BaseFees(row.cum) = TotalOf(Amounts(exch, BaseTrades(exch, row.cum)))
        /\ BaseCommission(journal) = TotalOf(Amounts(exch, KnownBaseTrades(journal)))
    BY <1>1, FeesAreAmounts
  <2> QED BY <2>4, <2>5, <2>6
<1>2. Inv => CompleteMeansEveryFee
  BY <1>1 DEF CompleteMeansEveryFee
<1> QED BY <1>2, JournalInvariant, PTL
-----------------------------------------------------------------------------
(* The row implements the ledger.                                          *)

LEMMA InitRefinesLedger == Init => Ledger!Init
<1> SUFFICES ASSUME Init PROVE Ledger!Init
  OBVIOUS
<1>1. exch.status = "ABSENT" /\ Executed(exch.trades) = 0
  BY DEF Init, NoOrder, Executed
<1>2. row.state = "ABSENT" /\ row.cum = 0
  BY LocalRows DEF Init
<1> QED BY <1>1, <1>2 DEF Ledger!Init, Ledger!Missing

(* The exchange accepts, fills and ends only what is on disk.              *)
LEMMA ExchangeStepRefines ==
    ASSUME Inv, [Next]_vars, ExchangeSteps
    PROVE  Ledger!ExchangeMoves("order")
<1>1. /\ IsSound(exch) /\ IsSound(exch') /\ Grows(exch, exch')
      /\ row' = row /\ row # NoRow /\ IsBacked(row, exch)
  BY ExchangeKeeps, ExchangeStep DEF Inv, RowIsBacked
<1>2. /\ Executed(exch.trades) = UpTo(exch, TradeCount(exch))
      /\ Executed(exch'.trades) = UpTo(exch', TradeCount(exch'))
      /\ UpTo(exch', TradeCount(exch')) \in 0 .. Quantity
      /\ TradeCount(exch) \in Nat /\ TradeCount(exch') \in Nat
  BY <1>1, TradesAddUp
<1>3. Executed(exch.trades) <= Executed(exch'.trades)
  <2>1. /\ TradeCount(exch) \in 0 .. TradeCount(exch')
        /\ UpTo(exch', TradeCount(exch)) = UpTo(exch, TradeCount(exch))
    BY <1>1, <1>2, GrowthKeepsFills
  <2> QED BY <1>1, <1>2, <2>1, FillsNameTheirTrades
<1>4. exch.status \in {"ABSENT", "NEW", "PARTIALLY_FILLED"} /\ exch'.status # "ABSENT"
  <2>1. CASE Accept
    BY <2>1 DEF Accept, Inv, RequestComesFirst, NoOrder
  <2>2. CASE Trade \/ End
    BY <1>1, <2>2 DEF Trade, End, Grows
  <2> QED BY <2>1, <2>2 DEF ExchangeSteps
<1>5. row.state \notin {"ABSENT", "REJECTED"}
  BY <1>1 DEF IsBacked
<1> DEFINE s == [state |-> exch'.status, cum |-> Executed(exch'.trades)]
<1>6. s \in Ledger!Truth
  BY <1>1, <1>2, <1>4 DEF Ledger!Truth, Ledger!Working, IsSound, NativeStatus, Final
<1> QED BY <1>1, <1>3, <1>4, <1>5, <1>6 DEF Ledger!ExchangeMoves, Ledger!Working

(* A commit records real fills, and the end only as it is.                 *)
LEMMA CommitRefines ==
    ASSUME Inv, NEW t \in Locker, EndCommit(t)
    PROVE  Ledger!Record("order") \/ UNCHANGED Ledger!vars
<1>1. /\ exch' = exch /\ IsBacked(row', exch) /\ row' \in Row
      /\ FollowsFrom(row', row, thread[t].event)
      /\ IsSound(exch) /\ row \in Row
  BY CommitWrites DEF Inv, Typed, TypeOK
<1>2. CASE IsTerminal(row)
  BY <1>1, <1>2 DEF FollowsFrom, Ledger!vars
<1>3. CASE ~IsTerminal(row)
  <2> DEFINE v == [state |-> row'.state, cum |-> row'.cum]
  <2>1. PICK n \in 0 .. TradeCount(exch) :
            /\ row'.cum = UpTo(exch, n)
            /\ row'.state \in Final => row'.state = exch.status /\ n = TradeCount(exch)
    BY <1>1 DEF IsBacked
  <2>2. Executed(exch.trades) = UpTo(exch, TradeCount(exch))
        /\ UpTo(exch, TradeCount(exch)) \in 0 .. Quantity
        /\ UpTo(exch, n) \in 0 .. Quantity
    BY <1>1, TradesAddUp
  <2>3. row'.cum <= Executed(exch.trades)
    BY <1>1, <2>1, <2>2, FillsNameTheirTrades
  <2>4. row.cum <= row'.cum /\ row.cum \in 0 .. Quantity /\ row'.cum \in 0 .. Quantity
    BY <1>1 DEF FollowsFrom, Row
  <2>5. v.cum \in row.cum .. Executed(exch.trades)
    BY <2>2, <2>3, <2>4
  <2>6. v \in Ledger!Order(Quantity)
    BY <1>1, <2>4 DEF Ledger!Order, Ledger!OrderState, OrderState, IsBacked, Row
  <2>7. v.state \in {"FILLED", "CANCELED", "EXPIRED"} =>
            v = [state |-> exch.status, cum |-> Executed(exch.trades)]
    BY <2>1, <2>2 DEF Final
  <2>8. v.state # "REJECTED"
    BY <1>1 DEF IsBacked
  <2>9. ~Ledger!IsTerminal([state |-> row.state, cum |-> row.cum])
    BY <1>3 DEF Ledger!IsTerminal, Ledger!TerminalOrderState, IsTerminal,
                TerminalOrderState
  <2> QED BY <1>1, <2>5, <2>6, <2>7, <2>8, <2>9 DEF Ledger!Record
<1> QED BY <1>2, <1>3

LEMMA StepRefinesLedger ==
    ASSUME Inv, [Next]_vars
    PROVE  [Ledger!Next]_(Ledger!vars)
<1>1. CASE ExchangeSteps
  BY <1>1, ExchangeStepRefines DEF Ledger!Next
<1>2. ASSUME NEW t \in Locker, EndCommit(t)
      PROVE  [Ledger!Next]_(Ledger!vars)
  BY <1>2, CommitRefines DEF Ledger!Next
<1>3. ASSUME ~ExchangeSteps, row' = row
      PROVE  [Ledger!Next]_(Ledger!vars)
  <2>1. exch' = exch
    BY <1>3, OthersLeaveTheExchange
  <2> QED BY <1>3, <2>1 DEF Ledger!vars
<1>4. row' = row \/ \E t \in Locker : EndCommit(t)
  BY JournalSteps, BackfillWrites
<1> QED BY <1>1, <1>2, <1>3, <1>4

(* Through every payload, parser and commit the row trails the exchange's  *)
(* truth: an order is on disk before the exchange gets it, recorded fills  *)
(* are real and only grow, and the end of a row is the order's end         *)
(* (OrderLedger; OrderStateMachine.apply, SqliteAtomicOrderPersistence).   *)
THEOREM RowImplementsLedger == Spec => ImplementsLedger
<1>1. Inv /\ [Next]_vars => [Ledger!Next]_(Ledger!vars)
  BY StepRefinesLedger
<1> QED BY <1>1, InitRefinesLedger, JournalInvariant, PTL
        DEF Spec, Ledger!Spec, ImplementsLedger
=============================================================================

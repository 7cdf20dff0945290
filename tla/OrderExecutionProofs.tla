----------------------- MODULE OrderExecutionProofs -----------------------
(***************************************************************************)
(* Proofs about OrderExecution, for every set of orders, threads and tool  *)
(* runs, every quantity and every number of faults.                        *)
(***************************************************************************)
EXTENDS OrderExecution, SequenceTheorems, TLAPS

-----------------------------------------------------------------------------
(* The order state machine.                                                *)

(* What apply() returns is an order again.                                 *)
LEMMA ApplyIsAnOrder ==
    ASSUME NEW q \in Nat, NEW order \in Order(q), NEW event,
           event.kind \in OrderEventKind,
           event.cum \in 0 .. q \cup {NoQuantity},
           event.to \in OrderState,
           Accepts(q, order, event)
    PROVE  Apply(q, order, event) \in Order(q)
BY DEF Order, OrderEventKind, OrderState, NoQuantity, Accepts, Apply,
       StateAfter, StateAfterTrade, CarriesFill, ObservedFillIsValid,
       IsTerminal, TerminalOrderState, AllowedFrom, AtExchange,
       ReconcilableState

-----------------------------------------------------------------------------
(* Type correctness.                                                       *)

(* What the exchange emits goes to the end of the stream.                  *)
LEMMA EmitExtendsStream ==
    ASSUME TypeOK, NEW o \in Orders, NEW events \in Seq(Event), Emit(o, events)
    PROVE  /\ wire' \in Seq(Delivery)
           /\ emitted' \in [Orders -> Nat]
           /\ \A i \in 1 .. Len(wire') :
                 \/ i \in 1 .. Len(wire) /\ wire'[i] = wire[i]
                 \/ \E j \in 1 .. Len(events) :
                       wire'[i].order = o /\ wire'[i].event = events[j]
<1> DEFINE new(i) == [order |-> o, id |-> emitted[o] + i, event |-> events[i]]
           suffix == [i \in 1 .. Len(events) |-> new(i)]
<1>1. wire \in Seq(Delivery) /\ emitted \in [Orders -> Nat]
  BY DEF TypeOK
<1>2. Len(events) \in Nat /\ \A i \in 1 .. Len(events) : events[i] \in Event
  BY LenProperties, ElementOfSeq
<1>3. emitted' \in [Orders -> Nat]
  BY <1>1, <1>2 DEF Emit
<1>4. ASSUME NEW i \in 1 .. Len(events) PROVE new(i) \in Delivery
  BY <1>1, <1>2 DEF Delivery
<1>5. suffix \in Seq(Delivery) /\ Len(suffix) = Len(events)
  <2>1. suffix \in [1 .. Len(events) -> Delivery]
    BY <1>4
  <2> HIDE DEF suffix
  <2> QED BY <2>1, <1>2
<1>6. CASE ~online
  BY <1>6, <1>1, <1>3, LenProperties DEF Emit
<1>7. CASE online
  <2>1. wire' = wire \o suffix
    BY <1>7 DEF Emit
  <2>2. /\ wire' \in Seq(Delivery)
        /\ Len(wire') = Len(wire) + Len(suffix)
        /\ \A i \in 1 .. Len(wire) + Len(suffix) :
              wire'[i] = IF i <= Len(wire) THEN wire[i] ELSE suffix[i - Len(wire)]
    <3>1. wire \in Seq(Delivery)
      BY <1>1
    <3> HIDE DEF suffix
    <3>2. /\ wire \o suffix \in Seq(Delivery)
          /\ Len(wire \o suffix) = Len(wire) + Len(suffix)
          /\ \A i \in 1 .. Len(wire) + Len(suffix) :
                (wire \o suffix)[i] = IF i <= Len(wire) THEN wire[i]
                                      ELSE suffix[i - Len(wire)]
      BY <3>1, <1>5, ConcatProperties, Zenon
    <3> QED BY <2>1, <3>2, Zenon
  <2>3. Len(wire) \in Nat
    BY <1>1, LenProperties
  <2>4. ASSUME NEW i \in 1 .. Len(wire'), ~(i \in 1 .. Len(wire))
        PROVE  \E j \in 1 .. Len(events) :
                  wire'[i].order = o /\ wire'[i].event = events[j]
    <3> DEFINE j == i - Len(wire)
    <3>1. j \in 1 .. Len(events)
      BY <2>2, <2>3, <2>4, <1>5, <1>2
    <3>2. wire'[i] = suffix[j]
      <4> HIDE DEF suffix
      <4> QED BY <2>2, <2>3, <2>4, <1>5, <1>2
    <3>3. suffix[j] = new(j)
      <4> HIDE DEF j
      <4> QED BY <3>1
    <3> QED BY <3>1, <3>2, <3>3
  <2>5. ASSUME NEW i \in 1 .. Len(wire'), i \in 1 .. Len(wire)
        PROVE  wire'[i] = wire[i]
    <3> HIDE DEF suffix
    <3> QED BY <2>2, <2>3, <2>5, <1>5, <1>2
  <2> QED BY <1>3, <2>2, <2>4, <2>5
<1> QED BY <1>6, <1>7

LEMMA CallingIsACall ==
    ASSUME NEW op \in {"submit", "cancel", "query"}, NEW o \in Orders,
           NEW local \in Order(Quantity)
    PROVE  Calling(op, o, local) \in Call
BY DEF Calling, Call

LEMMA BusyThreadIsInACall ==
    ASSUME TypeOK, NEW t \in Threads, Busy(t)
    PROVE  call[t] \in Call
BY DEF TypeOK, Busy, Idle

LEMMA AnsweredCallIsACall ==
    ASSUME TypeOK, NEW t \in Threads, Busy(t),
           NEW answer \in {"waiting", "snapshot", "rejected", "absent", "error"},
           NEW seen \in ExchangeOrder \cup {Absent},
           AnswerCall(t, answer, seen)
    PROVE  call' \in [Threads -> {Idle} \cup Call]
<1>1. call \in [Threads -> {Idle} \cup Call] /\ call[t] \in Call
  BY BusyThreadIsInACall DEF TypeOK
<1>2. [call[t] EXCEPT !.answer = answer, !.seen = seen] \in Call
  BY <1>1 DEF Call
<1>3. call' = [call EXCEPT ![t] = [call[t] EXCEPT !.answer = answer, !.seen = seen]]
  BY <1>1, <1>2 DEF AnswerCall, Call
<1> QED BY <1>1, <1>2, <1>3

LEMMA StopEngineTypes ==
    ASSUME TypeOK, StopEngine
    PROVE  /\ call' \in [Threads -> {Idle} \cup Call]
           /\ up' \in BOOLEAN /\ online' \in BOOLEAN
           /\ recheck' \in BOOLEAN /\ ready' \in BOOLEAN
           /\ sweep' \in [running : BOOLEAN, todo : SUBSET Orders, unresolved : BOOLEAN]
           /\ wire' \in Seq(Delivery)
BY EmptySeq DEF TypeOK, StopEngine

LEMMA OrdersAreNotAbsent == \A order \in Order(Quantity) : order # Absent
BY DEF Order, OrderState, Absent

(* The rows the engine commits are orders.                                 *)
LEMMA LocalEventIsTyped ==
    ASSUME NEW kind \in {"SUBMIT_REQUESTED", "CANCEL_REQUESTED", "REJECTED",
                         "REQUEST_TIMED_OUT"},
           NEW order \in Order(Quantity)
    PROVE  Apply(Quantity, order, LocalEvent(kind)) \in Order(Quantity)
BY QuantityAssumption DEF Apply, StateAfter, CarriesFill, LocalEvent,
       NoQuantity, Order, OrderState

LEMMA CommitTypes ==
    ASSUME TypeOK, NEW o \in Orders, NEW local, NEW event,
           Commit(o, local, event),
           Apply(Quantity, local, event) \in Order(Quantity)
    PROVE  db' \in [Orders -> LocalOrder]
BY DEF TypeOK, Commit, LocalOrder

LEMMA BeginTypes ==
    ASSUME TypeOK, NEW t \in Threads, NEW o \in Orders, Begin(t, o)
    PROVE  TypeOK'
<1>1. CASE BeginSubmit(t, o)
  <2> DEFINE created == [state |-> "CREATED", cum |-> 0]
             event == LocalEvent("SUBMIT_REQUESTED")
  <2>1. created \in Order(Quantity)
    BY QuantityAssumption DEF Order, OrderState
  <2>2. Apply(Quantity, created, event) \in Order(Quantity)
    BY <2>1, LocalEventIsTyped
  <2>3. db' \in [Orders -> LocalOrder]
    BY <1>1, <2>2, CommitTypes DEF BeginSubmit
  <2>4. Calling("submit", o, Apply(Quantity, created, event)) \in Call
    BY <2>2, CallingIsACall
  <2>5. call' \in [Threads -> {Idle} \cup Call]
    BY <1>1, <2>4 DEF BeginSubmit, TypeOK
  <2>6. requests' \subseteq SideEffect
    BY <1>1 DEF BeginSubmit, TypeOK, SideEffect
  <2> QED BY <1>1, <2>3, <2>5, <2>6
       DEF BeginSubmit, TypeOK, engineVars, worldVars
<1>2. CASE BeginCancel(t, o)
  <2> DEFINE event == LocalEvent("CANCEL_REQUESTED")
  <2>1. db[o] \in Order(Quantity)
    BY <1>2 DEF BeginCancel, TypeOK, LocalOrder
  <2>2. Apply(Quantity, db[o], event) \in Order(Quantity)
    BY <2>1, LocalEventIsTyped
  <2>3. db' \in [Orders -> LocalOrder]
    BY <1>2, <2>2, CommitTypes DEF BeginCancel
  <2>4. Calling("cancel", o, Apply(Quantity, db[o], event)) \in Call
    BY <2>2, CallingIsACall
  <2>5. call' \in [Threads -> {Idle} \cup Call]
    BY <1>2, <2>4 DEF BeginCancel, TypeOK
  <2>6. requests' \subseteq SideEffect
    BY <1>2 DEF BeginCancel, TypeOK, SideEffect
  <2> QED BY <1>2, <2>3, <2>5, <2>6
       DEF BeginCancel, TypeOK, engineVars, worldVars
<1>3. CASE BeginReconcile(t, o)
  <2>1. db[o] \in Order(Quantity)
    BY <1>3 DEF BeginReconcile, TypeOK, LocalOrder
  <2>2. Calling("query", o, db[o]) \in Call
    BY <2>1, CallingIsACall
  <2>3. call' \in [Threads -> {Idle} \cup Call]
    BY <1>3, <2>2 DEF BeginReconcile, TypeOK
  <2> QED BY <1>3, <2>3 DEF BeginReconcile, TypeOK, engineVars, worldVars
<1> QED BY <1>1, <1>2, <1>3 DEF Begin

LEMMA ReturnTypes ==
    ASSUME TypeOK, NEW t \in Threads, NEW order, Return(t, order)
    PROVE  /\ call' \in [Threads -> {Idle} \cup Call]
           /\ up' \in BOOLEAN /\ online' \in BOOLEAN
           /\ recheck' \in BOOLEAN /\ ready' \in BOOLEAN
           /\ sweep' \in [running : BOOLEAN, todo : SUBSET Orders, unresolved : BOOLEAN]
           /\ wire' \in Seq(Delivery)
BY DEF TypeOK, Return, engineVars

LEMMA RaiseTypes ==
    ASSUME TypeOK, NEW t \in Threads, Raise(t)
    PROVE  /\ call' \in [Threads -> {Idle} \cup Call]
           /\ up' \in BOOLEAN /\ online' \in BOOLEAN
           /\ recheck' \in BOOLEAN /\ ready' \in BOOLEAN
           /\ sweep' \in [running : BOOLEAN, todo : SUBSET Orders, unresolved : BOOLEAN]
           /\ wire' \in Seq(Delivery)
<1>1. CASE t = Monitor
  BY <1>1, StopEngineTypes DEF Raise
<1>2. CASE t # Monitor
  BY <1>2 DEF Raise, TypeOK, engineVars
<1> QED BY <1>1, <1>2

LEMMA ReconciledIsAnOrder ==
    ASSUME NEW local \in Order(Quantity), NEW seen \in ExchangeOrder \cup {Absent},
           Accepts(Quantity, local, Reconciliation(seen))
    PROVE  Apply(Quantity, local, Reconciliation(seen)) \in Order(Quantity)
BY QuantityAssumption DEF Order, OrderState, Accepts, Apply, StateAfter,
       CarriesFill, ObservedFillIsValid, Reconciliation, ReconcilableState,
       ExchangeOrder, ExchangeState, OpenAtExchange, Absent, NoQuantity

LEMMA FinishTypes ==
    ASSUME TypeOK, NEW t \in Threads, Finish(t)
    PROVE  TypeOK'
<1>1. Busy(t)
  BY DEF Finish, ApplySnapshot, ApplyRejection, ApplyAbsence, ApplyError
<1>2. call[t] \in Call
  BY <1>1, BusyThreadIsInACall
<1>3. call[t].order \in Orders /\ call[t].local \in Order(Quantity)
      /\ call[t].seen \in ExchangeOrder \cup {Absent}
  BY <1>2 DEF Call
<1>4. CASE ApplySnapshot(t)
  <2> DEFINE event == Reconciliation(call[t].seen)
             local == call[t].local
  <2>1. CASE Accepts(Quantity, local, event)
    <3>1. Apply(Quantity, local, event) \in Order(Quantity)
      BY <2>1, <1>3, ReconciledIsAnOrder
    <3>2. Commit(call[t].order, local, event) /\ Return(t, Apply(Quantity, local, event))
      BY <2>1, <1>4 DEF ApplySnapshot
    <3>3. db' \in [Orders -> LocalOrder]
      BY <3>1, <3>2, <1>3, CommitTypes
    <3> QED BY <1>4, <3>2, <3>3, ReturnTypes DEF ApplySnapshot, TypeOK, worldVars
  <2>2. CASE ~Accepts(Quantity, local, event)
    BY <1>4, <2>2, RaiseTypes DEF ApplySnapshot, TypeOK, worldVars
  <2> QED BY <2>1, <2>2
<1>5. CASE ApplyRejection(t)
  <2> DEFINE event == LocalEvent("REJECTED")
             local == call[t].local
  <2>1. Apply(Quantity, local, event) \in Order(Quantity)
    BY <1>3, LocalEventIsTyped
  <2>2. db' \in [Orders -> LocalOrder]
    BY <2>1, <1>3, <1>5, CommitTypes DEF ApplyRejection
  <2> QED BY <1>5, <2>2, ReturnTypes DEF ApplyRejection, TypeOK, worldVars
<1>6. CASE ApplyAbsence(t)
  BY <1>6, ReturnTypes DEF ApplyAbsence, TypeOK, worldVars
<1>7. CASE ApplyError(t)
  BY <1>7, RaiseTypes DEF ApplyError, TypeOK, worldVars
<1> QED BY <1>4, <1>5, <1>6, <1>7 DEF Finish

LEMMA TimeOutTypes ==
    ASSUME TypeOK, NEW t \in Threads, TimeOut(t)
    PROVE  TypeOK'
<1> DEFINE event == LocalEvent("REQUEST_TIMED_OUT")
           unknown == Apply(Quantity, call[t].local, event)
<1>1. call[t] \in Call
  BY BusyThreadIsInACall DEF TimeOut
<1>2. call[t].order \in Orders /\ call[t].local \in Order(Quantity)
  BY <1>1 DEF Call
<1>3. unknown \in Order(Quantity)
  BY <1>2, LocalEventIsTyped
<1>4. db' \in [Orders -> LocalOrder]
  BY <1>2, <1>3, CommitTypes DEF TimeOut
<1>5. Calling("query", call[t].order, unknown) \in Call
  BY <1>2, <1>3, CallingIsACall
<1>6. call' \in [Threads -> {Idle} \cup Call]
  BY <1>5 DEF TimeOut, TypeOK
<1>7. faults' \in 0 .. MaxFaults
  BY FaultsAssumption DEF TimeOut, TypeOK, Fault
<1> QED BY <1>4, <1>6, <1>7 DEF TimeOut, TypeOK, engineVars, worldVars

LEMMA FaultTypes ==
    ASSUME TypeOK, Fault
    PROVE  faults' \in 0 .. MaxFaults
BY FaultsAssumption DEF TypeOK, Fault

LEMMA AnswerTypes ==
    ASSUME TypeOK, NEW r \in SideEffect,
           NEW answer \in {"snapshot", "rejected", "error"},
           NEW seen \in ExchangeOrder \cup {Absent},
           Answer(r, answer, seen)
    PROVE  call' \in [Threads -> {Idle} \cup Call]
<1>1. CASE Awaits(r)
  BY <1>1, AnsweredCallIsACall DEF Awaits, Answer, SideEffect
<1>2. CASE ~Awaits(r)
  BY <1>2 DEF Answer, TypeOK
<1> QED BY <1>1, <1>2

LEMMA ExchangeEventIsAnEvent ==
    ASSUME NEW kind \in {"ACKNOWLEDGED", "TRADE", "CANCELED", "EXPIRED"},
           NEW order \in ExchangeOrder
    PROVE  ExchangeEvent(kind, order) \in Event
BY DEF ExchangeEvent, ExchangeOrder, Event

LEMMA AcceptanceIsAnExchangeOrder == Acceptance \subseteq ExchangeOrder
BY DEF Acceptance

(* The events of an accepted order.                                        *)
LEMMA SubmitEvents ==
    ASSUME NEW s \in Acceptance,
           NEW events,
           LET new == [state |-> "NEW", cum |-> 0]
               fill == [state |-> StateAfterTrade(Quantity, s.cum), cum |-> s.cum]
           IN  events = <<ExchangeEvent("ACKNOWLEDGED", new)>>
                        \o (IF s.cum > 0
                            THEN <<ExchangeEvent("TRADE", fill)>> ELSE <<>>)
                        \o (IF s.state = "EXPIRED"
                            THEN <<ExchangeEvent("EXPIRED", s)>> ELSE <<>>)
    PROVE  /\ events \in Seq(Event)
           /\ \A j \in 1 .. Len(events) :
                 \/ events[j].kind = "ACKNOWLEDGED" /\ events[j].cum = 0
                 \/ events[j].kind = "TRADE" /\ events[j].cum = s.cum
                 \/ /\ events[j].kind = "EXPIRED" /\ events[j].cum = s.cum
                    /\ s.state = "EXPIRED"
<1> DEFINE new == [state |-> "NEW", cum |-> 0]
           fill == [state |-> StateAfterTrade(Quantity, s.cum), cum |-> s.cum]
           a == <<ExchangeEvent("ACKNOWLEDGED", new)>>
           b == IF s.cum > 0 THEN <<ExchangeEvent("TRADE", fill)>> ELSE <<>>
           c == IF s.state = "EXPIRED" THEN <<ExchangeEvent("EXPIRED", s)>> ELSE <<>>
           Announced(e) ==
               \/ e.kind = "ACKNOWLEDGED" /\ e.cum = 0
               \/ e.kind = "TRADE" /\ e.cum = s.cum
               \/ e.kind = "EXPIRED" /\ e.cum = s.cum /\ s.state = "EXPIRED"
           Announces(q) == q \in Seq(Event) /\ \A j \in 1 .. Len(q) : Announced(q[j])
<1>1. /\ new \in ExchangeOrder /\ fill \in ExchangeOrder /\ s \in ExchangeOrder
      /\ new.cum = 0 /\ fill.cum = s.cum
  BY QuantityAssumption
     DEF Acceptance, ExchangeOrder, ExchangeState, OpenAtExchange, StateAfterTrade
<1>2. ASSUME NEW e \in Event, Announced(e) PROVE Announces(<<e>>)
  BY <1>2
<1>3. Announces(<<>>)
  BY EmptySeq
<1>4. Announces(a)
  <2>1. ExchangeEvent("ACKNOWLEDGED", new) \in Event
    BY <1>1, ExchangeEventIsAnEvent
  <2>2. Announced(ExchangeEvent("ACKNOWLEDGED", new))
    BY <1>1 DEF ExchangeEvent
  <2> HIDE DEF Announces
  <2> QED BY <2>1, <2>2, <1>2
<1>5. Announces(b)
  <2>1. ExchangeEvent("TRADE", fill) \in Event
    BY <1>1, ExchangeEventIsAnEvent
  <2>2. Announced(ExchangeEvent("TRADE", fill))
    BY <1>1 DEF ExchangeEvent
  <2> HIDE DEF Announces
  <2> QED BY <2>1, <2>2, <1>2, <1>3
<1>6. Announces(c)
  <2>1. ExchangeEvent("EXPIRED", s) \in Event
    BY <1>1, ExchangeEventIsAnEvent
  <2>2. s.state = "EXPIRED" => Announced(ExchangeEvent("EXPIRED", s))
    BY <1>1 DEF ExchangeEvent
  <2> HIDE DEF Announces
  <2> QED BY <2>1, <2>2, <1>2, <1>3
<1>7. ASSUME NEW q1, NEW q2, Announces(q1), Announces(q2)
      PROVE  Announces(q1 \o q2)
  <2>1. /\ q1 \o q2 \in Seq(Event)
        /\ Len(q1 \o q2) = Len(q1) + Len(q2)
        /\ \A i \in 1 .. Len(q1) + Len(q2) :
              (q1 \o q2)[i] = IF i <= Len(q1) THEN q1[i] ELSE q2[i - Len(q1)]
    BY <1>7, ConcatProperties
  <2>2. Len(q1) \in Nat /\ Len(q2) \in Nat
    BY <1>7, LenProperties
  <2>3. ASSUME NEW i \in 1 .. Len(q1) + Len(q2) PROVE Announced((q1 \o q2)[i])
    <3>1. CASE i <= Len(q1)
      <4> HIDE DEF Announced
      <4> QED BY <3>1, <2>1, <2>2, <1>7
    <3>2. CASE ~(i <= Len(q1))
      <4> DEFINE k == i - Len(q1)
      <4>1. k \in 1 .. Len(q2) /\ (q1 \o q2)[i] = q2[k]
        BY <3>2, <2>1, <2>2
      <4> HIDE DEF Announced, k
      <4> QED BY <4>1, <1>7
    <3> QED BY <3>1, <3>2
  <2> HIDE DEF Announced
  <2> QED BY <2>1, <2>3
<1>8. events = (a \o b) \o c
  OBVIOUS
<1>9. Announces(events)
  <2> HIDE DEF Announces, a, b, c
  <2> QED BY <1>4, <1>5, <1>6, <1>7, <1>8
<1> QED BY <1>9

(* Every move of the exchange on order o and its sender's call.            *)
LEMMA HandleSubmitTypes ==
    ASSUME TypeOK, NEW r \in requests, HandleSubmit(r)
    PROVE  TypeOK'
<1>1. r \in SideEffect /\ r.order \in Orders
  BY DEF TypeOK, SideEffect
<1>2. requests' \subseteq SideEffect
  BY DEF HandleSubmit, TypeOK
<1>3. CASE exch' # exch \/ placed' # placed
  <2> DEFINE new == [state |-> "NEW", cum |-> 0]
             fill(s) == [state |-> StateAfterTrade(Quantity, s.cum), cum |-> s.cum]
             events(s) == <<ExchangeEvent("ACKNOWLEDGED", new)>>
                          \o (IF s.cum > 0
                              THEN <<ExchangeEvent("TRADE", fill(s))>> ELSE <<>>)
                          \o (IF s.state = "EXPIRED"
                              THEN <<ExchangeEvent("EXPIRED", s)>> ELSE <<>>)
  <2>1. PICK s \in Acceptance :
           /\ exch' = [exch EXCEPT ![r.order] = s]
           /\ Answer(r, "snapshot", s)
           /\ Emit(r.order, events(s))
           /\ placed' = [placed EXCEPT ![r.order] = @ + 1]
    BY <1>3 DEF HandleSubmit
  <2>2. s \in ExchangeOrder
    BY AcceptanceIsAnExchangeOrder
  <2>3. events(s) \in Seq(Event)
    BY SubmitEvents
  <2>4. wire' \in Seq(Delivery) /\ emitted' \in [Orders -> Nat]
    <3> HIDE DEF events
    <3> QED BY <1>1, <2>1, <2>3, EmitExtendsStream
  <2>5. call' \in [Threads -> {Idle} \cup Call]
    BY <1>1, <2>1, <2>2, AnswerTypes
  <2>6. exch' \in [Orders -> ExchangeOrder \cup {Absent}] /\ placed' \in [Orders -> Nat]
    BY <2>1, <2>2, <1>1 DEF TypeOK
  <2> QED BY <1>2, <2>4, <2>5, <2>6 DEF HandleSubmit, TypeOK, engineVars
<1>4. CASE exch' = exch /\ placed' = placed
  <2>1. CASE Answer(r, "rejected", Absent) /\ UNCHANGED <<exch, placed, emitted, wire>>
    BY <2>1, <1>1, <1>2, AnswerTypes DEF HandleSubmit, TypeOK, engineVars
  <2>2. CASE ~(Answer(r, "rejected", Absent) /\ UNCHANGED <<exch, placed, emitted, wire>>)
    <3>1. placed' = [placed EXCEPT ![r.order] = @ + 1]
      BY <2>2 DEF HandleSubmit
    <3> QED BY <3>1, <1>4, <1>1 DEF TypeOK
  <2> QED BY <2>1, <2>2
<1> QED BY <1>3, <1>4

LEMMA HandleCancelTypes ==
    ASSUME TypeOK, NEW r \in requests, HandleCancel(r)
    PROVE  TypeOK'
<1> DEFINE s == [exch[r.order] EXCEPT !.state = "CANCELED"]
<1>1. r \in SideEffect /\ r.order \in Orders
  BY DEF TypeOK, SideEffect
<1>2. requests' \subseteq SideEffect
  BY DEF HandleCancel, TypeOK
<1>3. CASE exch[r.order].state \in OpenAtExchange
  <2>1. s \in ExchangeOrder
    <3>1. exch[r.order] \in ExchangeOrder
      BY <1>1, <1>3 DEF TypeOK, OpenAtExchange, Absent
    <3> QED BY <3>1 DEF ExchangeOrder, ExchangeState
  <2>2. <<ExchangeEvent("CANCELED", s)>> \in Seq(Event)
    BY <2>1, ExchangeEventIsAnEvent
  <2>3. wire' \in Seq(Delivery) /\ emitted' \in [Orders -> Nat]
    BY <1>1, <1>3, <2>2, EmitExtendsStream DEF HandleCancel
  <2>4. call' \in [Threads -> {Idle} \cup Call]
    BY <1>1, <1>3, <2>1, AnswerTypes DEF HandleCancel
  <2>5. exch' \in [Orders -> ExchangeOrder \cup {Absent}]
    BY <1>1, <1>3, <2>1 DEF HandleCancel, TypeOK
  <2> QED BY <1>2, <2>3, <2>4, <2>5 DEF HandleCancel, TypeOK, engineVars
<1>4. CASE exch[r.order].state \notin OpenAtExchange
  BY <1>1, <1>2, <1>4, AnswerTypes DEF HandleCancel, TypeOK, engineVars
<1> QED BY <1>3, <1>4

LEMMA HandleQueryTypes ==
    ASSUME TypeOK, NEW t \in Threads, HandleQuery(t)
    PROVE  TypeOK'
<1>1. call[t] \in Call
  BY BusyThreadIsInACall DEF HandleQuery
<1>2. exch[call[t].order] \in ExchangeOrder \cup {Absent}
  BY <1>1 DEF TypeOK, Call
<1>3. call' \in [Threads -> {Idle} \cup Call]
  BY <1>2, AnsweredCallIsACall DEF HandleQuery
<1> QED BY <1>3 DEF HandleQuery, TypeOK, engineVars, worldVars

LEMMA ExchangeFillsTypes ==
    ASSUME TypeOK, NEW o \in Orders, ExchangeFills(o)
    PROVE  TypeOK'
<1> DEFINE s(cum) == [state |-> StateAfterTrade(Quantity, cum), cum |-> cum]
<1>1. PICK cum \in (exch[o].cum + 1) .. Quantity :
         /\ exch' = [exch EXCEPT ![o] = s(cum)]
         /\ Emit(o, <<ExchangeEvent("TRADE", s(cum))>>)
  BY DEF ExchangeFills
<1>2. exch[o] \in ExchangeOrder
  BY DEF ExchangeFills, TypeOK, OpenAtExchange, Absent
<1>3. s(cum) \in ExchangeOrder
  BY <1>2, QuantityAssumption
     DEF ExchangeOrder, ExchangeState, OpenAtExchange, StateAfterTrade
<1>4. <<ExchangeEvent("TRADE", s(cum))>> \in Seq(Event)
  BY <1>3, ExchangeEventIsAnEvent
<1>5. wire' \in Seq(Delivery) /\ emitted' \in [Orders -> Nat]
  BY <1>1, <1>4, EmitExtendsStream
<1> QED BY <1>1, <1>3, <1>5 DEF ExchangeFills, TypeOK, engineVars

LEMMA ExchangeEndsTypes ==
    ASSUME TypeOK, NEW o \in Orders, ExchangeEnds(o)
    PROVE  TypeOK'
<1> DEFINE s(state) == [exch[o] EXCEPT !.state = state]
<1>1. PICK state \in {"CANCELED", "EXPIRED"} :
         /\ exch' = [exch EXCEPT ![o] = s(state)]
         /\ Emit(o, <<ExchangeEvent(state, s(state))>>)
  BY DEF ExchangeEnds
<1>2. exch[o] \in ExchangeOrder
  BY DEF ExchangeEnds, TypeOK, OpenAtExchange, Absent
<1>3. s(state) \in ExchangeOrder
  BY <1>2 DEF ExchangeOrder, ExchangeState
<1>4. <<ExchangeEvent(state, s(state))>> \in Seq(Event)
  BY <1>3, ExchangeEventIsAnEvent
<1>5. wire' \in Seq(Delivery) /\ emitted' \in [Orders -> Nat]
  BY <1>1, <1>4, EmitExtendsStream
<1> QED BY <1>1, <1>3, <1>5 DEF ExchangeEnds, TypeOK, engineVars

LEMMA ExchangeTypes ==
    ASSUME TypeOK, Exchange
    PROVE  TypeOK'
BY HandleSubmitTypes, HandleCancelTypes, HandleQueryTypes, ExchangeFillsTypes,
   ExchangeEndsTypes DEF Exchange

LEMMA NetworkTypes ==
    ASSUME TypeOK, Network
    PROVE  TypeOK'
<1>1. ASSUME NEW r \in requests, DropRequest(r) PROVE TypeOK'
  BY <1>1, FaultTypes DEF DropRequest, TypeOK, engineVars, worldVars
<1>2. ASSUME NEW t \in Threads, CallFails(t) PROVE TypeOK'
  <2>1. call' \in [Threads -> {Idle} \cup Call]
    BY <1>2, AnsweredCallIsACall DEF CallFails
  <2> QED BY <1>2, <2>1, FaultTypes
          DEF CallFails, TypeOK, engineVars, worldVars
<1>3. CASE Redeliver
  <2>1. Head(wire) \in Delivery
    BY <1>3, HeadTailProperties DEF Redeliver, TypeOK
  <2>2. <<Head(wire)>> \in Seq(Delivery)
    BY <2>1
  <2>3. wire' \in Seq(Delivery)
    BY <1>3, <2>2, ConcatProperties DEF Redeliver, TypeOK
  <2> QED BY <1>3, <2>3, FaultTypes DEF Redeliver, TypeOK, engineVars, worldVars
<1>4. CASE Connect
  BY <1>4 DEF Connect, TypeOK, worldVars
<1>5. CASE Disconnect
  <2>1. PICK n \in 0 .. Len(wire) : wire' = SubSeq(wire, 1, n)
    BY <1>5 DEF Disconnect
  <2>2. wire \in Seq(Delivery) /\ Len(wire) \in Nat
    BY LenProperties DEF TypeOK
  <2>3. \A i \in 1 .. n : wire[i] \in Delivery
    BY <2>2, ElementOfSeq
  <2>4. wire' \in Seq(Delivery)
    BY <2>1, <2>2, <2>3, SubSeqProperties
  <2> QED BY <1>5, <2>4, FaultTypes DEF Disconnect, TypeOK, worldVars
<1> QED BY <1>1, <1>2, <1>3, <1>4, <1>5 DEF Network

LEMMA RuntimeTypes ==
    ASSUME TypeOK, Runtime
    PROVE  TypeOK'
<1>1. CASE ConsumeEvent
  <2> DEFINE delivery == Head(wire)
             o == delivery.order
             event == delivery.event
             local == db[o]
  <2>1. delivery \in Delivery /\ Tail(wire) \in Seq(Delivery)
    BY <1>1, HeadTailProperties DEF ConsumeEvent, TypeOK
  <2>2. o \in Orders /\ delivery.id \in Nat /\ event \in Event
    BY <2>1 DEF Delivery
  <2>3. HandleEvent(event, o, delivery.id)
    BY <1>1 DEF ConsumeEvent
  <2> HIDE DEF delivery
  <2>4. db' \in [Orders -> LocalOrder]
    <3>1. CASE local # Absent /\ Accepts(Quantity, local, event) /\ Commit(o, local, event)
      <4>1. local \in Order(Quantity)
        BY <2>2, <3>1 DEF TypeOK, LocalOrder
      <4>2. /\ event.kind \in OrderEventKind
            /\ event.cum \in 0 .. Quantity \cup {NoQuantity}
            /\ event.to \in OrderState
        BY <2>2 DEF Event, OrderEventKind, ExchangeState, OpenAtExchange, OrderState
      <4>3. Apply(Quantity, local, event) \in Order(Quantity)
        BY <3>1, <4>1, <4>2, ApplyIsAnOrder, QuantityAssumption
      <4> QED BY <2>2, <3>1, <4>3, CommitTypes
    <3>2. CASE UNCHANGED db
      BY <3>2 DEF TypeOK
    <3> QED BY <2>3, <3>1, <3>2 DEF HandleEvent
  <2>5. journal' \in [Orders -> SUBSET Nat]
    <3>1. CASE journal' = [journal EXCEPT ![o] = @ \cup {delivery.id}]
      <4>1. journal[o] \cup {delivery.id} \in SUBSET Nat
        BY <2>2 DEF TypeOK
      <4> QED BY <3>1, <4>1 DEF TypeOK
    <3>2. CASE UNCHANGED journal
      BY <3>2 DEF TypeOK
    <3> QED BY <2>3, <3>1, <3>2 DEF HandleEvent
  <2>6. CASE StopEngine
    BY <2>3, <2>4, <2>5, <2>6, StopEngineTypes DEF HandleEvent, TypeOK, worldVars
  <2>7. CASE UNCHANGED <<call, engineVars, sweep>> /\ wire' = Tail(wire)
    BY <2>1, <2>3, <2>4, <2>5, <2>7 DEF HandleEvent, TypeOK, engineVars, worldVars
  <2> QED BY <2>3, <2>6, <2>7 DEF HandleEvent
<1>2. CASE StartSweep
  BY <1>2 DEF StartSweep, TypeOK, worldVars
<1>3. CASE EndSweep
  <2>1. CASE StopEngine
    BY <1>3, <2>1, StopEngineTypes DEF EndSweep, TypeOK, worldVars
  <2>2. CASE ~StopEngine
    BY <1>3, <2>2 DEF EndSweep, TypeOK, worldVars
  <2> QED BY <2>1, <2>2
<1>4. CASE Crash
  BY <1>4, StopEngineTypes, FaultTypes DEF Crash, TypeOK, worldVars
<1>5. CASE Restart
  BY <1>5 DEF Restart, TypeOK, worldVars
<1> QED BY <1>1, <1>2, <1>3, <1>4, <1>5 DEF Runtime

LEMMA InitTypes == Init => TypeOK
<1> SUFFICES ASSUME Init PROVE TypeOK
  OBVIOUS
<1>1. db \in [Orders -> LocalOrder] /\ journal \in [Orders -> SUBSET Nat]
  BY DEF Init, LocalOrder
<1>2. wire \in Seq(Delivery)
  BY EmptySeq DEF Init
<1>3. faults \in 0 .. MaxFaults
  BY FaultsAssumption DEF Init
<1> QED BY <1>1, <1>2, <1>3 DEF Init, TypeOK

LEMMA NextTypes == TypeOK /\ [Next]_vars => TypeOK'
<1>1. CASE UNCHANGED vars
  BY <1>1 DEF vars, TypeOK
<1> QED BY <1>1, BeginTypes, FinishTypes, TimeOutTypes, ExchangeTypes,
           NetworkTypes, RuntimeTypes DEF Next

(* Whatever the orders, the threads, the quantity and the faults, the      *)
(* state keeps the shape the code gives it: no commit writes a row that is *)
(* not an order, whichever answer, timeout or event it applies.            *)
THEOREM TypeCorrectness == Spec => []TypeOK
<1>1. Init => TypeOK
  BY InitTypes
<1>2. TypeOK /\ [Next]_vars => TypeOK'
  BY NextTypes
<1> QED BY <1>1, <1>2, PTL DEF Spec
-----------------------------------------------------------------------------
(***************************************************************************)
(* The safety of the order engine, with any number of command line tools   *)
(* beside it: recorded fills are real, terminal rows are final, an order   *)
(* is placed at most once and no REST answer is refused.                   *)
(*                                                                         *)
(* None of the four is inductive.  What they rest on is that everything    *)
(* the engine holds about an order (its row, the order a thread read       *)
(* before it went to the network, the answer on its way back, an event on  *)
(* the stream) is a past of the order at the exchange, and that one submit *)
(* request exists for an order the exchange does not have.                 *)
(***************************************************************************)

Final == {"FILLED", "CANCELED", "EXPIRED"}

(* The exchange may have gone from s to e: it never takes a fill back, and *)
(* an order it has ended stays as it is.                                   *)
PastOf(s, e) == s.cum <= e.cum /\ (s.state \in Final => s = e)

NeverPlaced(o) ==
    /\ exch[o] = Absent
    /\ \A r \in requests : r.op = "submit" => r.order # o

(* What the engine believes of order o is backed by the exchange.          *)
Faithful(v, o) ==
    /\ v.state \notin {"CREATED", "ABSENT"}
    /\ PastOf(v, exch[o])
    /\ v.state = "REJECTED" => NeverPlaced(o)

RowsAreFaithful == \A o \in Orders : db[o] # Absent => Faithful(db[o], o)

(* The exchange never has an order the database lacks.                     *)
PersistedFirst ==
    \A o \in Orders : db[o] = Absent =>
        exch[o] = Absent /\ \A r \in requests : r.order # o

ExchangeIsSound ==
    \A o \in Orders :
        /\ exch[o].state \in OpenAtExchange \cup {"FILLED"} =>
               exch[o].state = StateAfterTrade(Quantity, exch[o].cum)
        /\ placed[o] = IF exch[o] = Absent THEN 0 ELSE 1

SubmitsAreUnique ==
    \A r \in requests : r.op = "submit" =>
        /\ exch[r.order] = Absent
        /\ \A r2 \in requests : r2.op = "submit" /\ r2.order = r.order => r2 = r

SnapshotIsNewer(c) ==
    /\ c.seen # Absent
    /\ PastOf(c.seen, exch[c.order])
    /\ PastOf(c.local, c.seen)
    /\ c.local.state # "REJECTED"
    /\ c.seen.state = "FILLED" => c.seen.cum = Quantity

CallIsFaithful(c) ==
    /\ db[c.order] # Absent
    /\ Faithful(c.local, c.order)
    /\ c.op = "submit" => c.local.state = "SUBMITTING"
    /\ c.op = "cancel" => c.local.state = "PENDING_CANCEL"
    /\ c.answer = "rejected" => c.op = "submit" /\ NeverPlaced(c.order)
    /\ c.answer = "snapshot" => SnapshotIsNewer(c)

CallsAreFaithful == \A t \in Threads : Busy(t) => CallIsFaithful(call[t])

DeliveryIsFaithful(d) ==
    LET e == d.event IN
    /\ exch[d.order] # Absent
    /\ e.cum <= exch[d.order].cum
    /\ e.kind \in {"CANCELED", "EXPIRED"} =>
           exch[d.order] = [state |-> e.kind, cum |-> e.cum]
    /\ e.kind = "TRADE" /\ e.cum = Quantity =>
           exch[d.order] = [state |-> "FILLED", cum |-> e.cum]

StreamIsFaithful == \A i \in 1 .. Len(wire) : DeliveryIsFaithful(wire[i])

EngineInvariant ==
    /\ TypeOK
    /\ RowsAreFaithful
    /\ PersistedFirst
    /\ ExchangeIsSound
    /\ SubmitsAreUnique
    /\ CallsAreFaithful
    /\ StreamIsFaithful

-----------------------------------------------------------------------------
(* The exchange moves forward and forgets nothing.                         *)

LEMMA PastOfIsTransitive ==
    ASSUME NEW a, NEW b, NEW c, a.cum \in Nat, b.cum \in Nat, c.cum \in Nat,
           PastOf(a, b), PastOf(b, c)
    PROVE  PastOf(a, c)
BY DEF PastOf

LEMMA FillsAreNaturals ==
    \A s \in ExchangeOrder \cup {Absent} : s.cum \in Nat
BY QuantityAssumption DEF ExchangeOrder, Absent

LEMMA OthersLeaveTheExchange ==
    ASSUME [Next]_vars, ~Exchange
    PROVE  UNCHANGED <<exch, placed>>
<1>1. ASSUME NEW t \in Threads, NEW o \in Orders, Begin(t, o)
      PROVE  UNCHANGED worldVars
  BY <1>1 DEF Begin, BeginSubmit, BeginCancel, BeginReconcile
<1>2. ASSUME NEW t \in Threads, Finish(t) \/ TimeOut(t)
      PROVE  UNCHANGED worldVars
  BY <1>2 DEF Finish, ApplySnapshot, ApplyRejection, ApplyAbsence, ApplyError, TimeOut
<1>3. CASE Network
  BY <1>3 DEF Network, DropRequest, CallFails, Redeliver, Connect, Disconnect, worldVars
<1>4. CASE Runtime
  BY <1>4 DEF Runtime, ConsumeEvent, HandleEvent, StartSweep, EndSweep, Crash,
              Restart, worldVars
<1>5. CASE UNCHANGED vars
  BY <1>5 DEF vars
<1> QED BY <1>1, <1>2, <1>3, <1>4, <1>5 DEF Next, worldVars

LEMMA SubmitPlacesOnce ==
    ASSUME EngineInvariant, NEW r \in requests, HandleSubmit(r)
    PROVE  /\ r.order \in Orders /\ r.op = "submit" /\ exch[r.order] = Absent
           /\ requests' = requests \ {r}
           /\ \/ \E s \in Acceptance :
                    /\ exch' = [exch EXCEPT ![r.order] = s]
                    /\ placed' = [placed EXCEPT ![r.order] = @ + 1]
              \/ UNCHANGED <<exch, placed>>
BY DEF EngineInvariant, SubmitsAreUnique, HandleSubmit, TypeOK, SideEffect

LEMMA CancelEndsAnOpenOrder ==
    ASSUME EngineInvariant, NEW r \in requests, HandleCancel(r), NEW o \in Orders,
           exch'[o] # exch[o]
    PROVE  /\ o = r.order /\ exch[o].state \in OpenAtExchange
           /\ exch'[o].state = "CANCELED" /\ exch'[o].cum = exch[o].cum
           /\ exch'[o].cum \in Nat
<1>1. exch \in [Orders -> ExchangeOrder \cup {Absent}] /\ r.order \in Orders
  BY DEF EngineInvariant, TypeOK, SideEffect
<1>2. /\ exch[r.order].state \in OpenAtExchange
      /\ exch' = [exch EXCEPT ![r.order] = [exch[r.order] EXCEPT !.state = "CANCELED"]]
  BY DEF HandleCancel
<1>3. o = r.order /\ exch[o] \in ExchangeOrder
  BY <1>1, <1>2 DEF OpenAtExchange, Absent
<1> QED BY <1>1, <1>2, <1>3 DEF ExchangeOrder

LEMMA ExchangeMovesAnOpenOrder ==
    ASSUME EngineInvariant, NEW o2 \in Orders, ExchangeFills(o2) \/ ExchangeEnds(o2),
           NEW o \in Orders, exch'[o] # exch[o]
    PROVE  /\ o = o2 /\ exch[o].state \in OpenAtExchange
           /\ exch'[o].cum \in exch[o].cum .. Quantity
           /\ \/ exch'[o].state \in {"CANCELED", "EXPIRED"}
              \/ exch'[o].state = StateAfterTrade(Quantity, exch'[o].cum)
<1>1. exch \in [Orders -> ExchangeOrder \cup {Absent}]
  BY DEF EngineInvariant, TypeOK
<1>2. exch[o2].state \in OpenAtExchange /\ exch[o2] \in ExchangeOrder
  BY <1>1 DEF ExchangeFills, ExchangeEnds, OpenAtExchange, Absent
<1>3. exch[o2].cum \in 0 .. Quantity
  BY <1>2 DEF ExchangeOrder
<1>4. CASE ExchangeFills(o2)
  <2>1. PICK cum \in (exch[o2].cum + 1) .. Quantity :
           exch' = [exch EXCEPT ![o2] = [state |-> StateAfterTrade(Quantity, cum),
                                         cum |-> cum]]
    BY <1>4 DEF ExchangeFills
  <2> QED BY <1>1, <1>2, <1>3, <2>1, QuantityAssumption
<1>5. CASE ExchangeEnds(o2)
  <2>1. PICK state \in {"CANCELED", "EXPIRED"} :
           exch' = [exch EXCEPT ![o2] = [exch[o2] EXCEPT !.state = state]]
    BY <1>5 DEF ExchangeEnds
  <2> QED BY <1>1, <1>2, <1>3, <2>1, QuantityAssumption DEF ExchangeOrder
<1> QED BY <1>4, <1>5

LEMMA ExchangeAdvances ==
    ASSUME EngineInvariant, [Next]_vars, NEW o \in Orders
    PROVE  PastOf(exch[o], exch'[o])
<1>1. exch[o].cum \in 0 .. Quantity
  BY QuantityAssumption DEF EngineInvariant, TypeOK, ExchangeOrder, Absent
<1>2. CASE exch'[o] = exch[o]
  BY <1>1, <1>2 DEF PastOf
<1>3. ASSUME NEW r \in requests, HandleSubmit(r) PROVE PastOf(exch[o], exch'[o])
  <2>1. CASE o = r.order /\ exch' # exch
    <3>1. exch[o] = Absent /\ exch'[o] \in ExchangeOrder
      BY <1>3, <2>1, SubmitPlacesOnce, AcceptanceIsAnExchangeOrder
         DEF EngineInvariant, TypeOK
    <3> QED BY <3>1 DEF PastOf, Absent, ExchangeOrder, Final
  <2>2. CASE ~(o = r.order /\ exch' # exch)
    BY <1>2, <1>3, <2>2, SubmitPlacesOnce DEF EngineInvariant, TypeOK
  <2> QED BY <2>1, <2>2
<1>4. ASSUME NEW r \in requests, HandleCancel(r) PROVE PastOf(exch[o], exch'[o])
  BY <1>2, <1>4, CancelEndsAnOpenOrder DEF PastOf, Final, OpenAtExchange
<1>5. ASSUME NEW o2 \in Orders, ExchangeFills(o2) \/ ExchangeEnds(o2)
      PROVE  PastOf(exch[o], exch'[o])
  BY <1>2, <1>5, ExchangeMovesAnOpenOrder DEF PastOf, Final, OpenAtExchange
<1>6. ASSUME NEW t \in Threads, HandleQuery(t) PROVE PastOf(exch[o], exch'[o])
  BY <1>2, <1>6 DEF HandleQuery, worldVars
<1>7. CASE ~Exchange
  BY <1>2, <1>7, OthersLeaveTheExchange
<1> QED BY <1>3, <1>4, <1>5, <1>6, <1>7 DEF Exchange

LEMMA RequestsGrowByOne ==
    ASSUME [Next]_vars, NEW r \in requests', r \notin requests
    PROVE  /\ exch' = exch
           /\ \/ r.op = "submit" /\ r.order \in Orders /\ db[r.order] = Absent
              \/ r.op = "cancel" /\ r.order \in Orders /\ db[r.order] # Absent
<1>1. ASSUME NEW t \in Threads, NEW o \in Orders, Begin(t, o)
      PROVE  /\ exch' = exch
             /\ \/ r.op = "submit" /\ r.order \in Orders /\ db[r.order] = Absent
                \/ r.op = "cancel" /\ r.order \in Orders /\ db[r.order] # Absent
  BY <1>1 DEF Begin, BeginSubmit, BeginCancel, BeginReconcile, worldVars
<1>2. ASSUME NEW t \in Threads, Finish(t) \/ TimeOut(t) PROVE FALSE
  BY <1>2 DEF Finish, ApplySnapshot, ApplyRejection, ApplyAbsence, ApplyError, TimeOut
<1>3. CASE Exchange
  BY ZenonT(30), <1>3 DEF Exchange, HandleSubmit, HandleCancel, HandleQuery, ExchangeFills,
              ExchangeEnds
<1>4. CASE Network
  BY <1>4 DEF Network, DropRequest, CallFails, Redeliver, Connect, Disconnect
<1>5. CASE Runtime
  BY <1>5 DEF Runtime, ConsumeEvent, HandleEvent, StartSweep, EndSweep, Crash, Restart
<1>6. CASE UNCHANGED vars
  BY <1>6 DEF vars
<1> QED BY <1>1, <1>2, <1>3, <1>4, <1>5, <1>6 DEF Next

LEMMA AtMostOneNewRequest ==
    ASSUME [Next]_vars, NEW r \in requests', NEW r2 \in requests',
           r \notin requests, r2 \notin requests
    PROVE  r = r2
<1>1. ASSUME NEW t \in Threads, NEW o \in Orders, Begin(t, o) PROVE r = r2
  BY <1>1 DEF Begin, BeginSubmit, BeginCancel, BeginReconcile
<1>2. ASSUME NEW t \in Threads, Finish(t) \/ TimeOut(t) PROVE FALSE
  BY <1>2 DEF Finish, ApplySnapshot, ApplyRejection, ApplyAbsence, ApplyError, TimeOut
<1>3. CASE Exchange
  BY ZenonT(30), <1>3 DEF Exchange, HandleSubmit, HandleCancel, HandleQuery, ExchangeFills,
              ExchangeEnds
<1>4. CASE Network
  BY <1>4 DEF Network, DropRequest, CallFails, Redeliver, Connect, Disconnect
<1>5. CASE Runtime
  BY <1>5 DEF Runtime, ConsumeEvent, HandleEvent, StartSweep, EndSweep, Crash, Restart
<1>6. CASE UNCHANGED vars
  BY <1>6 DEF vars
<1> QED BY <1>1, <1>2, <1>3, <1>4, <1>5, <1>6 DEF Next

LEMMA NeverPlacedIsStable ==
    ASSUME EngineInvariant, [Next]_vars, NEW o \in Orders, db[o] # Absent,
           NeverPlaced(o)
    PROVE  NeverPlaced(o)'
<1>1. ASSUME NEW r \in requests', r.op = "submit" PROVE r.order # o
  BY <1>1, RequestsGrowByOne DEF NeverPlaced
<1>2. exch'[o] = Absent
  <2>1. SUFFICES ASSUME exch'[o] # exch[o] PROVE FALSE
    BY DEF NeverPlaced
  <2>2. exch[o].state \notin OpenAtExchange
    BY DEF NeverPlaced, OpenAtExchange, Absent
  <2>3. ASSUME NEW r \in requests, HandleSubmit(r) PROVE FALSE
    <3>1. r.order # o
      BY <2>3, SubmitPlacesOnce DEF NeverPlaced
    <3> QED BY <2>1, <2>3, <3>1, SubmitPlacesOnce DEF EngineInvariant, TypeOK
  <2>4. ASSUME NEW r \in requests, HandleCancel(r) PROVE FALSE
    BY <2>1, <2>2, <2>4, CancelEndsAnOpenOrder
  <2>5. ASSUME NEW o2 \in Orders, ExchangeFills(o2) \/ ExchangeEnds(o2) PROVE FALSE
    BY <2>1, <2>2, <2>5, ExchangeMovesAnOpenOrder
  <2>6. ASSUME NEW t \in Threads, HandleQuery(t) PROVE FALSE
    BY <2>1, <2>6 DEF HandleQuery, worldVars
  <2> QED BY <2>1, <2>3, <2>4, <2>5, <2>6, OthersLeaveTheExchange DEF Exchange
<1> QED BY <1>1, <1>2 DEF NeverPlaced

LEMMA FaithfulIsStable ==
    ASSUME EngineInvariant, [Next]_vars, NEW o \in Orders, db[o] # Absent,
           NEW v \in Order(Quantity), Faithful(v, o)
    PROVE  Faithful(v, o)'
<1>1. /\ v.cum \in Nat /\ exch[o].cum \in Nat /\ exch'[o].cum \in Nat
  <2>1. TypeOK /\ TypeOK'
    BY NextTypes DEF EngineInvariant
  <2> QED BY <2>1, QuantityAssumption DEF TypeOK, ExchangeOrder, Absent, Order
<1>2. PastOf(v, exch'[o])
  BY <1>1, ExchangeAdvances, PastOfIsTransitive DEF Faithful
<1>3. v.state = "REJECTED" => NeverPlaced(o)'
  BY NeverPlacedIsStable DEF Faithful
<1> QED BY <1>2, <1>3 DEF Faithful, PastOf

-----------------------------------------------------------------------------
(* What the engine commits.                                                *)

LEMMA SubmitRequestedRow ==
    Apply(Quantity, [state |-> "CREATED", cum |-> 0], LocalEvent("SUBMIT_REQUESTED"))
        = [state |-> "SUBMITTING", cum |-> 0]
BY DEF Apply, IsTerminal, TerminalOrderState, StateAfter, CarriesFill, LocalEvent

LEMMA CancelRequestedRow ==
    ASSUME NEW v \in Order(Quantity), ~IsTerminal(v),
           Accepts(Quantity, v, LocalEvent("CANCEL_REQUESTED"))
    PROVE  /\ v.state \in {"NEW", "PARTIALLY_FILLED"}
           /\ Apply(Quantity, v, LocalEvent("CANCEL_REQUESTED"))
                  = [state |-> "PENDING_CANCEL", cum |-> v.cum]
BY DEF Apply, Accepts, AllowedFrom, StateAfter, CarriesFill, LocalEvent

LEMMA RejectedRow ==
    ASSUME NEW v \in Order(Quantity), v.state = "SUBMITTING"
    PROVE  Apply(Quantity, v, LocalEvent("REJECTED"))
               = [state |-> "REJECTED", cum |-> v.cum]
BY DEF Apply, IsTerminal, TerminalOrderState, StateAfter, CarriesFill, LocalEvent

LEMMA TimedOutRow ==
    ASSUME NEW v \in Order(Quantity), v.state \in {"SUBMITTING", "PENDING_CANCEL"}
    PROVE  Apply(Quantity, v, LocalEvent("REQUEST_TIMED_OUT"))
               = [state |-> "UNKNOWN", cum |-> v.cum]
BY DEF Apply, IsTerminal, TerminalOrderState, StateAfter, CarriesFill, LocalEvent

(* A reconciliation writes the snapshot, or the terminal order again.      *)
LEMMA ReconciledRow ==
    ASSUME NEW v \in Order(Quantity), NEW seen \in ExchangeOrder,
           PastOf(v, seen), v.state # "REJECTED",
           Accepts(Quantity, v, Reconciliation(seen))
    PROVE  Apply(Quantity, v, Reconciliation(seen)) = seen
<1>1. CASE IsTerminal(v)
  BY <1>1 DEF Apply, IsTerminal, TerminalOrderState, PastOf, Final
<1>2. CASE ~IsTerminal(v)
  <2>1. seen = [state |-> seen.state, cum |-> seen.cum] /\ seen.cum \in 0 .. Quantity
    BY DEF ExchangeOrder
  <2>2. CarriesFill(Reconciliation(seen))
    BY <2>1, QuantityAssumption DEF CarriesFill, Reconciliation, NoQuantity
  <2> QED BY <1>2, <2>1, <2>2 DEF Apply, StateAfter, Reconciliation
<1> QED BY <1>1, <1>2

(* An event on the stream never makes a row more than the exchange backs.  *)
LEMMA EventRow ==
    ASSUME EngineInvariant, NEW d \in Delivery, DeliveryIsFaithful(d),
           NEW v \in Order(Quantity), Faithful(v, d.order),
           Accepts(Quantity, v, d.event)
    PROVE  Faithful(Apply(Quantity, v, d.event), d.order)
<1> DEFINE o == d.order
           e == d.event
           row == Apply(Quantity, v, e)
<1>1. o \in Orders /\ e \in Event /\ e.cum \in 0 .. Quantity
  BY DEF Delivery, Event
<1>2. exch[o] \in ExchangeOrder
  BY <1>1 DEF DeliveryIsFaithful, EngineInvariant, TypeOK
<1>3. CASE IsTerminal(v)
  BY <1>3 DEF Apply
<1>4. CASE ~IsTerminal(v) /\ e.kind = "ACKNOWLEDGED"
  <2>1. row.cum = v.cum /\ row.state \in {v.state, "NEW"}
    BY <1>4 DEF Apply, StateAfter, CarriesFill
  <2> QED BY <1>4, <2>1
          DEF Faithful, PastOf, IsTerminal, TerminalOrderState, Final
<1>5. CASE ~IsTerminal(v) /\ e.kind = "TRADE"
  <2>1. row = [state |-> StateAfterTrade(Quantity, e.cum), cum |-> e.cum]
    BY <1>1, <1>5, QuantityAssumption DEF Apply, StateAfter, CarriesFill, NoQuantity
  <2> QED BY <1>5, <2>1 DEF StateAfterTrade, Faithful, PastOf, Final, DeliveryIsFaithful
<1>6. CASE ~IsTerminal(v) /\ e.kind \in {"CANCELED", "EXPIRED"}
  <2>1. row = [state |-> e.kind, cum |-> e.cum]
    BY <1>1, <1>6, QuantityAssumption DEF Apply, StateAfter, CarriesFill, NoQuantity
  <2> QED BY <1>1, <1>2, <1>6, <2>1, QuantityAssumption
          DEF Faithful, PastOf, DeliveryIsFaithful
<1> QED BY <1>1, <1>3, <1>4, <1>5, <1>6 DEF Event

(* A commit writes a row the exchange backs.                               *)
LEMMA CommitsAreFaithful ==
    ASSUME EngineInvariant, [Next]_vars, NEW o \in Orders, db'[o] # db[o]
    PROVE  Faithful(db[o], o)'
<1>0. /\ TypeOK /\ db \in [Orders -> LocalOrder] /\ exch[o].cum \in Nat
      /\ exch \in [Orders -> ExchangeOrder \cup {Absent}]
  BY QuantityAssumption DEF EngineInvariant, TypeOK, ExchangeOrder, Absent
<1>1. SUFFICES ASSUME Next, UNCHANGED <<exch, placed>>
               PROVE  Faithful(db[o], o)'
  <2>1. CASE Exchange
    BY <2>1 DEF Exchange, HandleSubmit, HandleCancel, HandleQuery, ExchangeFills,
                ExchangeEnds
  <2>2. Next
    BY DEF vars
  <2> QED BY <2>1, <2>2, OthersLeaveTheExchange
<1>2. ASSUME NEW t \in Threads, NEW p \in Orders, Begin(t, p)
      PROVE  Faithful(db[o], o)'
  <2>1. CASE BeginSubmit(t, p)
    <3>1. o = p /\ db'[o] = [state |-> "SUBMITTING", cum |-> 0]
      BY <1>0, <2>1, SubmitRequestedRow DEF BeginSubmit, Commit
    <3> QED BY <1>0, <1>1, <3>1 DEF Faithful, PastOf, Final
  <2>2. CASE BeginCancel(t, p)
    <3>1. o = p /\ db[o] \in Order(Quantity) /\ Faithful(db[o], o)
      BY <1>0, <2>2 DEF BeginCancel, Commit, LocalOrder, EngineInvariant, RowsAreFaithful
    <3>2. db'[o] = [state |-> "PENDING_CANCEL", cum |-> db[o].cum]
      BY <1>0, <2>2, <3>1, CancelRequestedRow DEF BeginCancel, Commit
    <3> QED BY <1>0, <1>1, <3>1, <3>2 DEF Faithful, PastOf, Final
  <2>3. CASE BeginReconcile(t, p)
    BY <2>3 DEF BeginReconcile
  <2> QED BY <1>2, <2>1, <2>2, <2>3 DEF Begin
<1>3. ASSUME NEW t \in Threads, Finish(t) \/ TimeOut(t)
      PROVE  Faithful(db[o], o)'
  <2>1. Busy(t) /\ call[t] \in Call /\ CallIsFaithful(call[t])
    <3>1. Busy(t)
      BY <1>3 DEF Finish, ApplySnapshot, ApplyRejection, ApplyAbsence, ApplyError, TimeOut
    <3> QED BY <1>0, <3>1, BusyThreadIsInACall DEF EngineInvariant, CallsAreFaithful
  <2> DEFINE local == call[t].local
             seen == call[t].seen
  <2>2. call[t].order \in Orders /\ local \in Order(Quantity)
        /\ seen \in ExchangeOrder \cup {Absent}
    BY <2>1 DEF Call
  <2>3. CASE ApplySnapshot(t)
    <3>1. /\ o = call[t].order /\ Accepts(Quantity, local, Reconciliation(seen))
          /\ db'[o] = Apply(Quantity, local, Reconciliation(seen))
      BY <1>0, <2>2, <2>3 DEF ApplySnapshot, Commit
    <3>2. SnapshotIsNewer(call[t]) /\ seen \in ExchangeOrder
      BY <2>1, <2>2, <2>3 DEF ApplySnapshot, CallIsFaithful, SnapshotIsNewer
    <3>3. db'[o] = seen
      BY <2>2, <3>1, <3>2, ReconciledRow DEF SnapshotIsNewer
    <3> QED BY <1>1, <3>1, <3>2, <3>3
            DEF SnapshotIsNewer, Faithful, PastOf, ExchangeOrder, ExchangeState,
                OpenAtExchange
  <2>4. CASE ApplyRejection(t)
    <3>1. /\ call[t].op = "submit" /\ NeverPlaced(call[t].order)
          /\ local.state = "SUBMITTING" /\ Faithful(local, call[t].order)
      BY <2>1, <2>4 DEF ApplyRejection, CallIsFaithful
    <3>2. o = call[t].order /\ db'[o] = [state |-> "REJECTED", cum |-> local.cum]
      BY <1>0, <2>2, <2>4, <3>1, RejectedRow DEF ApplyRejection, Commit
    <3>3. requests' = requests
      BY <2>4 DEF ApplyRejection
    <3> QED BY <1>1, <3>1, <3>2, <3>3 DEF Faithful, PastOf, Final, NeverPlaced
  <2>5. CASE TimeOut(t)
    <3>1. local.state \in {"SUBMITTING", "PENDING_CANCEL"} /\ Faithful(local, call[t].order)
      BY <2>1, <2>5 DEF TimeOut, CallIsFaithful
    <3>2. o = call[t].order /\ db'[o] = [state |-> "UNKNOWN", cum |-> local.cum]
      BY <1>0, <2>2, <2>5, <3>1, TimedOutRow DEF TimeOut, Commit
    <3> QED BY <1>1, <3>1, <3>2 DEF Faithful, PastOf, Final
  <2>6. CASE ApplyAbsence(t) \/ ApplyError(t)
    BY <2>6 DEF ApplyAbsence, ApplyError
  <2> QED BY <1>3, <2>3, <2>4, <2>5, <2>6 DEF Finish
<1>4. CASE Network
  BY <1>4 DEF Network, DropRequest, CallFails, Redeliver, Connect, Disconnect
<1>5. CASE ConsumeEvent
  <2> DEFINE d == Head(wire)
  <2>1. d \in Delivery /\ d = wire[1] /\ 1 \in 1 .. Len(wire)
    BY <1>0, <1>5, HeadTailProperties, LenProperties, EmptySeq DEF ConsumeEvent, TypeOK
  <2>2. DeliveryIsFaithful(d)
    BY <2>1 DEF EngineInvariant, StreamIsFaithful
  <2>3. d.order \in Orders
    BY <2>1 DEF Delivery
  <2> HIDE DEF d
  <2>4. /\ o = d.order /\ db[o] # Absent /\ Accepts(Quantity, db[o], d.event)
        /\ db'[o] = Apply(Quantity, db[o], d.event) /\ requests' = requests
    BY <1>0, <1>5, <2>3 DEF ConsumeEvent, HandleEvent, Commit, d
  <2>5. db[o] \in Order(Quantity) /\ Faithful(db[o], o)
    BY <1>0, <2>4 DEF LocalOrder, EngineInvariant, RowsAreFaithful
  <2>6. Faithful(db'[o], o)
    BY <2>1, <2>2, <2>4, <2>5, EventRow
  <2> QED BY <1>1, <2>4, <2>6 DEF Faithful, NeverPlaced
<1>6. CASE StartSweep \/ EndSweep \/ Crash \/ Restart
  BY <1>6 DEF StartSweep, EndSweep, Crash, Restart
<1>7. CASE Exchange
  BY <1>7 DEF Exchange, HandleSubmit, HandleCancel, HandleQuery, ExchangeFills,
              ExchangeEnds
<1> QED BY <1>1, <1>2, <1>3, <1>4, <1>5, <1>6, <1>7 DEF Next, Runtime

LEMMA RowsPersist ==
    ASSUME EngineInvariant, [Next]_vars, NEW o \in Orders, db[o] # Absent
    PROVE  db'[o] # Absent
BY CommitsAreFaithful DEF Faithful, Absent

-----------------------------------------------------------------------------
(* The invariant is inductive.                                             *)

LEMMA RowsStayFaithful ==
    ASSUME EngineInvariant, [Next]_vars
    PROVE  RowsAreFaithful'
<1> SUFFICES ASSUME NEW o \in Orders, db'[o] # Absent PROVE Faithful(db[o], o)'
  BY DEF RowsAreFaithful
<1>1. CASE db'[o] # db[o]
  BY <1>1, CommitsAreFaithful
<1>2. CASE db'[o] = db[o]
  <2>1. db[o] # Absent /\ db[o] \in Order(Quantity) /\ Faithful(db[o], o)
    BY <1>2 DEF EngineInvariant, TypeOK, LocalOrder, RowsAreFaithful
  <2> DEFINE v == db[o]
  <2>2. ASSUME NEW w \in Order(Quantity), w = v PROVE Faithful(w, o)'
    BY <2>1, <2>2, FaithfulIsStable
  <2> QED BY <1>2, <2>1, <2>2 DEF Faithful
<1> QED BY <1>1, <1>2

LEMMA StaysPersistedFirst ==
    ASSUME EngineInvariant, [Next]_vars
    PROVE  PersistedFirst'
<1> SUFFICES ASSUME NEW o \in Orders, db'[o] = Absent
             PROVE  exch'[o] = Absent /\ \A r \in requests' : r.order # o
  BY DEF PersistedFirst
<1>1. db[o] = Absent
  BY RowsPersist
<1>2. exch[o] = Absent /\ \A r \in requests : r.order # o
  BY <1>1 DEF EngineInvariant, PersistedFirst
<1>3. NeverPlaced(o)
  BY <1>2 DEF NeverPlaced
<1>4. ASSUME NEW r \in requests', r.order = o PROVE FALSE
  <2>1. r \notin requests
    BY <1>2, <1>4
  <2>2. r.op = "submit" /\ r.order \in Orders
    BY <1>1, <1>4, <2>1, RequestsGrowByOne
  <2>3. ASSUME NEW t \in Threads, NEW p \in Orders, BeginSubmit(t, p) PROVE FALSE
    <3>1. p = o
      BY <1>4, <2>1, <2>3 DEF BeginSubmit
    <3>2. db'[o] = [state |-> "SUBMITTING", cum |-> 0]
      BY <2>3, <3>1, SubmitRequestedRow DEF BeginSubmit, Commit, EngineInvariant, TypeOK
    <3> QED BY <3>2 DEF Absent
  <2>4. ASSUME NEW t \in Threads, NEW p \in Orders, BeginCancel(t, p) \/ BeginReconcile(t, p)
        PROVE  FALSE
    BY <2>1, <2>2, <2>4 DEF BeginCancel, BeginReconcile
  <2>5. ASSUME NEW t \in Threads, Finish(t) \/ TimeOut(t) PROVE FALSE
    BY <2>1, <2>5
       DEF Finish, ApplySnapshot, ApplyRejection, ApplyAbsence, ApplyError, TimeOut
  <2>6. CASE Exchange
    BY ZenonT(30), <2>1, <2>6 DEF Exchange, HandleSubmit, HandleCancel, HandleQuery, ExchangeFills,
                ExchangeEnds
  <2>7. CASE Network
    BY <2>1, <2>7 DEF Network, DropRequest, CallFails, Redeliver, Connect, Disconnect
  <2>8. CASE Runtime
    BY <2>1, <2>8 DEF Runtime, ConsumeEvent, HandleEvent, StartSweep, EndSweep, Crash,
                Restart
  <2>9. CASE UNCHANGED vars
    BY <2>1, <2>9 DEF vars
  <2> QED BY <2>3, <2>4, <2>5, <2>6, <2>7, <2>8, <2>9 DEF Next, Begin
<1>5. exch'[o] = Absent
  <2>1. SUFFICES ASSUME exch'[o] # exch[o] PROVE FALSE
    BY <1>2
  <2>2. exch[o].state \notin OpenAtExchange
    BY <1>2 DEF OpenAtExchange, Absent
  <2>3. ASSUME NEW r \in requests, HandleSubmit(r) PROVE FALSE
    BY ZenonT(30), <1>2, <2>1, <2>3, SubmitPlacesOnce DEF EngineInvariant, TypeOK
  <2>4. ASSUME NEW r \in requests, HandleCancel(r) PROVE FALSE
    BY <2>1, <2>2, <2>4, CancelEndsAnOpenOrder
  <2>5. ASSUME NEW o2 \in Orders, ExchangeFills(o2) \/ ExchangeEnds(o2) PROVE FALSE
    BY <2>1, <2>2, <2>5, ExchangeMovesAnOpenOrder
  <2>6. ASSUME NEW t \in Threads, HandleQuery(t) PROVE FALSE
    BY <2>1, <2>6 DEF HandleQuery, worldVars
  <2> QED BY <2>1, <2>3, <2>4, <2>5, <2>6, OthersLeaveTheExchange DEF Exchange
<1> QED BY <1>4, <1>5

LEMMA ExchangeStaysSound ==
    ASSUME EngineInvariant, [Next]_vars
    PROVE  ExchangeIsSound'
<1> SUFFICES ASSUME NEW o \in Orders
             PROVE  /\ exch'[o].state \in OpenAtExchange \cup {"FILLED"} =>
                           exch'[o].state = StateAfterTrade(Quantity, exch'[o].cum)
                    /\ placed'[o] = IF exch'[o] = Absent THEN 0 ELSE 1
  BY DEF ExchangeIsSound
<1>0. /\ exch[o].state \in OpenAtExchange \cup {"FILLED"} =>
             exch[o].state = StateAfterTrade(Quantity, exch[o].cum)
      /\ placed[o] = IF exch[o] = Absent THEN 0 ELSE 1
      /\ exch \in [Orders -> ExchangeOrder \cup {Absent}]
      /\ placed \in [Orders -> Nat]
  BY DEF EngineInvariant, ExchangeIsSound, TypeOK
<1>1. CASE exch'[o] = exch[o] /\ placed'[o] = placed[o]
  BY <1>0, <1>1
<1>2. ASSUME NEW r \in requests, HandleSubmit(r), ~(exch'[o] = exch[o] /\ placed'[o] = placed[o])
      PROVE  \E s \in Acceptance : exch[o] = Absent /\ exch'[o] = s /\ placed'[o] = placed[o] + 1
  BY <1>0, <1>2, SubmitPlacesOnce
<1>3. ASSUME NEW s \in Acceptance, exch[o] = Absent, exch'[o] = s, placed'[o] = placed[o] + 1
      PROVE  /\ exch'[o].state \in OpenAtExchange \cup {"FILLED"} =>
                    exch'[o].state = StateAfterTrade(Quantity, exch'[o].cum)
             /\ placed'[o] = IF exch'[o] = Absent THEN 0 ELSE 1
  BY <1>0, <1>3 DEF Acceptance, ExchangeOrder, ExchangeState, OpenAtExchange, Absent
<1>4. ASSUME NEW r \in requests, HandleCancel(r), exch'[o] # exch[o]
      PROVE  exch'[o].state = "CANCELED" /\ exch[o] # Absent /\ placed'[o] = placed[o]
  BY <1>4, CancelEndsAnOpenOrder DEF HandleCancel, OpenAtExchange, Absent
<1>5. ASSUME NEW o2 \in Orders, ExchangeFills(o2) \/ ExchangeEnds(o2), exch'[o] # exch[o]
      PROVE  /\ \/ exch'[o].state \in {"CANCELED", "EXPIRED"}
                \/ exch'[o].state = StateAfterTrade(Quantity, exch'[o].cum)
             /\ exch[o] # Absent /\ exch'[o] # Absent /\ placed'[o] = placed[o]
  <2>1. /\ exch[o].state \in OpenAtExchange
        /\ \/ exch'[o].state \in {"CANCELED", "EXPIRED"}
           \/ exch'[o].state = StateAfterTrade(Quantity, exch'[o].cum)
    BY <1>5, ExchangeMovesAnOpenOrder
  <2>2. exch[o] # Absent
    BY <2>1 DEF OpenAtExchange, Absent
  <2>3. exch'[o] # Absent
    BY <2>1 DEF StateAfterTrade, Absent
  <2>4. placed' = placed
    BY <1>5 DEF ExchangeFills, ExchangeEnds
  <2> QED BY <2>1, <2>2, <2>3, <2>4
<1>6. ASSUME NEW t \in Threads, HandleQuery(t)
      PROVE  exch'[o] = exch[o] /\ placed'[o] = placed[o]
  BY <1>6 DEF HandleQuery, worldVars
<1>7. CASE ~Exchange
  BY <1>1, <1>7, OthersLeaveTheExchange
<1>8. CASE Exchange
  <2>1. CASE \E r \in requests : HandleSubmit(r)
    BY <1>1, <1>2, <1>3, <2>1
  <2>2. CASE \E r \in requests : HandleCancel(r)
    BY <1>0, <1>1, <1>4, <2>2 DEF HandleCancel, OpenAtExchange, Absent
  <2>3. CASE \E o2 \in Orders : ExchangeFills(o2) \/ ExchangeEnds(o2)
    BY <1>0, <1>1, <1>5, <2>3 DEF ExchangeFills, ExchangeEnds, OpenAtExchange
  <2>4. CASE \E t \in Threads : HandleQuery(t)
    BY <1>1, <1>6, <2>4
  <2> QED BY <1>8, <2>1, <2>2, <2>3, <2>4 DEF Exchange
<1> QED BY <1>7, <1>8

LEMMA SubmitsStayUnique ==
    ASSUME EngineInvariant, [Next]_vars
    PROVE  SubmitsAreUnique'
<1> SUFFICES ASSUME NEW r \in requests', r.op = "submit"
             PROVE  /\ exch'[r.order] = Absent
                    /\ \A r2 \in requests' :
                          r2.op = "submit" /\ r2.order = r.order => r2 = r
  BY DEF SubmitsAreUnique
<1>1. r.order \in Orders
  BY NextTypes DEF EngineInvariant, TypeOK, SideEffect
<1>2. \A q \in requests' : q \in requests \/ exch' = exch
  BY RequestsGrowByOne
<1>3. CASE r \notin requests
  <2>1. db[r.order] = Absent /\ exch' = exch
    BY <1>3, RequestsGrowByOne
  <2>2. exch[r.order] = Absent /\ \A q \in requests : q.order # r.order
    BY <1>1, <2>1 DEF EngineInvariant, PersistedFirst
  <2>3. ASSUME NEW r2 \in requests', r2.order = r.order, r2 # r PROVE FALSE
    <3>1. r2 \notin requests
      BY <2>2, <2>3
    <3> QED BY <1>3, <2>3, <3>1, AtMostOneNewRequest
  <2> QED BY <2>1, <2>2, <2>3
<1>4. CASE r \in requests
  <2>1. exch[r.order] = Absent
        /\ \A q \in requests : q.op = "submit" /\ q.order = r.order => q = r
    BY <1>4 DEF EngineInvariant, SubmitsAreUnique
  <2>2. db[r.order] # Absent
    BY <1>1, <1>4 DEF EngineInvariant, PersistedFirst
  <2>3. \A r2 \in requests' : r2.op = "submit" /\ r2.order = r.order => r2 = r
    BY <2>1, <2>2, RequestsGrowByOne
  <2>4. exch'[r.order] = Absent
    <3>1. SUFFICES ASSUME exch'[r.order] # exch[r.order] PROVE FALSE
      BY <2>1
    <3>2. exch[r.order].state \notin OpenAtExchange
      BY <2>1 DEF OpenAtExchange, Absent
    <3>3. ASSUME NEW q \in requests, HandleSubmit(q) PROVE FALSE
      <4>1. q.order = r.order /\ q.op = "submit" /\ q \notin requests'
        BY ZenonT(30), <1>1, <3>1, <3>3, SubmitPlacesOnce DEF EngineInvariant, TypeOK
      <4> QED BY <2>1, <4>1
    <3>4. ASSUME NEW q \in requests, HandleCancel(q) PROVE FALSE
      BY <1>1, <3>1, <3>2, <3>4, CancelEndsAnOpenOrder
    <3>5. ASSUME NEW o2 \in Orders, ExchangeFills(o2) \/ ExchangeEnds(o2) PROVE FALSE
      BY <1>1, <3>1, <3>2, <3>5, ExchangeMovesAnOpenOrder
    <3>6. ASSUME NEW t \in Threads, HandleQuery(t) PROVE FALSE
      BY <3>1, <3>6 DEF HandleQuery, worldVars
    <3> QED BY <3>1, <3>3, <3>4, <3>5, <3>6, OthersLeaveTheExchange DEF Exchange
  <2> QED BY <2>3, <2>4
<1> QED BY <1>3, <1>4

(* A call that nothing touches stays faithful while the exchange moves.    *)
LEMMA WaitingCallStaysFaithful ==
    ASSUME EngineInvariant, [Next]_vars, NEW c \in Call, CallIsFaithful(c)
    PROVE  CallIsFaithful(c)'
<1>1. c.order \in Orders /\ c.local \in Order(Quantity) /\ db[c.order] # Absent
      /\ c.seen \in ExchangeOrder \cup {Absent}
  BY DEF Call, CallIsFaithful
<1>2. db'[c.order] # Absent
  BY <1>1, RowsPersist
<1>3. Faithful(c.local, c.order)'
  BY <1>1, FaithfulIsStable DEF CallIsFaithful
<1>4. c.answer = "rejected" => c.op = "submit" /\ NeverPlaced(c.order)'
  BY <1>1, NeverPlacedIsStable DEF CallIsFaithful
<1>5. ASSUME c.answer = "snapshot" PROVE PastOf(c.seen, exch'[c.order])
  <2>1. TypeOK /\ TypeOK'
    BY NextTypes DEF EngineInvariant
  <2>2. /\ c.seen.cum \in Nat /\ exch[c.order].cum \in Nat /\ exch'[c.order].cum \in Nat
    BY <1>1, <2>1, FillsAreNaturals DEF TypeOK
  <2>3. PastOf(c.seen, exch[c.order])
    BY <1>5 DEF CallIsFaithful, SnapshotIsNewer
  <2> QED BY <1>1, <2>2, <2>3, ExchangeAdvances, PastOfIsTransitive
<1> QED BY <1>2, <1>3, <1>4, <1>5 DEF CallIsFaithful, SnapshotIsNewer, PastOf

(* A call starts from the row it has just read or written.                 *)
LEMMA NewCallIsFaithful ==
    ASSUME EngineInvariant, [Next]_vars, NEW t \in Threads, NEW o \in Orders,
           NEW op \in {"submit", "cancel", "query"}, db'[o] # Absent,
           call'[t] = Calling(op, o, db'[o]),
           op = "submit" => db'[o].state = "SUBMITTING",
           op = "cancel" => db'[o].state = "PENDING_CANCEL"
    PROVE  CallIsFaithful(call[t])'
<1>1. Faithful(db[o], o)'
  BY RowsStayFaithful DEF RowsAreFaithful
<1>2. /\ call'[t].order = o /\ call'[t].local = db'[o] /\ call'[t].op = op
      /\ call'[t].answer = "waiting"
  BY DEF Calling
<1> QED BY <1>1, <1>2 DEF CallIsFaithful, Faithful, NeverPlaced

(* An answer from the exchange is newer than the order the thread read.    *)
LEMMA SnapshotAnswerIsFaithful ==
    ASSUME EngineInvariant, [Next]_vars, NEW t \in Threads, Busy(t),
           AnswerCall(t, "snapshot", exch'[call[t].order]),
           exch'[call[t].order] \in ExchangeOrder
    PROVE  CallIsFaithful(call[t])'
<1> DEFINE o == call[t].order
<1>1. call[t] \in Call /\ o \in Orders /\ CallIsFaithful(call[t])
      /\ call \in [Threads -> {Idle} \cup Call]
  BY BusyThreadIsInACall DEF EngineInvariant, CallsAreFaithful, Call, TypeOK
<1>2. /\ call'[t].op = call[t].op /\ call'[t].order = o
      /\ call'[t].local = call[t].local /\ call'[t].answer = "snapshot"
      /\ call'[t].seen = exch'[o]
  BY <1>1 DEF AnswerCall, Call
<1>3. call[t].local \in Order(Quantity) /\ Faithful(call[t].local, o) /\ db[o] # Absent
  BY <1>1 DEF CallIsFaithful, Call
<1>4. ASSUME NEW v \in Order(Quantity), v = call[t].local
      PROVE  Faithful(v, o)'
  <2>1. ASSUME NEW p \in Orders, p = o PROVE Faithful(v, p)'
    BY <1>3, <1>4, <2>1, FaithfulIsStable
  <2> QED BY <1>1, <1>2, <2>1 DEF Faithful, NeverPlaced
<1>5. PastOf(call[t].local, exch'[o]) /\ call[t].local.state # "REJECTED"
  BY <1>2, <1>3, <1>4 DEF Faithful, NeverPlaced, ExchangeOrder, ExchangeState,
     OpenAtExchange, Absent
<1>6. PastOf(exch'[o], exch'[o])
  BY QuantityAssumption DEF PastOf, ExchangeOrder
<1>7. exch'[o].state = "FILLED" => exch'[o].cum = Quantity
  BY <1>1, ExchangeStaysSound DEF ExchangeIsSound, StateAfterTrade
<1>8. exch'[o] # Absent
  BY DEF ExchangeOrder, ExchangeState, OpenAtExchange, Absent
<1>9. SnapshotIsNewer(call[t])'
  BY <1>2, <1>5, <1>6, <1>7, <1>8 DEF SnapshotIsNewer
<1>10. Faithful(call[t].local, call[t].order)'
  <2> DEFINE v == call[t].local
  <2>1. ASSUME NEW w \in Order(Quantity), w = v PROVE Faithful(w, o)'
    BY <1>4, <2>1
  <2> QED BY <1>2, <1>3, <2>1 DEF Faithful, NeverPlaced
<1>11. db'[o] # Absent
  BY <1>1, <1>3, RowsPersist
<1> QED BY <1>1, <1>2, <1>9, <1>10, <1>11 DEF CallIsFaithful

LEMMA OtherAnswerIsFaithful ==
    ASSUME EngineInvariant, [Next]_vars, NEW t \in Threads, Busy(t),
           NEW answer \in {"rejected", "absent", "error"},
           AnswerCall(t, answer, Absent),
           answer = "rejected" =>
               /\ call[t].op = "submit" /\ exch'[call[t].order] = Absent
               /\ \A r \in requests' : r.op = "submit" => r.order # call[t].order
    PROVE  CallIsFaithful(call[t])'
<1>1. call[t] \in Call /\ CallIsFaithful(call[t]) /\ call \in [Threads -> {Idle} \cup Call]
  BY BusyThreadIsInACall DEF EngineInvariant, CallsAreFaithful, TypeOK
<1>2. /\ call'[t].op = call[t].op /\ call'[t].order = call[t].order
      /\ call'[t].local = call[t].local /\ call'[t].answer = answer
  BY <1>1 DEF AnswerCall, Call
<1>3. ASSUME NEW c \in Call, c = call[t]
      PROVE  /\ db'[c.order] # Absent /\ Faithful(c.local, c.order)'
             /\ c.op = "submit" => c.local.state = "SUBMITTING"
             /\ c.op = "cancel" => c.local.state = "PENDING_CANCEL"
  BY <1>1, <1>3, WaitingCallStaysFaithful DEF CallIsFaithful
<1>4. Faithful(call[t].local, call[t].order)'
  BY <1>1, <1>2, <1>3 DEF Faithful, NeverPlaced
<1>5. answer = "rejected" => call[t].op = "submit" /\ NeverPlaced(call[t].order)'
  BY <1>2 DEF NeverPlaced
<1> QED BY <1>1, <1>2, <1>3, <1>4, <1>5 DEF CallIsFaithful

LEMMA CallsStayFaithful ==
    ASSUME EngineInvariant, [Next]_vars
    PROVE  CallsAreFaithful'
<1> SUFFICES ASSUME NEW t \in Threads, Busy(t)' PROVE CallIsFaithful(call[t])'
  BY DEF CallsAreFaithful
<1>0. /\ TypeOK /\ call \in [Threads -> {Idle} \cup Call] /\ db \in [Orders -> LocalOrder]
  BY DEF EngineInvariant, TypeOK
<1>1. CASE call'[t] = call[t]
  <2>1. Busy(t) /\ call[t] \in Call /\ CallIsFaithful(call[t])
    BY <1>0, <1>1, BusyThreadIsInACall DEF Busy, EngineInvariant, CallsAreFaithful
  <2>2. ASSUME NEW c \in Call, c = call[t] PROVE CallIsFaithful(c)'
    BY <2>1, <2>2, WaitingCallStaysFaithful
  <2> QED BY <1>1, <2>1, <2>2 DEF CallIsFaithful, SnapshotIsNewer, Faithful, NeverPlaced
<1> SUFFICES ASSUME call'[t] # call[t] PROVE CallIsFaithful(call[t])'
  BY <1>1
<1>2. ~StopEngine
  BY DEF StopEngine, Busy, Idle
<1>3. ASSUME NEW u \in Threads, NEW o \in Orders, Begin(u, o)
      PROVE  CallIsFaithful(call[t])'
  <2>1. CASE BeginSubmit(u, o)
    <3>1. db'[o] = [state |-> "SUBMITTING", cum |-> 0]
      BY <1>0, <2>1, SubmitRequestedRow DEF BeginSubmit, Commit
    <3>2. t = u /\ call'[t] = Calling("submit", o, db'[o])
      BY <1>0, <2>1, <3>1, SubmitRequestedRow DEF BeginSubmit
    <3> QED BY <3>1, <3>2, NewCallIsFaithful DEF Absent
  <2>2. CASE BeginCancel(u, o)
    <3>1. db[o] \in Order(Quantity)
      BY <1>0, <2>2 DEF BeginCancel, LocalOrder
    <3>2. db'[o] = [state |-> "PENDING_CANCEL", cum |-> db[o].cum]
      BY <1>0, <2>2, <3>1, CancelRequestedRow DEF BeginCancel, Commit
    <3>3. t = u /\ call'[t] = Calling("cancel", o, db'[o])
      BY <1>0, <2>2, <3>1, <3>2, CancelRequestedRow DEF BeginCancel
    <3> QED BY <3>2, <3>3, NewCallIsFaithful DEF Absent
  <2>3. CASE BeginReconcile(u, o)
    <3>1. t = u /\ call'[t] = Calling("query", o, db'[o]) /\ db'[o] # Absent
      BY <1>0, <2>3 DEF BeginReconcile
    <3> QED BY <3>1, NewCallIsFaithful
  <2> QED BY <1>3, <2>1, <2>2, <2>3 DEF Begin
<1>4. ASSUME NEW u \in Threads, Finish(u) PROVE FALSE
  <2>1. ASSUME NEW order, Return(u, order) PROVE FALSE
    BY <1>0, <2>1 DEF Return, Busy, Idle
  <2>2. ASSUME Raise(u) PROVE FALSE
    BY <1>0, <1>2, <2>2 DEF Raise, Busy, Idle
  <2> QED BY <1>4, <2>1, <2>2
          DEF Finish, ApplySnapshot, ApplyRejection, ApplyAbsence, ApplyError
<1>5. ASSUME NEW u \in Threads, TimeOut(u) PROVE CallIsFaithful(call[t])'
  <2>1. call[u] \in Call /\ CallIsFaithful(call[u])
    BY <1>0, <1>5, BusyThreadIsInACall DEF TimeOut, EngineInvariant, CallsAreFaithful
  <2> DEFINE o == call[u].order
             local == call[u].local
  <2>2. o \in Orders /\ local \in Order(Quantity)
        /\ local.state \in {"SUBMITTING", "PENDING_CANCEL"}
    BY <1>5, <2>1 DEF TimeOut, CallIsFaithful, Call
  <2>3. db'[o] = [state |-> "UNKNOWN", cum |-> local.cum]
    BY <1>0, <1>5, <2>2, TimedOutRow DEF TimeOut, Commit
  <2>4. t = u /\ call'[t] = Calling("query", o, db'[o])
    BY <1>0, <1>5, <2>2, <2>3, TimedOutRow DEF TimeOut
  <2>5. ASSUME NEW p \in Orders, p = o PROVE CallIsFaithful(call[t])'
    BY <2>3, <2>4, <2>5, NewCallIsFaithful DEF Absent
  <2> QED BY <2>2, <2>5
<1>6. ASSUME NEW r \in requests, HandleSubmit(r) PROVE CallIsFaithful(call[t])'
  <2>1. /\ r.order \in Orders /\ r.op = "submit" /\ exch[r.order] = Absent
        /\ requests' = requests \ {r}
        /\ \A q \in requests : q.op = "submit" /\ q.order = r.order => q = r
    BY <1>6, SubmitPlacesOnce DEF EngineInvariant, SubmitsAreUnique
  <2>2. CASE Answer(r, "rejected", Absent) /\ exch' = exch
    <3>1. t = r.from /\ Busy(t) /\ Request(t) = r /\ AnswerCall(t, "rejected", Absent)
      BY <1>0, <2>2 DEF Answer, Awaits, AnswerCall
    <3>2. call[t].op = "submit" /\ call[t].order = r.order
      BY <2>1, <3>1 DEF Request
    <3>3. exch'[call[t].order] = Absent
          /\ \A q \in requests' : q.op = "submit" => q.order # call[t].order
      BY <2>1, <2>2, <3>2
    <3> QED BY <3>1, <3>2, <3>3, OtherAnswerIsFaithful
  <2>3. CASE \E s \in Acceptance : exch' = [exch EXCEPT ![r.order] = s]
                                   /\ Answer(r, "snapshot", s)
    <3>1. PICK s \in Acceptance : exch' = [exch EXCEPT ![r.order] = s]
                                  /\ Answer(r, "snapshot", s)
      BY <2>3
    <3>2. t = r.from /\ Busy(t) /\ Request(t) = r /\ AnswerCall(t, "snapshot", s)
      BY <1>0, <3>1 DEF Answer, Awaits, AnswerCall
    <3>3. exch'[call[t].order] = s /\ s \in ExchangeOrder
      BY <2>1, <3>1, <3>2, AcceptanceIsAnExchangeOrder
         DEF Request, EngineInvariant, TypeOK
    <3> QED BY <3>2, <3>3, SnapshotAnswerIsFaithful
  <2> QED BY <1>6, <2>2, <2>3 DEF HandleSubmit
<1>7. ASSUME NEW r \in requests, HandleCancel(r) PROVE CallIsFaithful(call[t])'
  <2>1. r.order \in Orders /\ exch \in [Orders -> ExchangeOrder \cup {Absent}]
    BY <1>0 DEF TypeOK, SideEffect
  <2>2. CASE exch[r.order].state \in OpenAtExchange
    <3> DEFINE s == [exch[r.order] EXCEPT !.state = "CANCELED"]
    <3>1. exch[r.order] \in ExchangeOrder
      BY <2>1, <2>2 DEF OpenAtExchange, Absent
    <3>2. s \in ExchangeOrder
      BY <3>1 DEF ExchangeOrder, ExchangeState
    <3>3. exch' = [exch EXCEPT ![r.order] = s] /\ Answer(r, "snapshot", s)
      BY <1>7, <2>2 DEF HandleCancel
    <3> HIDE DEF s
    <3>4. t = r.from /\ Busy(t) /\ Request(t) = r /\ AnswerCall(t, "snapshot", s)
      BY <1>0, <3>3 DEF Answer, Awaits, AnswerCall
    <3>5. exch'[call[t].order] = s
      BY <2>1, <3>3, <3>4 DEF Request
    <3> QED BY <3>2, <3>4, <3>5, SnapshotAnswerIsFaithful
  <2>3. CASE exch[r.order].state \notin OpenAtExchange
    <3>1. Answer(r, "error", Absent)
      BY <1>7, <2>3 DEF HandleCancel
    <3>2. Busy(t) /\ AnswerCall(t, "error", Absent)
      BY <1>0, <3>1 DEF Answer, Awaits, AnswerCall
    <3> QED BY <3>2, OtherAnswerIsFaithful
  <2> QED BY <2>2, <2>3
<1>8. ASSUME NEW u \in Threads, HandleQuery(u) PROVE CallIsFaithful(call[t])'
  <2>1. Busy(u) /\ call[u] \in Call
    BY <1>0, <1>8, BusyThreadIsInACall DEF HandleQuery
  <2>2. exch[call[u].order] \in ExchangeOrder \cup {Absent} /\ exch' = exch
    BY <1>8, <2>1 DEF HandleQuery, worldVars, EngineInvariant, TypeOK, Call
  <2>3. t = u
    BY <1>0, <1>8 DEF HandleQuery, AnswerCall
  <2>4. CASE exch[call[u].order] = Absent
    <3>1. AnswerCall(t, "absent", Absent)
      BY <1>8, <2>3, <2>4 DEF HandleQuery
    <3> QED BY <2>1, <2>3, <3>1, OtherAnswerIsFaithful
  <2>5. CASE exch[call[u].order] # Absent
    <3>1. AnswerCall(t, "snapshot", exch'[call[t].order])
      BY <1>8, <2>2, <2>3, <2>5 DEF HandleQuery
    <3> QED BY <2>1, <2>2, <2>3, <2>5, <3>1, SnapshotAnswerIsFaithful
  <2> QED BY <2>4, <2>5
<1>9. ASSUME NEW o \in Orders, ExchangeFills(o) \/ ExchangeEnds(o) PROVE FALSE
  BY <1>9 DEF ExchangeFills, ExchangeEnds
<1>10. CASE Network
  <2>1. PICK u \in Threads : CallFails(u)
    BY <1>10 DEF Network, DropRequest, Redeliver, Connect, Disconnect
  <2>2. Busy(u) /\ t = u
    BY <1>0, <2>1 DEF CallFails, AnswerCall
  <2>3. call[t] \in Call
    BY <1>0, <2>2, BusyThreadIsInACall
  <2>4. CASE call[t].op = "submit"
    <3>1. Request(t) \in requests /\ requests' = requests \ {Request(t)} /\ exch' = exch
      BY <2>1, <2>2, <2>4 DEF CallFails, worldVars
    <3>2. Request(t).op = "submit" /\ Request(t).order = call[t].order
      BY <2>4 DEF Request
    <3>3. exch[call[t].order] = Absent /\ \A q \in requests :
             q.op = "submit" /\ q.order = call[t].order => q = Request(t)
      BY <3>1, <3>2 DEF EngineInvariant, SubmitsAreUnique
    <3>4. AnswerCall(t, "rejected", Absent)
      BY <2>1, <2>2, <2>4 DEF CallFails
    <3>5. exch'[call[t].order] = Absent /\ \A q \in requests' :
             q.op = "submit" => q.order # call[t].order
      BY <3>1, <3>3
    <3> QED BY <2>2, <2>4, <3>4, <3>5, OtherAnswerIsFaithful
  <2>5. CASE call[t].op # "submit"
    <3>1. AnswerCall(t, "error", Absent)
      BY <2>1, <2>2, <2>5 DEF CallFails
    <3> QED BY <2>2, <3>1, OtherAnswerIsFaithful
  <2> QED BY <2>4, <2>5
<1>11. CASE Runtime
  BY <1>2, <1>11 DEF Runtime, ConsumeEvent, HandleEvent, StartSweep, EndSweep, Crash,
                     Restart
<1>12. CASE UNCHANGED vars
  BY <1>12 DEF vars
<1> QED BY <1>3, <1>4, <1>5, <1>6, <1>7, <1>8, <1>9, <1>10, <1>11, <1>12
        DEF Next, Exchange

LEMMA ExchangeRemembers ==
    ASSUME EngineInvariant, [Next]_vars, NEW o \in Orders, exch[o] # Absent
    PROVE  exch'[o] # Absent
<1>1. ASSUME NEW r \in requests, HandleSubmit(r) PROVE exch'[o] = exch[o]
  BY <1>1, SubmitPlacesOnce DEF EngineInvariant, TypeOK
<1>2. ASSUME NEW r \in requests, HandleCancel(r), exch'[o] # exch[o]
      PROVE  exch'[o] # Absent
  BY <1>2, CancelEndsAnOpenOrder DEF Absent
<1>3. ASSUME NEW o2 \in Orders, ExchangeFills(o2) \/ ExchangeEnds(o2), exch'[o] # exch[o]
      PROVE  exch'[o] # Absent
  BY <1>3, ExchangeMovesAnOpenOrder DEF Absent, StateAfterTrade
<1>4. ASSUME NEW t \in Threads, HandleQuery(t) PROVE exch'[o] = exch[o]
  BY <1>4 DEF HandleQuery, worldVars
<1> QED BY <1>1, <1>2, <1>3, <1>4, OthersLeaveTheExchange DEF Exchange

LEMMA DeliveryStaysFaithful ==
    ASSUME EngineInvariant, [Next]_vars, NEW d \in Delivery, DeliveryIsFaithful(d)
    PROVE  DeliveryIsFaithful(d)'
<1> DEFINE o == d.order
<1>1. o \in Orders /\ d.event.cum \in Nat
  BY QuantityAssumption DEF Delivery, Event
<1>2. TypeOK /\ TypeOK'
  BY NextTypes DEF EngineInvariant
<1>3. exch[o].cum \in Nat /\ exch'[o].cum \in Nat
  BY <1>1, <1>2, FillsAreNaturals DEF TypeOK
<1>4. PastOf(exch[o], exch'[o]) /\ exch'[o] # Absent
  BY <1>1, ExchangeAdvances, ExchangeRemembers DEF DeliveryIsFaithful
<1>5. d.event.cum <= exch'[o].cum
  BY <1>1, <1>3, <1>4 DEF PastOf, DeliveryIsFaithful
<1>6. d.event.kind \in {"CANCELED", "EXPIRED"} =>
          exch'[o] = [state |-> d.event.kind, cum |-> d.event.cum]
  BY <1>4 DEF PastOf, Final, DeliveryIsFaithful
<1>7. d.event.kind = "TRADE" /\ d.event.cum = Quantity =>
          exch'[o] = [state |-> "FILLED", cum |-> d.event.cum]
  BY <1>4 DEF PastOf, Final, DeliveryIsFaithful
<1> QED BY <1>4, <1>5, <1>6, <1>7 DEF DeliveryIsFaithful

(* What the exchange emits about an order is what it has just done.        *)
LEMMA EmissionIsFaithful ==
    ASSUME EngineInvariant, [Next]_vars, NEW o \in Orders, NEW events \in Seq(Event),
           Emit(o, events), exch'[o] # Absent,
           \A j \in 1 .. Len(events) :
               /\ events[j].cum <= exch'[o].cum
               /\ events[j].kind \in {"CANCELED", "EXPIRED"} =>
                      exch'[o] = [state |-> events[j].kind, cum |-> events[j].cum]
               /\ events[j].kind = "TRADE" /\ events[j].cum = Quantity =>
                      exch'[o] = [state |-> "FILLED", cum |-> events[j].cum]
    PROVE  StreamIsFaithful'
<1> SUFFICES ASSUME NEW i \in 1 .. Len(wire') PROVE DeliveryIsFaithful(wire[i])'
  BY DEF StreamIsFaithful
<1>1. TypeOK /\ wire \in Seq(Delivery)
  BY DEF EngineInvariant, TypeOK
<1>2. CASE i \in 1 .. Len(wire) /\ wire'[i] = wire[i]
  <2>1. wire[i] \in Delivery /\ DeliveryIsFaithful(wire[i])
    BY <1>1, <1>2, ElementOfSeq DEF EngineInvariant, StreamIsFaithful
  <2>2. ASSUME NEW d \in Delivery, d = wire[i] PROVE DeliveryIsFaithful(d)'
    BY <2>1, <2>2, DeliveryStaysFaithful
  <2> QED BY <1>2, <2>1, <2>2 DEF DeliveryIsFaithful
<1>3. CASE \E j \in 1 .. Len(events) : wire'[i].order = o /\ wire'[i].event = events[j]
  BY <1>3 DEF DeliveryIsFaithful
<1> QED BY <1>1, <1>2, <1>3, EmitExtendsStream

LEMMA OneEmissionIsFaithful ==
    ASSUME EngineInvariant, [Next]_vars, NEW o \in Orders, NEW event \in Event,
           Emit(o, <<event>>), exch'[o] # Absent,
           event.cum <= exch'[o].cum,
           event.kind \in {"CANCELED", "EXPIRED"} =>
               exch'[o] = [state |-> event.kind, cum |-> event.cum],
           event.kind = "TRADE" /\ event.cum = Quantity =>
               exch'[o] = [state |-> "FILLED", cum |-> event.cum]
    PROVE  StreamIsFaithful'
<1>1. /\ <<event>> \in Seq(Event)
      /\ \A j \in 1 .. Len(<<event>>) : <<event>>[j] = event
  OBVIOUS
<1> DEFINE events == <<event>>
<1> HIDE DEF events
<1>2. events \in Seq(Event) /\ Emit(o, events) /\ \A j \in 1 .. Len(events) : events[j] = event
  BY <1>1 DEF events
<1> QED BY <1>2, EmissionIsFaithful

LEMMA StreamStaysFaithful ==
    ASSUME EngineInvariant, [Next]_vars
    PROVE  StreamIsFaithful'
<1>0. /\ TypeOK /\ wire \in Seq(Delivery) /\ Len(wire) \in Nat
      /\ exch \in [Orders -> ExchangeOrder \cup {Absent}]
  BY LenProperties DEF EngineInvariant, TypeOK
<1>1. ASSUME \A i \in 1 .. Len(wire') : \E j \in 1 .. Len(wire) : wire'[i] = wire[j]
      PROVE  StreamIsFaithful'
  <2> SUFFICES ASSUME NEW i \in 1 .. Len(wire') PROVE DeliveryIsFaithful(wire[i])'
    BY DEF StreamIsFaithful
  <2>1. PICK j \in 1 .. Len(wire) : wire'[i] = wire[j]
    BY <1>1
  <2>2. wire[j] \in Delivery /\ DeliveryIsFaithful(wire[j])
    BY <1>0, ElementOfSeq DEF EngineInvariant, StreamIsFaithful
  <2>3. ASSUME NEW d \in Delivery, d = wire[j] PROVE DeliveryIsFaithful(d)'
    BY <2>2, <2>3, DeliveryStaysFaithful
  <2> QED BY <2>1, <2>2, <2>3 DEF DeliveryIsFaithful
<1>2. CASE wire' = wire
  BY <1>1, <1>2
<1>3. CASE wire' = <<>>
  BY <1>1, <1>3
<1>4. ASSUME wire' = Tail(wire), wire # <<>> PROVE StreamIsFaithful'
  <2>1. /\ wire' \in Seq(Delivery) /\ Len(wire') = Len(wire) - 1
        /\ \A i \in 1 .. Len(wire') : wire'[i] = wire[i + 1]
    BY <1>0, <1>4, HeadTailProperties
  <2>2. \A i \in 1 .. Len(wire') : i + 1 \in 1 .. Len(wire)
    BY <1>0, <2>1
  <2> QED BY <1>1, <2>1, <2>2
<1>5. ASSUME NEW r \in requests, HandleSubmit(r) PROVE StreamIsFaithful'
  <2>1. r.order \in Orders
    BY <1>5, SubmitPlacesOnce
  <2>2. CASE wire' = wire
    BY <1>2, <2>2
  <2>3. CASE wire' # wire
    <3> DEFINE new == [state |-> "NEW", cum |-> 0]
               fill(s) == [state |-> StateAfterTrade(Quantity, s.cum), cum |-> s.cum]
               events(s) == <<ExchangeEvent("ACKNOWLEDGED", new)>>
                            \o (IF s.cum > 0
                                THEN <<ExchangeEvent("TRADE", fill(s))>> ELSE <<>>)
                            \o (IF s.state = "EXPIRED"
                                THEN <<ExchangeEvent("EXPIRED", s)>> ELSE <<>>)
    <3>1. PICK s \in Acceptance :
             exch' = [exch EXCEPT ![r.order] = s] /\ Emit(r.order, events(s))
      BY <1>5, <2>3 DEF HandleSubmit
    <3>2. /\ events(s) \in Seq(Event)
          /\ \A j \in 1 .. Len(events(s)) :
                \/ events(s)[j].kind = "ACKNOWLEDGED" /\ events(s)[j].cum = 0
                \/ events(s)[j].kind = "TRADE" /\ events(s)[j].cum = s.cum
                \/ /\ events(s)[j].kind = "EXPIRED" /\ events(s)[j].cum = s.cum
                   /\ s.state = "EXPIRED"
      <4>1. ASSUME NEW all, all = events(s)
            PROVE  /\ all \in Seq(Event)
                   /\ \A j \in 1 .. Len(all) :
                         \/ all[j].kind = "ACKNOWLEDGED" /\ all[j].cum = 0
                         \/ all[j].kind = "TRADE" /\ all[j].cum = s.cum
                         \/ /\ all[j].kind = "EXPIRED" /\ all[j].cum = s.cum
                            /\ s.state = "EXPIRED"
        BY <4>1, SubmitEvents, SMTT(30)
      <4> HIDE DEF events
      <4> QED BY <4>1
    <3> HIDE DEF events
    <3>3. exch'[r.order] = s
      BY <1>0, <2>1, <3>1
    <3>4. /\ s \in ExchangeOrder /\ s # Absent
          /\ s.cum \in 0 .. Quantity /\ s = [state |-> s.state, cum |-> s.cum]
          /\ s.cum = Quantity => s.state = "FILLED"
      BY QuantityAssumption
         DEF Acceptance, ExchangeOrder, ExchangeState, OpenAtExchange, Absent,
             StateAfterTrade
    <3>5. ASSUME NEW j \in 1 .. Len(events(s))
          PROVE  /\ events(s)[j].cum <= s.cum
                 /\ events(s)[j].kind \in {"CANCELED", "EXPIRED"} =>
                        s = [state |-> events(s)[j].kind, cum |-> events(s)[j].cum]
                 /\ events(s)[j].kind = "TRADE" /\ events(s)[j].cum = Quantity =>
                        s = [state |-> "FILLED", cum |-> events(s)[j].cum]
      BY <3>2, <3>4
    <3> QED BY <2>1, <3>1, <3>2, <3>3, <3>4, <3>5, EmissionIsFaithful
  <2> QED BY <2>2, <2>3
<1>6. ASSUME NEW r \in requests, HandleCancel(r) PROVE StreamIsFaithful'
  <2>1. CASE exch[r.order].state \in OpenAtExchange
    <3> DEFINE s == [exch[r.order] EXCEPT !.state = "CANCELED"]
               event == ExchangeEvent("CANCELED", s)
    <3>1. r.order \in Orders /\ exch[r.order] \in ExchangeOrder
      BY <1>0, <2>1 DEF TypeOK, SideEffect, OpenAtExchange, Absent
    <3>2. /\ s \in ExchangeOrder /\ s # Absent /\ s.state = "CANCELED"
          /\ s = [state |-> "CANCELED", cum |-> s.cum] /\ s.cum \in Nat
      BY <3>1, QuantityAssumption DEF ExchangeOrder, ExchangeState, Absent
    <3>3. exch'[r.order] = s /\ Emit(r.order, <<event>>)
      BY <1>0, <1>6, <2>1, <3>1 DEF HandleCancel
    <3>4. event \in Event /\ event.kind = "CANCELED" /\ event.cum = s.cum
      BY <3>2, ExchangeEventIsAnEvent DEF ExchangeEvent
    <3> HIDE DEF s, event
    <3>5. event.cum <= exch'[r.order].cum
      BY <3>2, <3>3, <3>4
    <3> QED BY <3>1, <3>2, <3>3, <3>4, <3>5, OneEmissionIsFaithful
  <2>2. CASE exch[r.order].state \notin OpenAtExchange
    BY <1>2, <1>6, <2>2 DEF HandleCancel
  <2> QED BY <2>1, <2>2
<1>7. ASSUME NEW o \in Orders, ExchangeFills(o) PROVE StreamIsFaithful'
  <2>1. PICK cum \in (exch[o].cum + 1) .. Quantity :
           LET s == [state |-> StateAfterTrade(Quantity, cum), cum |-> cum]
           IN  exch' = [exch EXCEPT ![o] = s] /\ Emit(o, <<ExchangeEvent("TRADE", s)>>)
    BY <1>7 DEF ExchangeFills
  <2> DEFINE s == [state |-> StateAfterTrade(Quantity, cum), cum |-> cum]
             event == ExchangeEvent("TRADE", s)
  <2>2. exch[o] \in ExchangeOrder
    BY <1>0, <1>7 DEF ExchangeFills, OpenAtExchange, Absent
  <2>3. s \in ExchangeOrder /\ s # Absent /\ s.cum \in Nat
        /\ (s.cum = Quantity => s = [state |-> "FILLED", cum |-> s.cum])
    BY <2>2, QuantityAssumption
       DEF ExchangeOrder, ExchangeState, OpenAtExchange, Absent, StateAfterTrade
  <2>4. exch'[o] = s /\ Emit(o, <<event>>)
    BY <1>0, <2>1
  <2>5. event \in Event /\ event.kind = "TRADE" /\ event.cum = s.cum
    BY <2>3, ExchangeEventIsAnEvent DEF ExchangeEvent
  <2> HIDE DEF s, event
  <2>6. event.cum <= exch'[o].cum
    BY <2>3, <2>4, <2>5
  <2> QED BY <2>3, <2>4, <2>5, <2>6, OneEmissionIsFaithful
<1>8. ASSUME NEW o \in Orders, ExchangeEnds(o) PROVE StreamIsFaithful'
  <2>1. PICK state \in {"CANCELED", "EXPIRED"} :
           LET s == [exch[o] EXCEPT !.state = state]
           IN  exch' = [exch EXCEPT ![o] = s] /\ Emit(o, <<ExchangeEvent(state, s)>>)
    BY <1>8 DEF ExchangeEnds
  <2> DEFINE s == [exch[o] EXCEPT !.state = state]
             event == ExchangeEvent(state, s)
  <2>2. exch[o] \in ExchangeOrder
    BY <1>0, <1>8 DEF ExchangeEnds, OpenAtExchange, Absent
  <2>3. /\ s \in ExchangeOrder /\ s # Absent /\ s.cum \in Nat
        /\ s = [state |-> state, cum |-> s.cum]
    BY <2>2, QuantityAssumption DEF ExchangeOrder, ExchangeState, Absent
  <2>4. exch'[o] = s /\ Emit(o, <<event>>)
    BY <1>0, <2>1
  <2>5. event \in Event /\ event.kind = state /\ event.cum = s.cum
    BY <2>3, ExchangeEventIsAnEvent DEF ExchangeEvent
  <2> HIDE DEF s, event
  <2>6. event.cum <= exch'[o].cum
    BY <2>3, <2>4, <2>5
  <2> QED BY <2>3, <2>4, <2>5, <2>6, OneEmissionIsFaithful
<1>9. ASSUME NEW t \in Threads, NEW o \in Orders, Begin(t, o) PROVE wire' = wire
  BY <1>9 DEF Begin, BeginSubmit, BeginCancel, BeginReconcile
<1>10. ASSUME NEW t \in Threads, Finish(t) \/ TimeOut(t) \/ HandleQuery(t)
       PROVE  wire' = wire \/ wire' = <<>>
  BY <1>10
     DEF Finish, ApplySnapshot, ApplyRejection, ApplyAbsence, ApplyError, Return,
         Raise, StopEngine, TimeOut, HandleQuery
<1>11. CASE Network
  <2>1. CASE Redeliver
    <3>1. Head(wire) \in Delivery /\ Head(wire) = wire[1] /\ 1 \in 1 .. Len(wire)
      BY <1>0, <2>1, HeadTailProperties, EmptySeq DEF Redeliver
    <3>2. <<Head(wire)>> \in Seq(Delivery) /\ Len(<<Head(wire)>>) = 1
          /\ <<Head(wire)>>[1] = wire[1]
      BY <3>1
    <3>3. wire' = <<Head(wire)>> \o wire
      BY <2>1 DEF Redeliver
    <3> DEFINE first == <<Head(wire)>>
    <3> HIDE DEF first
    <3>4. /\ Len(wire') = 1 + Len(wire)
          /\ \A i \in 1 .. 1 + Len(wire) :
                wire'[i] = IF i <= 1 THEN wire[1] ELSE wire[i - 1]
      BY <1>0, <3>2, <3>3, ConcatProperties DEF first
    <3>5. ASSUME NEW i \in 1 .. Len(wire')
          PROVE  \E j \in 1 .. Len(wire) : wire'[i] = wire[j]
      <4>1. CASE i = 1
        BY <1>0, <3>1, <3>4, <4>1
      <4>2. CASE i # 1
        <5>1. i - 1 \in 1 .. Len(wire) /\ ~(i <= 1) /\ i \in 1 .. 1 + Len(wire)
          BY <1>0, <3>4, <4>2
        <5> QED BY <3>4, <5>1
      <4> QED BY <4>1, <4>2
    <3> QED BY <1>1, <3>5
  <2>2. CASE Disconnect
    <3>1. PICK n \in 0 .. Len(wire) : wire' = SubSeq(wire, 1, n)
      BY <2>2 DEF Disconnect
    <3>2. \A i \in 1 .. n : wire[i] \in Delivery
      BY <1>0, ElementOfSeq
    <3>3. Len(wire') = n /\ \A i \in 1 .. n : wire'[i] = wire[i]
      BY <1>0, <3>1, <3>2, SubSeqProperties
    <3> QED BY <1>0, <1>1, <3>3
  <2>3. CASE wire' = wire
    BY <1>2, <2>3
  <2> QED BY <1>11, <2>1, <2>2, <2>3 DEF Network, DropRequest, CallFails, Connect
<1>12. CASE Runtime
  <2>1. \/ wire' = wire \/ wire' = <<>>
        \/ wire' = Tail(wire) /\ wire # <<>>
    BY <1>12 DEF Runtime, ConsumeEvent, HandleEvent, StartSweep, EndSweep, Crash,
                 Restart, StopEngine
  <2> QED BY <1>2, <1>3, <1>4, <2>1
<1>13. CASE UNCHANGED vars
  BY <1>2, <1>13 DEF vars
<1> QED BY <1>2, <1>3, <1>5, <1>6, <1>7, <1>8, <1>9, <1>10, <1>11, <1>12, <1>13
        DEF Next, Exchange

-----------------------------------------------------------------------------
(* The theorems.                                                           *)

LEMMA InvariantHoldsInitially == Init => EngineInvariant
<1> SUFFICES ASSUME Init PROVE EngineInvariant
  OBVIOUS
<1>1. TypeOK
  BY InitTypes
<1>2. RowsAreFaithful /\ PersistedFirst /\ SubmitsAreUnique
  BY DEF Init, RowsAreFaithful, PersistedFirst, SubmitsAreUnique
<1>3. ExchangeIsSound
  BY DEF Init, ExchangeIsSound, OpenAtExchange, Absent
<1>4. CallsAreFaithful
  BY DEF Init, CallsAreFaithful, Busy, Idle
<1>5. StreamIsFaithful
  BY DEF Init, StreamIsFaithful
<1> QED BY <1>1, <1>2, <1>3, <1>4, <1>5 DEF EngineInvariant

LEMMA InvariantIsInductive == EngineInvariant /\ [Next]_vars => EngineInvariant'
BY NextTypes, RowsStayFaithful, StaysPersistedFirst, ExchangeStaysSound,
   SubmitsStayUnique, CallsStayFaithful, StreamStaysFaithful DEF EngineInvariant

LEMMA EngineInvariantHolds == Spec => []EngineInvariant
<1>1. Init => EngineInvariant
  BY InvariantHoldsInitially
<1>2. EngineInvariant /\ [Next]_vars => EngineInvariant'
  BY InvariantIsInductive
<1> QED BY <1>1, <1>2, PTL DEF Spec

(* The engine never records a fill the exchange does not have, whatever is *)
(* lost, late, duplicated or stale, and whatever tools run beside it.      *)
THEOREM RecordedFillsAreReal == Spec => []FillsAreReal
<1>1. EngineInvariant => FillsAreReal
  <2> SUFFICES ASSUME EngineInvariant, NEW o \in Orders PROVE db[o].cum <= exch[o].cum
    BY DEF FillsAreReal
  <2>1. CASE db[o] = Absent
    <3>1. exch[o] = Absent
      BY <2>1 DEF EngineInvariant, PersistedFirst
    <3> QED BY <2>1, <3>1 DEF Absent
  <2>2. CASE db[o] # Absent
    BY <2>2 DEF EngineInvariant, RowsAreFaithful, Faithful, PastOf
  <2> QED BY <2>1, <2>2
<1> QED BY <1>1, EngineInvariantHolds, PTL

(* A terminal row says how the order ended at the exchange, and a rejected *)
(* order will never be placed.                                             *)
THEOREM TerminalRowsAreFinal == Spec => []TerminalIsFinal
<1>1. EngineInvariant => TerminalIsFinal
  <2> SUFFICES ASSUME EngineInvariant, NEW o \in Orders
               PROVE  /\ db[o].state \in Final => db[o] = exch[o]
                      /\ db[o].state = "REJECTED" => NeverPlaced(o)
    BY DEF TerminalIsFinal, Final, NeverPlaced
  <2>1. CASE db[o] = Absent
    BY <2>1 DEF Absent, Final
  <2>2. CASE db[o] # Absent
    BY <2>2 DEF EngineInvariant, RowsAreFaithful, Faithful, PastOf
  <2> QED BY <2>1, <2>2
<1> QED BY <1>1, EngineInvariantHolds, PTL

(* A client order id is placed at most once.                               *)
THEOREM OrdersArePlacedOnce == Spec => []AtMostOnePlacement
<1>1. EngineInvariant => AtMostOnePlacement
  BY DEF EngineInvariant, ExchangeIsSound, AtMostOnePlacement
<1> QED BY <1>1, EngineInvariantHolds, PTL

(* The state machine accepts every answer of the exchange.                 *)
THEOREM RestAnswersAreAccepted == Spec => []AnswersAreAccepted
<1>1. EngineInvariant => AnswersAreAccepted
  <2> SUFFICES ASSUME EngineInvariant, NEW t \in Threads, Busy(t),
                      call[t].answer = "snapshot"
               PROVE  Accepts(Quantity, call[t].local, Reconciliation(call[t].seen))
    BY DEF AnswersAreAccepted
  <2> DEFINE local == call[t].local
             seen == call[t].seen
  <2>1. call[t] \in Call /\ CallIsFaithful(call[t])
    BY BusyThreadIsInACall DEF EngineInvariant, CallsAreFaithful
  <2>2. /\ PastOf(local, seen) /\ seen # Absent
        /\ (seen.state = "FILLED" => seen.cum = Quantity)
        /\ local.state \notin {"REJECTED", "CREATED"}
    BY <2>1 DEF CallIsFaithful, SnapshotIsNewer, Faithful
  <2>3. local \in Order(Quantity) /\ seen \in ExchangeOrder
    BY <2>1, <2>2 DEF Call
  <2>4. CASE IsTerminal(local)
    <3>1. local = seen
      BY <2>2, <2>4 DEF PastOf, Final, IsTerminal, TerminalOrderState
    <3> QED BY <2>4, <3>1 DEF Accepts, IsIdempotentTerminalReplay, Reconciliation
  <2>5. CASE ~IsTerminal(local)
    <3>1. local.state \in AtExchange
      BY <2>2, <2>3, <2>5
         DEF Order, OrderState, IsTerminal, TerminalOrderState, AtExchange
    <3>2. seen.cum \in local.cum .. Quantity
      BY <2>2, <2>3, QuantityAssumption DEF PastOf, Order, ExchangeOrder
    <3>3. seen.state \in ReconcilableState
      BY <2>3 DEF ExchangeOrder, ExchangeState, OpenAtExchange, ReconcilableState
    <3>4. ObservedFillIsValid(Quantity, local, Reconciliation(seen))
      BY <3>2 DEF ObservedFillIsValid, Reconciliation
    <3> QED BY <2>2, <2>5, <3>1, <3>3, <3>4 DEF Accepts, AllowedFrom, Reconciliation
  <2> QED BY <2>4, <2>5
<1> QED BY <1>1, EngineInvariantHolds, PTL
-----------------------------------------------------------------------------
(***************************************************************************)
(* The engine implements the ledger while no command line tool runs beside *)
(* it.  An order's lock then makes one thread the only writer of its row,  *)
(* and what a thread read when it took the lock is still the row when it   *)
(* commits: no commit can undo another.  A tool is a process with locks of *)
(* its own, and the two invariants below do not survive it.                *)
(***************************************************************************)

LocksAreExclusive ==
    \A t, u \in Threads :
        Busy(t) /\ Busy(u) /\ call[t].order = call[u].order => t = u

LocalIsRow == \A t \in Threads : Busy(t) => db[call[t].order] = call[t].local

LockInvariant == LocksAreExclusive /\ LocalIsRow

LEMMA BeginTakesTheLock ==
    ASSUME Cli = {}, TypeOK, NEW u \in Threads, NEW o \in Orders, Begin(u, o)
    PROVE  /\ \A t \in Threads : Busy(t) => call[t].order # o
           /\ \A t \in Threads \ {u} : call'[t] = call[t]
           /\ call'[u].order = o /\ call'[u].local = db'[o]
           /\ \A p \in Orders \ {o} : db'[p] = db[p]
<1>1. Threads = Engine /\ call \in [Threads -> {Idle} \cup Call]
      /\ db \in [Orders -> LocalOrder]
  BY DEF Threads, TypeOK
<1>2. ~Locked(o)
  BY <1>1 DEF Begin, BeginSubmit, BeginCancel, BeginReconcile, MayLock
<1>3. \A t \in Threads : Busy(t) => call[t].order # o
  BY <1>1, <1>2 DEF Locked
<1>4. CASE BeginSubmit(u, o)
  BY <1>1, <1>3, <1>4 DEF BeginSubmit, Calling, Commit
<1>5. CASE BeginCancel(u, o)
  BY <1>1, <1>3, <1>5 DEF BeginCancel, Calling, Commit
<1>6. CASE BeginReconcile(u, o)
  BY <1>1, <1>3, <1>6 DEF BeginReconcile, Calling
<1> QED BY <1>4, <1>5, <1>6 DEF Begin

(* The lock of order o was held, and its row was not written but by its    *)
(* holder.                                                                 *)
KeepsItsLock(t) ==
    /\ Busy(t)
    /\ call'[t].order = call[t].order
    /\ db'[call[t].order] = call'[t].local

LEMMA ThreadsStopWithTheEngine ==
    ASSUME Cli = {}, StopEngine, NEW t \in Threads
    PROVE  ~Busy(t)'
BY DEF StopEngine, Threads, Busy, Idle

LEMMA OthersKeepTheirLocks ==
    ASSUME Cli = {}, TypeOK, LockInvariant, NEW u \in Threads,
           Finish(u) \/ TimeOut(u), NEW t \in Threads, Busy(t)'
    PROVE  KeepsItsLock(t)
<1>1. /\ call \in [Threads -> {Idle} \cup Call] /\ Busy(u) /\ ~StopEngine
      /\ db \in [Orders -> LocalOrder]
  <2>1. Busy(u)
    BY DEF Finish, ApplySnapshot, ApplyRejection, ApplyAbsence, ApplyError, TimeOut
  <2> QED BY <2>1, ThreadsStopWithTheEngine DEF TypeOK
<1>2. call[u] \in Call /\ call[u].order \in Orders
  BY <1>1, BusyThreadIsInACall DEF Call
<1>3. CASE TimeOut(u)
  <2>1. CASE t = u
    BY <1>1, <1>2, <1>3, <2>1 DEF TimeOut, Commit, Calling, KeepsItsLock
  <2>2. CASE t # u
    <3>1. call'[t] = call[t] /\ Busy(t)
      BY <1>1, <1>3, <2>2 DEF TimeOut, Busy
    <3>2. call[t].order # call[u].order /\ call[t].order \in Orders
      BY <1>1, <2>2, <3>1, BusyThreadIsInACall DEF LockInvariant, LocksAreExclusive, Call
    <3> QED BY <1>1, <1>2, <1>3, <3>1, <3>2
            DEF TimeOut, Commit, KeepsItsLock, LockInvariant, LocalIsRow
  <2> QED BY <2>1, <2>2
<1>4. CASE Finish(u)
  <2>1. call' = [call EXCEPT ![u] = Idle]
    BY <1>1, <1>4 DEF Finish, ApplySnapshot, ApplyRejection, ApplyAbsence, ApplyError,
                      Return, Raise
  <2>2. t # u /\ call'[t] = call[t] /\ Busy(t)
    BY <1>1, <2>1 DEF Busy, Idle
  <2>3. call[t].order # call[u].order /\ call[t].order \in Orders
    BY <1>1, <2>2, BusyThreadIsInACall DEF LockInvariant, LocksAreExclusive, Call
  <2>4. \A p \in Orders \ {call[u].order} : db'[p] = db[p]
    BY <1>1, <1>2, <1>4
       DEF Finish, ApplySnapshot, ApplyRejection, ApplyAbsence, ApplyError, Commit
  <2> QED BY <2>2, <2>3, <2>4 DEF KeepsItsLock, LockInvariant, LocalIsRow
<1> QED BY <1>3, <1>4

LEMMA LocksAreKept ==
    ASSUME Cli = {}, TypeOK, LockInvariant, [Next]_vars, NEW t \in Threads, Busy(t)',
           ~ \E u \in Threads, o \in Orders : Begin(u, o)
    PROVE  KeepsItsLock(t)
<1>1. /\ call \in [Threads -> {Idle} \cup Call] /\ db \in [Orders -> LocalOrder]
      /\ requests \subseteq SideEffect /\ Threads = Engine /\ ~StopEngine
  BY ThreadsStopWithTheEngine DEF TypeOK, Threads
<1>2. ASSUME Busy(t)
      PROVE  /\ call[t] \in Call /\ call[t].order \in Orders
             /\ db[call[t].order] = call[t].local
  BY <1>1, <1>2, BusyThreadIsInACall DEF Call, LockInvariant, LocalIsRow
<1>3. CASE UNCHANGED <<db, call>>
  BY <1>2, <1>3 DEF KeepsItsLock, Busy
<1>4. ASSUME NEW u \in Threads, NEW answer, NEW seen, AnswerCall(u, answer, seen),
             Busy(u), db' = db
      PROVE  KeepsItsLock(t)
  <2>1. call[u] \in Call
    BY <1>1, <1>4, BusyThreadIsInACall
  <2>2. call'[t].order = call[t].order /\ call'[t].local = call[t].local /\ Busy(t)
    BY <1>1, <1>4, <2>1 DEF AnswerCall, Busy, Call
  <2> QED BY <1>2, <1>4, <2>2 DEF KeepsItsLock
<1>5. ASSUME NEW r \in requests, NEW answer, NEW seen, Answer(r, answer, seen), db' = db
      PROVE  KeepsItsLock(t)
  <2>1. r.from \in Threads
    BY <1>1 DEF SideEffect
  <2> QED BY <1>3, <1>4, <1>5, <2>1 DEF Answer, Awaits
<1>6. CASE Exchange
  <2>1. ASSUME NEW r \in requests, HandleSubmit(r) \/ HandleCancel(r)
        PROVE  KeepsItsLock(t)
    <3>1. db' = db /\ \E answer, seen : Answer(r, answer, seen)
      BY <2>1 DEF HandleSubmit, HandleCancel
    <3> QED BY <1>5, <3>1
  <2>2. ASSUME NEW u \in Threads, HandleQuery(u) PROVE KeepsItsLock(t)
    BY <1>4, <2>2 DEF HandleQuery
  <2>3. ASSUME NEW o \in Orders, ExchangeFills(o) \/ ExchangeEnds(o)
        PROVE  KeepsItsLock(t)
    BY <1>3, <2>3 DEF ExchangeFills, ExchangeEnds
  <2> QED BY <1>6, <2>1, <2>2, <2>3 DEF Exchange
<1>7. CASE Network
  BY <1>3, <1>4, <1>7 DEF Network, DropRequest, CallFails, Redeliver, Connect, Disconnect
<1>8. CASE ConsumeEvent
  <2> DEFINE o == Head(wire).order
  <2>1. call' = call /\ ~Locked(o)
    BY <1>1, <1>8 DEF ConsumeEvent, HandleEvent
  <2>2. Busy(t) /\ call[t].order # o
    BY <1>1, <2>1 DEF Busy, Locked
  <2>3. \A p \in Orders \ {o} : db'[p] = db[p]
    BY <1>1, <1>8 DEF ConsumeEvent, HandleEvent, Commit
  <2> HIDE DEF o
  <2> QED BY <1>2, <2>1, <2>2, <2>3 DEF KeepsItsLock
<1>9. CASE Runtime /\ ~ConsumeEvent
  BY <1>1, <1>3, <1>9 DEF Runtime, StartSweep, EndSweep, Crash, Restart
<1>10. CASE \E u \in Threads : Finish(u) \/ TimeOut(u)
  BY <1>10, OthersKeepTheirLocks
<1>11. CASE UNCHANGED vars
  BY <1>3, <1>11 DEF vars
<1> QED BY <1>6, <1>7, <1>8, <1>9, <1>10, <1>11 DEF Next

LEMMA LockInvariantIsInductive ==
    ASSUME Cli = {}, TypeOK, LockInvariant, [Next]_vars
    PROVE  LockInvariant'
<1>1. CASE ~ \E u \in Threads, o \in Orders : Begin(u, o)
  <2>1. ASSUME NEW t \in Threads, Busy(t)' PROVE KeepsItsLock(t)
    BY <1>1, <2>1, LocksAreKept
  <2> QED BY <2>1 DEF KeepsItsLock, LockInvariant, LocksAreExclusive, LocalIsRow
<1>2. ASSUME NEW u \in Threads, NEW o \in Orders, Begin(u, o)
      PROVE  LockInvariant'
  <2>1. /\ \A t \in Threads : Busy(t) => call[t].order # o
        /\ \A t \in Threads \ {u} : call'[t] = call[t]
        /\ call'[u].order = o /\ call'[u].local = db'[o]
        /\ \A p \in Orders \ {o} : db'[p] = db[p]
    BY <1>2, BeginTakesTheLock
  <2>2. \A t \in Threads : Busy(t) => call[t].order \in Orders
    BY BusyThreadIsInACall DEF Call
  <2> QED BY <2>1, <2>2 DEF LockInvariant, LocksAreExclusive, LocalIsRow, Busy
<1> QED BY <1>1, <1>2

(* A commit writes one row, which was not terminal, and takes no fill back.*)
LEMMA CommitsMoveForward ==
    ASSUME EngineInvariant, LockInvariant, [Next]_vars, NEW o \in Orders,
           db'[o] # db[o]
    PROVE  /\ db' = [db EXCEPT ![o] = db'[o]]
           /\ ~IsTerminal(db[o])
           /\ db[o].cum <= db'[o].cum
<1>0. TypeOK /\ db \in [Orders -> LocalOrder] /\ db[o].cum \in Nat
  BY QuantityAssumption DEF EngineInvariant, TypeOK, LocalOrder, Order, Absent
<1>1. ASSUME NEW t \in Threads, NEW p \in Orders, Begin(t, p)
      PROVE  /\ db' = [db EXCEPT ![o] = db'[o]]
             /\ ~IsTerminal(db[o]) /\ db[o].cum <= db'[o].cum
  <2>1. CASE BeginSubmit(t, p)
    <3>1. o = p /\ db[o] = Absent /\ db' = [db EXCEPT ![o] = db'[o]]
          /\ db'[o] = [state |-> "SUBMITTING", cum |-> 0]
      BY <1>0, <2>1, SubmitRequestedRow DEF BeginSubmit, Commit
    <3> QED BY <3>1 DEF Absent, IsTerminal, TerminalOrderState
  <2>2. CASE BeginCancel(t, p)
    <3>1. /\ o = p /\ db[o] \in Order(Quantity) /\ ~IsTerminal(db[o])
          /\ db' = [db EXCEPT ![o] = db'[o]]
      BY <1>0, <2>2 DEF BeginCancel, Commit, LocalOrder
    <3>2. db'[o] = [state |-> "PENDING_CANCEL", cum |-> db[o].cum]
      BY <1>0, <2>2, <3>1, CancelRequestedRow DEF BeginCancel, Commit
    <3> QED BY <1>0, <3>1, <3>2
  <2>3. CASE BeginReconcile(t, p)
    BY <2>3 DEF BeginReconcile
  <2> QED BY <1>1, <2>1, <2>2, <2>3 DEF Begin
<1>2. ASSUME NEW t \in Threads, Finish(t) \/ TimeOut(t)
      PROVE  /\ db' = [db EXCEPT ![o] = db'[o]]
             /\ ~IsTerminal(db[o]) /\ db[o].cum <= db'[o].cum
  <2>1. Busy(t) /\ call[t] \in Call /\ CallIsFaithful(call[t])
    <3>1. Busy(t)
      BY <1>2 DEF Finish, ApplySnapshot, ApplyRejection, ApplyAbsence, ApplyError, TimeOut
    <3> QED BY <1>0, <3>1, BusyThreadIsInACall DEF EngineInvariant, CallsAreFaithful
  <2> DEFINE local == call[t].local
             seen == call[t].seen
  <2>2. /\ call[t].order \in Orders /\ local \in Order(Quantity)
        /\ seen \in ExchangeOrder \cup {Absent}
        /\ db[call[t].order] = local
    BY <2>1 DEF Call, LockInvariant, LocalIsRow
  <2>3. CASE ApplySnapshot(t)
    <3>1. /\ o = call[t].order /\ Accepts(Quantity, local, Reconciliation(seen))
          /\ db'[o] = Apply(Quantity, local, Reconciliation(seen))
          /\ db' = [db EXCEPT ![o] = db'[o]]
      BY <1>0, <2>2, <2>3 DEF ApplySnapshot, Commit
    <3>2. SnapshotIsNewer(call[t]) /\ seen \in ExchangeOrder
      BY <2>1, <2>2, <2>3 DEF ApplySnapshot, CallIsFaithful, SnapshotIsNewer
    <3>3. db'[o] = seen /\ local.cum <= seen.cum
      BY <2>2, <3>1, <3>2, ReconciledRow DEF SnapshotIsNewer, PastOf
    <3>4. ~IsTerminal(local)
      BY <2>2, <3>1 DEF Apply
    <3> QED BY <2>2, <3>1, <3>3, <3>4
  <2>4. CASE ApplyRejection(t)
    <3>1. local.state = "SUBMITTING"
      BY <2>1, <2>4 DEF ApplyRejection, CallIsFaithful
    <3>2. /\ o = call[t].order /\ db'[o] = [state |-> "REJECTED", cum |-> local.cum]
          /\ db' = [db EXCEPT ![o] = db'[o]]
      BY <1>0, <2>2, <2>4, <3>1, RejectedRow DEF ApplyRejection, Commit
    <3> QED BY <1>0, <2>2, <3>1, <3>2 DEF IsTerminal, TerminalOrderState
  <2>5. CASE TimeOut(t)
    <3>1. local.state \in {"SUBMITTING", "PENDING_CANCEL"}
      BY <2>1, <2>5 DEF TimeOut, CallIsFaithful
    <3>2. /\ o = call[t].order /\ db'[o] = [state |-> "UNKNOWN", cum |-> local.cum]
          /\ db' = [db EXCEPT ![o] = db'[o]]
      BY <1>0, <2>2, <2>5, <3>1, TimedOutRow DEF TimeOut, Commit
    <3> QED BY <1>0, <2>2, <3>1, <3>2 DEF IsTerminal, TerminalOrderState
  <2>6. CASE ApplyAbsence(t) \/ ApplyError(t)
    BY <2>6 DEF ApplyAbsence, ApplyError
  <2> QED BY <1>2, <2>3, <2>4, <2>5, <2>6 DEF Finish
<1>3. CASE ConsumeEvent
  <2> DEFINE d == Head(wire)
  <2>1. d \in Delivery
    BY <1>0, <1>3, HeadTailProperties DEF ConsumeEvent, TypeOK
  <2>2. d.order \in Orders /\ d.event.cum \in Nat
    BY <2>1, QuantityAssumption DEF Delivery, Event
  <2> HIDE DEF d
  <2>3. /\ o = d.order /\ Accepts(Quantity, db[o], d.event)
        /\ db'[o] = Apply(Quantity, db[o], d.event)
        /\ db' = [db EXCEPT ![o] = db'[o]]
    BY <1>0, <1>3, <2>2 DEF ConsumeEvent, HandleEvent, Commit, d
  <2>4. ~IsTerminal(db[o])
    BY <2>3 DEF Apply
  <2>5. ObservedFillIsValid(Quantity, db[o], d.event)
    BY <2>3, <2>4 DEF Accepts
  <2> QED BY <1>0, <2>2, <2>3, <2>4, <2>5 DEF Apply, ObservedFillIsValid
<1>4. CASE Exchange
  BY <1>4 DEF Exchange, HandleSubmit, HandleCancel, HandleQuery, ExchangeFills,
              ExchangeEnds
<1>5. CASE Network
  BY <1>5 DEF Network, DropRequest, CallFails, Redeliver, Connect, Disconnect
<1>6. CASE StartSweep \/ EndSweep \/ Crash \/ Restart
  BY <1>6 DEF StartSweep, EndSweep, Crash, Restart
<1> QED BY <1>1, <1>2, <1>3, <1>4, <1>5, <1>6 DEF Next, Runtime, vars

(* The exchange moves one order, which the database has and has not        *)
(* rejected.                                                               *)
LEMMA ExchangeMovesARow ==
    ASSUME EngineInvariant, [Next]_vars, NEW o \in Orders, exch'[o] # exch[o]
    PROVE  /\ exch' = [exch EXCEPT ![o] = exch'[o]] /\ db' = db
           /\ exch[o].state \in OpenAtExchange \cup {"ABSENT"} /\ exch'[o] # Absent
           /\ db[o].state \notin {"ABSENT", "REJECTED"}
<1>0. /\ exch \in [Orders -> ExchangeOrder \cup {Absent}]
      /\ requests \subseteq SideEffect
  BY DEF EngineInvariant, TypeOK
<1>1. Exchange
  BY OthersLeaveTheExchange
<1>2. db' = db
  BY <1>1 DEF Exchange, HandleSubmit, HandleCancel, HandleQuery, ExchangeFills,
              ExchangeEnds
<1>3. ASSUME exch[o] # Absent \/ \E r \in requests : r.op = "submit" /\ r.order = o
      PROVE  db[o].state \notin {"ABSENT", "REJECTED"}
  <2>1. db[o] # Absent
    BY <1>3 DEF EngineInvariant, PersistedFirst
  <2>2. Faithful(db[o], o)
    BY <2>1 DEF EngineInvariant, RowsAreFaithful
  <2> QED BY <1>3, <2>2 DEF Faithful, NeverPlaced
<1>4. ASSUME NEW r \in requests, HandleSubmit(r)
      PROVE  /\ exch' = [exch EXCEPT ![o] = exch'[o]]
             /\ exch[o].state \in OpenAtExchange \cup {"ABSENT"} /\ exch'[o] # Absent
             /\ db[o].state \notin {"ABSENT", "REJECTED"}
  <2>1. /\ r.order \in Orders /\ r.op = "submit" /\ exch[r.order] = Absent
        /\ \E s \in Acceptance : exch' = [exch EXCEPT ![r.order] = s]
    BY <1>4, SubmitPlacesOnce
  <2>2. o = r.order /\ exch' = [exch EXCEPT ![o] = exch'[o]]
    BY <1>0, <2>1
  <2> QED BY <1>3, <2>1, <2>2 DEF Absent
<1>5. ASSUME NEW p \in Orders, NEW s, exch' = [exch EXCEPT ![p] = s],
             exch[p].state \in OpenAtExchange, s.state # "ABSENT"
      PROVE  /\ exch' = [exch EXCEPT ![o] = exch'[o]]
             /\ exch[o].state \in OpenAtExchange \cup {"ABSENT"} /\ exch'[o] # Absent
             /\ db[o].state \notin {"ABSENT", "REJECTED"}
  <2>1. o = p /\ exch' = [exch EXCEPT ![o] = exch'[o]]
    BY <1>0, <1>5
  <2>2. exch[o] # Absent
    BY <1>5, <2>1 DEF OpenAtExchange, Absent
  <2>3. exch'[o] = s
    BY <1>0, <1>5, <2>1
  <2> QED BY <1>3, <1>5, <2>1, <2>2, <2>3 DEF Absent
<1>6. ASSUME NEW r \in requests, HandleCancel(r)
      PROVE  \E p \in Orders : \E s :
                 /\ exch' = [exch EXCEPT ![p] = s]
                 /\ exch[p].state \in OpenAtExchange
                 /\ s.state # "ABSENT"
  <2>1. r.order \in Orders
    BY <1>0, <1>6 DEF SideEffect
  <2>2. /\ exch[r.order].state \in OpenAtExchange
        /\ exch' = [exch EXCEPT ![r.order] =
                        [exch[r.order] EXCEPT !.state = "CANCELED"]]
    BY <1>0, <1>6, <2>1 DEF HandleCancel
  <2>3. [exch[r.order] EXCEPT !.state = "CANCELED"].state # "ABSENT"
    BY <1>0, <2>1 DEF ExchangeOrder, Absent
  <2> QED BY <2>1, <2>2, <2>3
<1>7. ASSUME NEW p \in Orders, ExchangeFills(p) \/ ExchangeEnds(p)
      PROVE  \E s : /\ exch' = [exch EXCEPT ![p] = s]
                   /\ exch[p].state \in OpenAtExchange
                   /\ s.state # "ABSENT"
  <2>1. CASE ExchangeFills(p)
    <3>1. PICK cum \in (exch[p].cum + 1) .. Quantity :
             exch' = [exch EXCEPT ![p] = [state |-> StateAfterTrade(Quantity, cum),
                                          cum |-> cum]]
      BY <2>1 DEF ExchangeFills
    <3> DEFINE s == [state |-> StateAfterTrade(Quantity, cum), cum |-> cum]
    <3>2. s.state # "ABSENT"
      BY DEF StateAfterTrade
    <3>3. exch[p].state \in OpenAtExchange
      BY <2>1 DEF ExchangeFills
    <3> HIDE DEF s
    <3>4. exch' = [exch EXCEPT ![p] = s]
      BY <3>1 DEF s
    <3> QED BY <3>2, <3>3, <3>4
  <2>2. CASE ExchangeEnds(p)
    <3>1. PICK state \in {"CANCELED", "EXPIRED"} :
             exch' = [exch EXCEPT ![p] = [exch[p] EXCEPT !.state = state]]
      BY <2>2 DEF ExchangeEnds
    <3>2. [exch[p] EXCEPT !.state = state].state # "ABSENT"
      BY <1>0, <3>1 DEF ExchangeOrder, Absent
    <3> QED BY <2>2, <3>1, <3>2 DEF ExchangeEnds
  <2> QED BY <1>7, <2>1, <2>2
<1>8. ASSUME NEW t \in Threads, HandleQuery(t) PROVE FALSE
  BY <1>8 DEF HandleQuery, worldVars
<1> QED BY <1>1, <1>2, <1>4, <1>5, <1>6, <1>7, <1>8 DEF Exchange

LEMMA StepRefinesLedger ==
    ASSUME EngineInvariant, LockInvariant, [Next]_vars
    PROVE  [Ledger!Next]_(Ledger!vars)
<1>0. TypeOK' /\ EngineInvariant'
  BY InvariantIsInductive DEF EngineInvariant
<1>1. /\ exch \in [Orders -> ExchangeOrder \cup {Absent}]
      /\ exch' \in [Orders -> ExchangeOrder \cup {Absent}]
      /\ db \in [Orders -> LocalOrder] /\ db' \in [Orders -> LocalOrder]
  BY <1>0 DEF EngineInvariant, TypeOK
<1>2. ASSUME NEW o \in Orders, exch'[o] # exch[o] PROVE Ledger!ExchangeMoves(o)
  <2>1. /\ exch' = [exch EXCEPT ![o] = exch'[o]] /\ db' = db
        /\ exch[o].state \in OpenAtExchange \cup {"ABSENT"}
        /\ db[o].state \notin {"ABSENT", "REJECTED"}
    BY <1>2, ExchangeMovesARow
  <2>2. PastOf(exch[o], exch'[o])
    BY ExchangeAdvances
  <2>3. exch'[o] \in ExchangeOrder
    BY <1>1, <1>2, ExchangeMovesARow
  <2>4. exch'[o] \in Ledger!Truth
    BY <2>3 DEF Ledger!Truth, Ledger!Working, ExchangeOrder, ExchangeState, OpenAtExchange
  <2> QED BY <2>1, <2>2, <2>4
          DEF Ledger!ExchangeMoves, Ledger!Working, OpenAtExchange, PastOf
<1>3. ASSUME NEW o \in Orders, db'[o] # db[o] PROVE Ledger!Record(o)
  <2>1. /\ db' = [db EXCEPT ![o] = db'[o]] /\ ~IsTerminal(db[o])
        /\ db[o].cum <= db'[o].cum
    BY <1>3, CommitsMoveForward
  <2>2. Faithful(db[o], o)'
    BY <1>3, CommitsAreFaithful
  <2>3. db'[o] \in Order(Quantity)
    BY <1>1, <2>2 DEF LocalOrder, Faithful, Absent
  <2>4. exch' = exch
    BY <1>1, <1>3, ExchangeMovesARow
  <2>5. db'[o].cum \in db[o].cum .. exch[o].cum
    BY <1>1, <2>1, <2>2, <2>3, <2>4, FillsAreNaturals, QuantityAssumption
       DEF Faithful, PastOf, Order, LocalOrder, Absent
  <2>6. /\ db'[o].state \in {"FILLED", "CANCELED", "EXPIRED"} => db'[o] = exch[o]
        /\ db'[o].state = "REJECTED" => exch[o] = Ledger!Missing
    BY <2>2, <2>4 DEF Faithful, PastOf, Final, NeverPlaced, Absent, Ledger!Missing
  <2>7. db'[o] \in Ledger!Order(Quantity) /\ ~Ledger!IsTerminal(db[o])
    BY <2>1, <2>3 DEF Ledger!Order, Ledger!OrderState, Ledger!IsTerminal,
          Ledger!TerminalOrderState, Order, OrderState, IsTerminal, TerminalOrderState
  <2> QED BY <2>1, <2>4, <2>5, <2>6, <2>7 DEF Ledger!Record
<1>4. CASE exch' = exch /\ db' = db
  BY <1>4 DEF Ledger!vars
<1> QED BY <1>1, <1>2, <1>3, <1>4 DEF Ledger!Next

LEMMA InitRefinesLedger == Init => Ledger!Init
BY DEF Init, Absent, Ledger!Init, Ledger!Missing

LEMMA LockInvariantHolds ==
    ASSUME Cli = {}
    PROVE  Spec => []LockInvariant
<1>1. Init => LockInvariant
  BY DEF Init, LockInvariant, LocksAreExclusive, LocalIsRow, Busy, Idle
<1>2. TypeOK /\ LockInvariant /\ [Next]_vars => LockInvariant'
  BY LockInvariantIsInductive
<1> QED BY <1>1, <1>2, TypeCorrectness, PTL DEF Spec

(* Without a tool beside it, the engine implements the ledger: a row is    *)
(* there before the exchange has the order, it only moves forward, what it *)
(* records is so, and a terminal row is never written again.               *)
THEOREM ImplementsLedgerTheorem ==
    ASSUME Cli = {}
    PROVE  Spec => ImplementsLedger
<1>1. EngineInvariant /\ LockInvariant /\ [Next]_vars => [Ledger!Next]_(Ledger!vars)
  BY StepRefinesLedger
<1> QED BY <1>1, InitRefinesLedger, EngineInvariantHolds, LockInvariantHolds, PTL
        DEF Spec, Ledger!Spec, ImplementsLedger
=============================================================================

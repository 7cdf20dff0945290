------------------------ MODULE RestTransportProofs ------------------------
(* A request of RestTransport takes effect at most once and is reported as *)
(* what became of it, whatever gets lost, late or refused for its          *)
(* timestamp, but for the answers the code misreads: RestTransport         *)
(* implements SideEffect for any number of calls.                          *)
EXTENDS RestTransport, TLAPS

-----------------------------------------------------------------------------
(* The inductive invariant, in named parts.                                *)

Running == {"waiting", "syncing", "fetched", "synced"}

CallShape == [op : Operation \cup {NoOperation},
              request : Operation \cup {NoOperation},
              at : {"idle"} \cup Running \cup Ended,
              try : Nat, time : {0, 1}]
RequestShape == [call : Calls, request : Operation, try : Nat, stamp : {0, 1}]
AnswerShape == [call : Calls, answer : Answer, leverage : BOOLEAN]

Typed ==
    /\ call \in [Calls -> CallShape]
    /\ inFlight \subseteq RequestShape
    /\ answers \subseteq AnswerShape
    /\ effects \in [Calls -> Nat]
    /\ leverage \in BOOLEAN
    /\ drift \in {0, 1} /\ offset \in {0, 1}

(* A call asks for what it was made for; a leverage change is followed by  *)
(* the query that reconciles it.                                           *)
AsksFor(c, request) ==
    \/ request = call[c].op
    \/ call[c].op = ChangeLeverage /\ request = SymbolConfig

CallsAskForTheirOperation ==
    \A c \in Calls :
        /\ call[c].at = "idle" => call[c] = Unused
        /\ call[c].at \in Running =>
               /\ AsksFor(c, call[c].request)
               /\ call[c].op \in Operation \ {SymbolConfig}

(* What is under way was sent by its call, at this or an earlier attempt,  *)
(* and no two requests under way are the same attempt.                     *)
RequestsWereSent ==
    /\ \A r \in inFlight :
          /\ call[r.call].at \notin {"idle", "blocked"}
          /\ AsksFor(r.call, r.request)
          /\ call[r.call].op \in Operation \ {SymbolConfig}
          /\ r.request = call[r.call].request \/ call[r.call].request = SymbolConfig
          /\ r.request = call[r.call].request => r.try <= call[r.call].try
    /\ \A r, s \in inFlight :
          r.call = s.call /\ r.request = s.request /\ r.try = s.try => r = s

(* A call reads one answer, and its request is then no longer under way.   *)
AnswersAreAwaited ==
    /\ \A a \in answers :
          /\ Waiting(a.call)
          /\ \A r \in inFlight :
                r.call = a.call =>
                    r.request # call[a.call].request \/ r.try # call[a.call].try
    /\ \A a, b \in answers : a.call = b.call => a = b

(* The operations SideEffect is about.                                     *)
Tracked(c) == call[c].op \in {PlaceOrder, CancelOrder, CollectFunds}

NotDone == {"idle", "syncing", "fetched", "synced", "rejected", "raised", "blocked"}

(* A tracked request is under way once, and not after it was applied or    *)
(* refused; what the call was told is what became of it.                   *)
EffectIsKnown(c) ==
    /\ call[c].at = "idle" \/ (call[c].op # ChangeLeverage /\ ~Tracked(c)) => effects[c] = 0
    /\ Tracked(c) =>
        /\ effects[c] \in {0, 1} /\ call[c].at # "absent"
        /\ \A r \in inFlight :
              r.call = c => effects[c] = 0 /\ call[c].at \in {"waiting", "unknown"}
        /\ \A r, s \in inFlight : r.call = c /\ s.call = c => r = s
        /\ call[c].at \in NotDone => effects[c] = 0
        /\ call[c].at = "returned" => effects[c] = 1
        /\ \A a \in answers : a.call = c =>
              /\ \A r \in inFlight : r.call # c
              /\ a.answer = "2xx" => effects[c] = 1
              /\ a.answer \notin {"2xx"} \cup Uncertain => effects[c] = 0

EffectsAreKnown == \A c \in Calls : EffectIsKnown(c)

(* An answer that confirms the leverage tells the truth, and so does a     *)
(* leverage call that has returned.                                        *)
LeverageIsKnown ==
    /\ \A a \in answers :
          /\ a.answer = "2xx" /\ call[a.call].request = ChangeLeverage => leverage
          /\ a.leverage => leverage
    /\ LeverageIsConfirmed

Inv ==
    /\ Typed
    /\ CallsAskForTheirOperation /\ RequestsWereSent /\ AnswersAreAwaited
    /\ EffectsAreKnown /\ LeverageIsKnown

-----------------------------------------------------------------------------
(* The steps, grouped by what they do to a call.                           *)

Others(c) == \A d \in Calls \ {c} : call'[d] = call[d]

AnswersOfOthers(c) == {a \in answers : a.call # c}

(* A call goes on or ends with what it has been told.                      *)
Told(c, at) ==
    /\ Others(c)
    /\ call'[c].at = at /\ call'[c].op = call[c].op
    /\ call'[c].request = call[c].request /\ call'[c].try = call[c].try
    /\ inFlight' = inFlight
    /\ answers' = AnswersOfOthers(c)
    /\ UNCHANGED exchangeVars

(* A call sends a request and waits for its answer.                        *)
Asks(c, op, request, try) ==
    /\ Others(c)
    /\ call'[c].at = "waiting" /\ call'[c].op = op
    /\ call'[c].request = request /\ call'[c].try = try
    /\ inFlight' = inFlight \cup
           {[call |-> c, request |-> request, try |-> try, stamp |-> offset]}
    /\ answers' = AnswersOfOthers(c)
    /\ UNCHANGED exchangeVars

(* What a running call may be told: success rests on an answer, and a      *)
(* tracked request is refused only by an answer that says so, before it is *)
(* sent again, or by an answer that is misread.                            *)
MayTell(c, at) ==
    /\ call[c].at \in Running
    /\ at \in (Running \cup Ended) \ {"waiting", "blocked"}
    /\ at = "returned" =>
           \E a \in answers : a.call = c /\ a.answer = "2xx"
                              /\ (Reconciling(c) => a.leverage)
    /\ Tracked(c) =>
           /\ at # "absent"
           /\ at \in NotDone /\ Waiting(c) =>
                  \E a \in answers : a.call = c /\ a.answer \notin {"2xx"} \cup Uncertain
           /\ at = "misread" => \E a \in answers : a.call = c
           /\ Waiting(c) \/ at \in NotDone

Blocks(c) ==
    /\ call[c].at = "idle" /\ call'[c].at = "blocked"
    /\ Others(c)
    /\ UNCHANGED <<inFlight, answers, exchangeVars>>

Starts(c) ==
    /\ call[c].at = "idle"
    /\ \E op \in Operation \ {SymbolConfig} : Asks(c, op, op, 1)

Reconciles(c) ==
    /\ Waiting(c) /\ call[c].request = ChangeLeverage
    /\ Asks(c, ChangeLeverage, SymbolConfig, 1)

Replays(c) ==
    /\ call[c].at = "synced"
    /\ Asks(c, call[c].op, call[c].request, call[c].try + 1)

Tells(c) == \E at : MayTell(c, at) /\ Told(c, at)

-----------------------------------------------------------------------------
LEMMA Distinct ==
    /\ ChangeLeverage # SymbolConfig /\ ChangeLeverage # PlaceOrder
    /\ ChangeLeverage # CancelOrder /\ ChangeLeverage # CollectFunds
    /\ ChangeLeverage # QueryOrder /\ ChangeLeverage # ListenKey
    /\ SymbolConfig \notin {PlaceOrder, CancelOrder, CollectFunds, QueryOrder, ListenKey}
    /\ QueryOrder \notin {PlaceOrder, CancelOrder, CollectFunds, ListenKey}
    /\ NoOperation \notin Operation
BY DEF ChangeLeverage, SymbolConfig, PlaceOrder, CancelOrder, CollectFunds, QueryOrder,
       ListenKey, NoOperation, Operation

LEMMA SideEffects ==
    \A op \in Operation :
        op.sideEffect <=> op \in {PlaceOrder, CancelOrder, CollectFunds, ChangeLeverage}
BY DEF ChangeLeverage, SymbolConfig, PlaceOrder, CancelOrder, CollectFunds, QueryOrder,
       ListenKey, NoOperation, Operation

LEMMA EndFacts ==
    ASSUME Typed, NEW c \in Calls, NEW at, End(c, at)
    PROVE  /\ Others(c)
           /\ call'[c].at = at /\ call'[c].op = call[c].op
           /\ call'[c].request = call[c].request /\ call'[c].try = call[c].try
           /\ at \in {"idle"} \cup Running \cup Ended => call' \in [Calls -> CallShape]
<1>1. call'[c] = [call[c] EXCEPT !.at = at] /\ call' = [call EXCEPT ![c] = call'[c]]
    BY DEF End, Typed
<1>2. call[c] \in CallShape
    BY DEF Typed
<1>3. /\ call'[c].at = at /\ call'[c].op = call[c].op
      /\ call'[c].request = call[c].request /\ call'[c].try = call[c].try
      /\ at \in {"idle"} \cup Running \cup Ended => call'[c] \in CallShape
    BY <1>1, <1>2 DEF CallShape
<1>4. Others(c)
    BY <1>1 DEF Others, Typed
<1> QED
    BY <1>1, <1>3, <1>4 DEF Typed

LEMMA SendFacts ==
    ASSUME Typed, NEW c \in Calls, NEW op \in Operation, NEW request \in Operation,
           NEW try \in Nat, Send(c, op, request, try)
    PROVE  /\ Others(c)
           /\ call'[c].at = "waiting" /\ call'[c].op = op
           /\ call'[c].request = request /\ call'[c].try = try
           /\ call' \in [Calls -> CallShape]
<1>1. call'[c] = [op |-> op, request |-> request, at |-> "waiting", try |-> try, time |-> 0]
      /\ call' = [call EXCEPT ![c] = call'[c]]
    BY DEF Send, Typed
<1>2. call'[c] \in CallShape
    BY <1>1 DEF CallShape, Running
<1> QED
    BY <1>1, <1>2 DEF Typed, Others

-----------------------------------------------------------------------------
(* A tracked request is the operation itself: only a leverage change is    *)
(* reconciled.                                                             *)
LEMMA TrackedAsks ==
    ASSUME Inv, NEW c \in Calls, call[c].at \in Running, Tracked(c)
    PROVE  /\ call[c].request = call[c].op /\ call[c].request \in Operation
           /\ call[c].request.sideEffect
BY SideEffects, Distinct
DEF Inv, CallsAskForTheirOperation, AsksFor, Tracked, Operation

SettledAs(c, at, error, answer) ==
    /\ at \in {"raised", "unknown", "misread", "rejected", "absent"}
    /\ Told(c, at)
    /\ Tracked(c) => at # "absent"
    /\ Tracked(c) /\ at \in NotDone =>
           error # "UnknownExecutionOutcome" /\ answer \notin Unclear
    /\ at = "misread" => answer \in Unclear

LEMMA SettleFacts ==
    ASSUME Inv, NEW c \in Calls, NEW error, NEW answer, Settle(c, error, answer),
           call[c].at \in Running, error = "UnknownExecutionOutcome" => Waiting(c),
           answers' = AnswersOfOthers(c), UNCHANGED exchangeVars
    PROVE  /\ call' \in [Calls -> CallShape]
           /\ Reconciles(c) \/ \E at : SettledAs(c, at, error, answer)
<1> DEFINE asksAgain == call[c].request = ChangeLeverage /\ error = "UnknownExecutionOutcome"
           at == IF Reconciling(c) THEN "raised" ELSE Verdict(call[c].op, error, answer)
<1>1. CASE asksAgain
    <2>1. Send(c, ChangeLeverage, SymbolConfig, 1)
        BY <1>1 DEF Settle
    <2>2. ChangeLeverage \in Operation /\ SymbolConfig \in Operation
        BY DEF Operation
    <2>3. Asks(c, ChangeLeverage, SymbolConfig, 1) /\ call' \in [Calls -> CallShape]
        BY <2>1, <2>2, SendFacts DEF Inv, Asks, Send
    <2> QED
        BY <1>1, <2>3 DEF Reconciles
<1>2. CASE ~asksAgain
    <2>1. End(c, at) /\ inFlight' = inFlight
        BY <1>2 DEF Settle
    <2>2. at \in {"raised", "unknown", "misread", "rejected", "absent"}
        BY DEF Verdict
    <2>3. Told(c, at) /\ call' \in [Calls -> CallShape]
        BY <2>1, <2>2, EndFacts DEF Inv, Told, Ended
    <2>4. Tracked(c) => at # "absent"
        BY Distinct DEF Tracked, Verdict
    <2>5. ASSUME Tracked(c), at \in NotDone
          PROVE  error # "UnknownExecutionOutcome" /\ answer \notin Unclear
        BY <2>5, TrackedAsks DEF Reconciling, Verdict, NotDone
    <2>6. at = "misread" => answer \in Unclear
        BY DEF Verdict
    <2> HIDE DEF at
    <2> QED
        BY <2>2, <2>3, <2>4, <2>5, <2>6 DEF SettledAs
<1> QED
    BY <1>1, <1>2

LEMMA BeginKind ==
    ASSUME Inv, NEW c \in Calls, Begin(c)
    PROVE  call' \in [Calls -> CallShape] /\ (Blocks(c) \/ Starts(c))
<1>1. PICK op \in Operation \ {SymbolConfig} :
          IF Guarded(op) /\ ~live
          THEN /\ call' = [call EXCEPT ![c].op = op, ![c].at = "blocked"]
               /\ UNCHANGED inFlight
          ELSE Send(c, op, op, 1)
    BY DEF Begin
<1>2. answers' = AnswersOfOthers(c) /\ answers' = answers
    BY DEF Begin, AnswersOfOthers, Inv, AnswersAreAwaited, Waiting
<1>3. CASE Guarded(op) /\ ~live
    <2>1. call[c] \in CallShape /\ call' = [call EXCEPT ![c] = call'[c]]
          /\ call'[c] = [[call[c] EXCEPT !.op = op] EXCEPT !.at = "blocked"]
        BY <1>1, <1>3 DEF Inv, Typed
    <2>2. call'[c] \in CallShape /\ call'[c].at = "blocked"
        BY <2>1 DEF CallShape, Ended
    <2> QED
        BY <1>1, <1>2, <1>3, <2>1, <2>2 DEF Inv, Typed, Begin, Blocks, Others
<1>4. CASE ~(Guarded(op) /\ ~live)
    <2>1. Send(c, op, op, 1)
        BY <1>1, <1>4
    <2>2. /\ Others(c) /\ call'[c].at = "waiting" /\ call'[c].op = op
          /\ call'[c].request = op /\ call'[c].try = 1 /\ call' \in [Calls -> CallShape]
        BY <2>1, SendFacts, Zenon DEF Inv
    <2>3. Asks(c, op, op, 1)
        BY <1>2, <2>1, <2>2 DEF Begin, Asks, Send
    <2> QED
        BY <2>2, <2>3 DEF Begin, Starts
<1> QED
    BY <1>3, <1>4

LEMMA NoResponseKind ==
    ASSUME Inv, NEW c \in Calls, NoResponse(c)
    PROVE  call' \in [Calls -> CallShape] /\ (Reconciles(c) \/ Tells(c))
<1> DEFINE error == ErrorForNoResponse(call[c].request.sideEffect)
<1>1. /\ Settle(c, error, "none") /\ Waiting(c) /\ call[c].at \in Running
      /\ answers' = AnswersOfOthers(c) /\ UNCHANGED exchangeVars
    BY DEF NoResponse, AnswersOfOthers, Waiting, Running
<1>2. Tracked(c) => error = "UnknownExecutionOutcome"
    BY <1>1, TrackedAsks DEF ErrorForNoResponse
<1> HIDE DEF error
<1>3. call' \in [Calls -> CallShape]
    BY <1>1, SettleFacts
<1>4. ASSUME ~Reconciles(c) PROVE Tells(c)
    <2>1. PICK at : SettledAs(c, at, error, "none")
        BY <1>1, <1>4, SettleFacts
    <2>2. MayTell(c, at)
        BY <1>1, <1>2, <2>1 DEF MayTell, SettledAs, Ended, Unclear
    <2> QED
        BY <2>1, <2>2 DEF Tells, SettledAs
<1> QED
    BY <1>3, <1>4

LEMMA ReceiveKind ==
    ASSUME Inv, NEW a \in answers, Receive(a)
    PROVE  call' \in [Calls -> CallShape] /\ (Reconciles(a.call) \/ Tells(a.call))
<1> DEFINE c == a.call
           error == ErrorForResponse(a.answer, call[c].request.sideEffect)
<1>1. c \in Calls /\ a.answer \in Answer /\ Waiting(c) /\ call[c].at \in Running
    BY DEF Inv, Typed, AnswerShape, AnswersAreAwaited, Waiting, Running
<1>2. answers' = AnswersOfOthers(c) /\ UNCHANGED exchangeVars
    BY DEF Receive, AnswersOfOthers, Inv, AnswersAreAwaited
<1>3. CASE MayReplay(c, a.answer)
    <2>1. End(c, "syncing") /\ inFlight' = inFlight
        BY <1>3 DEF Receive
    <2>2. Told(c, "syncing") /\ call' \in [Calls -> CallShape]
        BY <1>1, <1>2, <2>1, EndFacts DEF Inv, Told, Running
    <2>3. a.answer \notin {"2xx"} \cup Uncertain
        BY <1>3 DEF MayReplay, Uncertain, Unclear
    <2>4. MayTell(c, "syncing")
        BY <1>1, <2>3 DEF MayTell, NotDone, Running, Ended
    <2> QED
        BY <2>2, <2>4 DEF Tells
<1>4. CASE ~MayReplay(c, a.answer) /\ a.answer # "2xx"
    <2>1. Settle(c, error, a.answer)
        BY <1>4 DEF Receive
    <2>2. Tracked(c) /\ a.answer \in Uncertain =>
              error = "UnknownExecutionOutcome" \/ a.answer \in Unclear
        BY <1>1, TrackedAsks DEF Uncertain, ErrorForResponse
    <2> HIDE DEF error
    <2>3. call' \in [Calls -> CallShape]
        BY <1>1, <1>2, <2>1, SettleFacts
    <2>4. ASSUME ~Reconciles(c) PROVE Tells(c)
        <3>1. PICK at : SettledAs(c, at, error, a.answer)
            BY <1>1, <1>2, <2>1, <2>4, SettleFacts
        <3>2. MayTell(c, at)
            BY <1>1, <1>4, <2>2, <3>1 DEF MayTell, SettledAs, Ended
        <3> QED
            BY <3>1, <3>2 DEF Tells, SettledAs
    <2> QED
        BY <2>3, <2>4
<1>5. CASE ~MayReplay(c, a.answer) /\ a.answer = "2xx"
    <2> DEFINE at == IF Reconciling(c) /\ ~a.leverage THEN "unknown" ELSE "returned"
    <2>1. End(c, at) /\ inFlight' = inFlight
        BY <1>5 DEF Receive
    <2>2. Told(c, at) /\ call' \in [Calls -> CallShape]
        BY <1>1, <1>2, <2>1, EndFacts DEF Inv, Told, Ended
    <2>3. MayTell(c, at)
        BY <1>1, <1>5 DEF MayTell, NotDone, Running, Ended
    <2> QED
        BY <2>2, <2>3 DEF Tells
<1> QED
    BY <1>3, <1>4, <1>5

LEMMA SynchronizingKind ==
    ASSUME Inv, NEW c \in Calls,
           FetchServerTime(c) \/ FetchServerTimeFails(c) \/ SyncClock(c)
    PROVE  call' \in [Calls -> CallShape] /\ Tells(c)
<1>1. /\ call[c] \in CallShape /\ call[c].at \in Running /\ ~Waiting(c)
      /\ answers' = answers /\ UNCHANGED exchangeVars
    BY DEF FetchServerTime, FetchServerTimeFails, SyncClock, Running, Waiting, Inv, Typed
<1>2. answers' = AnswersOfOthers(c)
    BY <1>1 DEF AnswersOfOthers, Inv, AnswersAreAwaited
<1>3. CASE FetchServerTime(c)
    <2>1. /\ call' = [call EXCEPT ![c] = call'[c]]
          /\ call'[c] = [[call[c] EXCEPT !.at = "fetched"] EXCEPT !.time = drift]
        BY <1>3 DEF FetchServerTime, Inv, Typed
    <2>2. /\ call'[c] \in CallShape /\ call'[c].at = "fetched"
          /\ call'[c].op = call[c].op /\ call'[c].request = call[c].request
          /\ call'[c].try = call[c].try
        BY <1>1, <2>1 DEF CallShape, Running, Inv, Typed
    <2>3. Told(c, "fetched")
        BY <1>1, <1>2, <1>3, <2>1, <2>2 DEF FetchServerTime, Told, Others, Inv, Typed
    <2>4. MayTell(c, "fetched")
        BY <1>1 DEF MayTell, NotDone, Running, Ended
    <2> QED
        BY <2>1, <2>2, <2>3, <2>4 DEF Tells, Inv, Typed
<1>4. CASE FetchServerTimeFails(c)
    <2>1. Settle(c, "BinanceNetworkError", "none")
        BY <1>4 DEF FetchServerTimeFails
    <2>2. ~Reconciles(c) /\ "BinanceNetworkError" # "UnknownExecutionOutcome"
        BY <1>1 DEF Reconciles
    <2>3. call' \in [Calls -> CallShape]
        BY <1>1, <1>2, <2>1, <2>2, SettleFacts
    <2>4. PICK at : SettledAs(c, at, "BinanceNetworkError", "none")
        BY <1>1, <1>2, <2>1, <2>2, SettleFacts
    <2>5. Tracked(c) => at \in NotDone
        <3>1. at \in {"raised", "rejected"} \/ ~Tracked(c)
            <4>1. End(c, IF Reconciling(c) THEN "raised"
                         ELSE Verdict(call[c].op, "BinanceNetworkError", "none"))
                BY <2>1 DEF Settle
            <4>2. call'[c].at = IF Reconciling(c) THEN "raised"
                                ELSE Verdict(call[c].op, "BinanceNetworkError", "none")
                BY <4>1, EndFacts, Zenon DEF Inv
            <4>3. call'[c].at = at
                BY <2>4 DEF SettledAs, Told
            <4> QED
                BY <4>2, <4>3, Distinct DEF Verdict, Tracked, Unclear
        <3> QED
            BY <3>1 DEF NotDone
    <2>6. MayTell(c, at)
        BY <1>1, <2>4, <2>5 DEF MayTell, SettledAs, Ended
    <2> QED
        BY <2>3, <2>4, <2>6 DEF Tells, SettledAs
<1>5. CASE SyncClock(c)
    <2>1. End(c, "synced") /\ inFlight' = inFlight
        BY <1>5 DEF SyncClock
    <2>2. Told(c, "synced") /\ call' \in [Calls -> CallShape]
        BY <1>1, <1>2, <2>1, EndFacts DEF Inv, Told, Running
    <2>3. MayTell(c, "synced")
        BY <1>1 DEF MayTell, NotDone, Running, Ended
    <2> QED
        BY <2>2, <2>3 DEF Tells
<1> QED
    BY <1>3, <1>4, <1>5

LEMMA ReplayKind ==
    ASSUME Inv, NEW c \in Calls, Replay(c)
    PROVE  call' \in [Calls -> CallShape] /\ Replays(c)
<1>1. /\ call[c].at = "synced" /\ call[c].at \in Running
      /\ call[c].try + 1 \in Nat
      /\ Send(c, call[c].op, call[c].request, call[c].try + 1)
      /\ answers' = answers /\ UNCHANGED exchangeVars
    BY DEF Replay, Running, Inv, Typed, CallShape
<1>2. call[c].op \in Operation /\ call[c].request \in Operation
    BY <1>1 DEF Inv, CallsAskForTheirOperation, AsksFor, Operation
<1>3. answers' = AnswersOfOthers(c)
    BY <1>1 DEF AnswersOfOthers, Inv, AnswersAreAwaited, Waiting
<1>4. /\ Others(c) /\ call'[c].at = "waiting" /\ call'[c].op = call[c].op
      /\ call'[c].request = call[c].request /\ call'[c].try = call[c].try + 1
      /\ call' \in [Calls -> CallShape]
    <2> DEFINE op == call[c].op
               request == call[c].request
               try == call[c].try + 1
    <2>1. /\ op \in Operation /\ request \in Operation /\ try \in Nat
          /\ Send(c, op, request, try)
        BY <1>1, <1>2
    <2> HIDE DEF op, request, try
    <2>2. /\ Others(c) /\ call'[c].at = "waiting" /\ call'[c].op = op
          /\ call'[c].request = request /\ call'[c].try = try
          /\ call' \in [Calls -> CallShape]
        BY <2>1, SendFacts, Zenon DEF Inv
    <2> QED
        BY <2>2 DEF op, request, try
<1> QED
    BY <1>1, <1>3, <1>4 DEF Replays, Asks, Send

(* What any step of the system does.                                       *)
CallMoves(c) == Blocks(c) \/ Starts(c) \/ Reconciles(c) \/ Replays(c) \/ Tells(c)

LEMMA Kinds ==
    ASSUME Inv, Next
    PROVE  \/ /\ call' \in [Calls -> CallShape]
              /\ \E c \in Calls : CallMoves(c)
           \/ \E r \in inFlight : Handle(r) \/ Lose(r)
           \/ ClockDrifts
<1>1. CASE \E c \in Calls : Advance(c)
    BY <1>1, BeginKind, NoResponseKind, SynchronizingKind, ReplayKind
    DEF Advance, CallMoves
<1>2. CASE \E a \in answers : Receive(a)
    <2>1. \A a \in answers : a.call \in Calls
        BY DEF Inv, Typed, AnswerShape
    <2> QED
        BY <1>2, <2>1, ReceiveKind DEF CallMoves
<1> QED
    BY <1>1, <1>2 DEF Next

LEMMA HandleFacts ==
    ASSUME Inv, NEW r \in inFlight, Handle(r)
    PROVE  \E answer \in Answer, known \in BOOLEAN :
               /\ \/ answers' = answers
                  \/ /\ Waiting(r.call)
                     /\ call[r.call].request = r.request /\ call[r.call].try = r.try
                     /\ known => leverage
                     /\ answers' = answers \cup {[call |-> r.call, answer |-> answer,
                                                  leverage |-> known]}
               /\ \/ answer \in {"2xx"} \cup Uncertain /\ Applies(r)
                  \/ answer # "2xx" /\ UNCHANGED exchangeVars
<1>1. PICK answer \in AnswersTo(r) :
          /\ \/ answer \in {"2xx"} \cup Uncertain /\ Applies(r)
             \/ answer # "2xx" /\ UNCHANGED exchangeVars
          /\ answers' =
                 IF Waiting(r.call) /\ call[r.call].request = r.request
                                    /\ call[r.call].try = r.try
                 THEN answers \cup {[call |-> r.call, answer |-> answer,
                                     leverage |-> leverage /\ r.request = SymbolConfig]}
                 ELSE answers
    BY DEF Handle
<1>2. answer \in Answer
    BY DEF AnswersTo, Answer, NotApplied, Uncertain
<1> DEFINE known == leverage /\ r.request = SymbolConfig
<1>3. known \in BOOLEAN /\ (known => leverage)
    BY DEF Inv, Typed
<1>4. answers' = IF Waiting(r.call) /\ call[r.call].request = r.request
                                    /\ call[r.call].try = r.try
                 THEN answers \cup {[call |-> r.call, answer |-> answer, leverage |-> known]}
                 ELSE answers
    BY <1>1
<1> HIDE DEF known
<1> QED
    BY <1>1, <1>2, <1>3, <1>4

LEMMA AppliesFacts ==
    ASSUME Typed, NEW r \in inFlight, Applies(r)
    PROVE  /\ effects' \in [Calls -> Nat]
           /\ \A d \in Calls \ {r.call} : effects'[d] = effects[d]
           /\ effects'[r.call] = IF r.request.sideEffect THEN effects[r.call] + 1
                                                        ELSE effects[r.call]
           /\ leverage' \in BOOLEAN /\ (leverage => leverage')
           /\ r.request = ChangeLeverage => leverage'
<1> DEFINE n == IF r.request.sideEffect THEN effects[r.call] + 1 ELSE effects[r.call]
<1>1. r.call \in Calls /\ effects \in [Calls -> Nat]
    BY DEF Typed, RequestShape
<1>2. n \in Nat
    BY <1>1
<1>3. effects' = [effects EXCEPT ![r.call] = n]
    BY DEF Applies
<1>4. leverage' \in BOOLEAN /\ (leverage => leverage')
      /\ (r.request = ChangeLeverage => leverage')
    BY Zenon DEF Applies
<1> HIDE DEF n
<1>5. effects' \in [Calls -> Nat] /\ effects'[r.call] = n
      /\ \A d \in Calls \ {r.call} : effects'[d] = effects[d]
    BY <1>1, <1>2, <1>3
<1> QED
    BY <1>4, <1>5 DEF n

-----------------------------------------------------------------------------
(* Each part of the invariant is kept.                                     *)

LEMMA ClocksKept ==
    ASSUME Inv, [Next]_vars
    PROVE  drift' \in {0, 1} /\ offset' \in {0, 1}
<1>1. \A c \in Calls : call[c].time \in {0, 1}
    BY DEF Inv, Typed, CallShape
<1>2. CASE Next
    <2>1. ASSUME NEW c \in Calls, Advance(c)
          PROVE  drift' = drift /\ offset' \in {offset, call[c].time}
        BY <2>1 DEF Advance, Begin, NoResponse, FetchServerTime, FetchServerTimeFails,
                    SyncClock, Replay, clockVars
    <2>2. CASE \E a \in answers : Receive(a)
        BY <2>2 DEF Receive, clockVars, Inv, Typed
    <2>3. CASE \E r \in inFlight : Handle(r) \/ Lose(r)
        BY <2>3 DEF Handle, Lose, clockVars, Inv, Typed
    <2>4. CASE ClockDrifts
        BY <2>4 DEF ClockDrifts, Inv, Typed
    <2> QED
        BY <1>1, <1>2, <2>1, <2>2, <2>3, <2>4 DEF Next, Inv, Typed
<1>3. CASE UNCHANGED vars
    BY <1>3 DEF vars, clockVars, Inv, Typed
<1> QED
    BY <1>2, <1>3

LEMMA TypedKept ==
    ASSUME Inv, [Next]_vars
    PROVE  Typed'
<1>1. drift' \in {0, 1} /\ offset' \in {0, 1}
    BY ClocksKept
<1>2. ASSUME NEW c \in Calls, CallMoves(c), call' \in [Calls -> CallShape]
      PROVE  Typed'
    <2>1. AnswersOfOthers(c) \subseteq AnswerShape
        BY DEF AnswersOfOthers, Inv, Typed
    <2>2. ASSUME NEW op, NEW request \in Operation, NEW try \in Nat, Asks(c, op, request, try)
          PROVE  Typed'
        <3>1. [call |-> c, request |-> request, try |-> try, stamp |-> offset] \in RequestShape
            BY DEF RequestShape, Inv, Typed
        <3> QED
            BY <1>1, <1>2, <2>1, <2>2, <3>1 DEF Asks, exchangeVars, Inv, Typed
    <2>3. CASE Starts(c)
        BY <2>2, <2>3 DEF Starts
    <2>4. CASE Reconciles(c)
        BY <2>2, <2>4 DEF Reconciles, Operation
    <2>5. CASE Replays(c)
        <3>1. call[c].request \in Operation
            BY <2>5 DEF Replays, Inv, CallsAskForTheirOperation, AsksFor, Running, Operation
        <3>2. call[c].try + 1 \in Nat
            BY DEF Inv, Typed, CallShape
        <3> QED
            BY <2>2, <2>5, <3>1, <3>2 DEF Replays
    <2>6. CASE Blocks(c)
        BY <1>1, <1>2, <2>6 DEF Blocks, exchangeVars, Inv, Typed
    <2>7. CASE Tells(c)
        BY <1>1, <1>2, <2>1, <2>7 DEF Tells, Told, exchangeVars, Inv, Typed
    <2> QED
        BY <1>2, <2>3, <2>4, <2>5, <2>6, <2>7 DEF CallMoves
<1>3. ASSUME NEW r \in inFlight, Handle(r) PROVE Typed'
    <2>1. r.call \in Calls /\ call' = call /\ inFlight' = inFlight \ {r}
        BY <1>3 DEF Handle, Inv, Typed, RequestShape
    <2>2. PICK answer \in Answer, known \in BOOLEAN :
              /\ \/ answers' = answers
                 \/ answers' = answers \cup {[call |-> r.call, answer |-> answer,
                                              leverage |-> known]}
              /\ Applies(r) \/ UNCHANGED exchangeVars
        BY <1>3, HandleFacts
    <2>3. answers' \subseteq AnswerShape
        BY <2>1, <2>2 DEF AnswerShape, Inv, Typed
    <2>4. effects' \in [Calls -> Nat] /\ leverage' \in BOOLEAN
        <3>1. effects \in [Calls -> Nat] /\ leverage \in BOOLEAN
            BY DEF Inv, Typed
        <3>2. CASE Applies(r)
            BY <3>2, AppliesFacts DEF Inv
        <3> QED
            BY <2>2, <3>1, <3>2 DEF exchangeVars
    <2> QED
        BY <1>1, <2>1, <2>3, <2>4 DEF Inv, Typed
<1>4. CASE ClockDrifts
    BY <1>1, <1>4 DEF ClockDrifts, exchangeVars, Inv, Typed
<1>5. ASSUME NEW r \in inFlight, Lose(r) PROVE Typed'
    BY <1>1, <1>5 DEF Lose, exchangeVars, Inv, Typed
<1>6. CASE UNCHANGED vars
    BY <1>6 DEF vars, clockVars, exchangeVars, Inv, Typed
<1> QED
    BY <1>2, <1>3, <1>4, <1>5, <1>6, Kinds

LEMMA CallsAskKept ==
    ASSUME Inv, NEW c \in Calls, CallMoves(c), call' \in [Calls -> CallShape]
    PROVE  CallsAskForTheirOperation'
<1> SUFFICES ASSUME NEW d \in Calls
             PROVE  /\ call'[d].at = "idle" => call'[d] = Unused
                    /\ call'[d].at \in Running =>
                           /\ \/ call'[d].request = call'[d].op
                              \/ /\ call'[d].op = ChangeLeverage
                                 /\ call'[d].request = SymbolConfig
                           /\ call'[d].op \in Operation \ {SymbolConfig}
    BY DEF CallsAskForTheirOperation, AsksFor
<1>1. CASE d # c
    <2>1. call'[d] = call[d]
        BY <1>1 DEF CallMoves, Blocks, Starts, Reconciles, Replays, Tells, Asks, Told, Others
    <2> QED
        BY <2>1 DEF Inv, CallsAskForTheirOperation, AsksFor
<1>2. CASE d = c /\ Blocks(c)
    BY <1>2 DEF Blocks, Running
<1>3. CASE d = c /\ Starts(c)
    BY <1>3 DEF Starts, Asks
<1>4. CASE d = c /\ Reconciles(c)
    BY <1>4, Distinct DEF Reconciles, Asks, Operation
<1>5. CASE d = c /\ Replays(c)
    BY <1>5 DEF Replays, Asks, Running, Inv, CallsAskForTheirOperation, AsksFor
<1>6. CASE d = c /\ Tells(c)
    BY <1>6 DEF Running, Ended, Tells, Told, MayTell, Inv, CallsAskForTheirOperation, AsksFor
<1> QED
    BY <1>1, <1>2, <1>3, <1>4, <1>5, <1>6 DEF CallMoves

(* Nothing of an idle call is under way; a call that has reconciled its    *)
(* leverage change asks for nothing else.                                  *)
LEMMA NothingOfIdle ==
    ASSUME Inv, NEW c \in Calls, call[c].at \in {"idle", "blocked"}
    PROVE  (\A r \in inFlight : r.call # c) /\ (\A a \in answers : a.call # c)
BY DEF Inv, RequestsWereSent, AnswersAreAwaited, Waiting

LEMMA LeverageRequests ==
    ASSUME Inv, NEW c \in Calls, Reconciles(c)
    PROVE  /\ call[c].op = ChangeLeverage
           /\ \A r \in inFlight : r.call = c => r.request = ChangeLeverage
<1>1. call[c].op = ChangeLeverage
    BY Distinct DEF Reconciles, Waiting, Running, Inv, CallsAskForTheirOperation, AsksFor
<1>2. ASSUME NEW r \in inFlight, r.call = c PROVE r.request = ChangeLeverage
    BY <1>2, Distinct DEF Inv, RequestsWereSent, Reconciles
<1> QED
    BY <1>1, <1>2

LEMMA RequestsKept ==
    ASSUME Inv, NEW c \in Calls, CallMoves(c), call' \in [Calls -> CallShape]
    PROVE  RequestsWereSent'
<1> DEFINE Part1(r) ==
        /\ call'[r.call].at \notin {"idle", "blocked"}
        /\ \/ r.request = call'[r.call].op
           \/ call'[r.call].op = ChangeLeverage /\ r.request = SymbolConfig
        /\ call'[r.call].op \in Operation \ {SymbolConfig}
        /\ r.request = call'[r.call].request \/ call'[r.call].request = SymbolConfig
        /\ r.request = call'[r.call].request => r.try <= call'[r.call].try
<1>1. \A r \in inFlight : r.call \in Calls /\ r.try \in Nat
    BY DEF Inv, Typed, RequestShape
<1>2. call[c].try \in Nat
    BY DEF Inv, Typed, CallShape
<1>3. ASSUME NEW r \in inFlight, r.call # c PROVE Part1(r)
    <2>1. call'[r.call] = call[r.call]
        BY <1>1, <1>3
        DEF CallMoves, Blocks, Starts, Reconciles, Replays, Tells, Asks, Told, Others
    <2> QED
        BY <1>3, <2>1 DEF Inv, RequestsWereSent, AsksFor
<1>4. ASSUME NEW r \in inFlight, r.call = c PROVE Part1(r)
    <2>1. ~Blocks(c) /\ ~Starts(c)
        BY <1>4, NothingOfIdle DEF Blocks, Starts
    <2>2. CASE Reconciles(c)
        BY <1>4, <2>2, LeverageRequests, Distinct DEF Reconciles, Asks, Operation
    <2>3. CASE Replays(c)
        BY <1>1, <1>2, <1>4, <2>3 DEF Replays, Asks, Inv, RequestsWereSent, AsksFor
    <2>4. CASE Tells(c)
        BY <1>4, <2>4 DEF Running, Ended, Tells, MayTell, Told, Inv, RequestsWereSent, AsksFor
    <2> QED
        BY <2>1, <2>2, <2>3, <2>4 DEF CallMoves
<1>5. ASSUME NEW op, NEW request, NEW try \in Nat, Asks(c, op, request, try),
             op \in Operation \ {SymbolConfig},
             request = op \/ (op = ChangeLeverage /\ request = SymbolConfig),
             \A r \in inFlight : r.call = c => r.request # request \/ r.try # try
      PROVE  RequestsWereSent'
    <2> DEFINE new == [call |-> c, request |-> request, try |-> try, stamp |-> offset]
    <2>1. inFlight' = inFlight \cup {new}
        BY <1>5 DEF Asks
    <2>2. Part1(new)
        BY <1>5 DEF Asks
    <2>3. \A r \in inFlight' : Part1(r)
        BY <1>3, <1>4, <2>1, <2>2
    <2>4. ASSUME NEW r \in inFlight', NEW s \in inFlight',
                 r.call = s.call, r.request = s.request, r.try = s.try
          PROVE  r = s
        <3>1. new.call = c /\ new.request = request /\ new.try = try
            OBVIOUS
        <3> HIDE DEF new
        <3> QED
            BY <1>5, <2>1, <2>4, <3>1 DEF Inv, RequestsWereSent
    <2> HIDE DEF new
    <2> QED
        BY <2>3, <2>4 DEF RequestsWereSent, AsksFor
<1>6. ASSUME inFlight' = inFlight PROVE RequestsWereSent'
    <2>1. \A r \in inFlight' : Part1(r)
        BY <1>3, <1>4, <1>6
    <2> QED
        BY <1>6, <2>1 DEF RequestsWereSent, AsksFor, Inv
<1>7. CASE Starts(c)
    <2>1. PICK op \in Operation \ {SymbolConfig} : Asks(c, op, op, 1)
        BY <1>7 DEF Starts
    <2>2. \A r \in inFlight : r.call # c
        BY <1>7, NothingOfIdle DEF Starts
    <2>3. op \in Operation \ {SymbolConfig} /\ 1 \in Nat
        OBVIOUS
    <2> HIDE DEF Part1
    <2> QED
        BY <1>5, <2>1, <2>2, <2>3, Zenon
<1>8. CASE Reconciles(c)
    <2>1. \A r \in inFlight : r.call = c => r.request # SymbolConfig
        BY <1>8, LeverageRequests, Distinct
    <2>2. Asks(c, ChangeLeverage, SymbolConfig, 1)
        BY <1>8 DEF Reconciles
    <2>3. ChangeLeverage \in Operation \ {SymbolConfig}
        BY Distinct DEF Operation
    <2> HIDE DEF Part1
    <2> QED
        BY <1>5, <2>1, <2>2, <2>3
<1>9. CASE Replays(c)
    <2> DEFINE op == call[c].op
               request == call[c].request
               try == call[c].try + 1
    <2>1. Asks(c, op, request, try) /\ call[c].at = "synced"
        BY <1>9 DEF Replays
    <2>2. /\ op \in Operation \ {SymbolConfig}
          /\ request = op \/ (op = ChangeLeverage /\ request = SymbolConfig)
        BY <2>1 DEF Running, Inv, CallsAskForTheirOperation, AsksFor
    <2>3. try \in Nat /\ \A r \in inFlight : r.call = c => r.request # request \/ r.try # try
        BY <1>1, <1>2 DEF Inv, RequestsWereSent
    <2> HIDE DEF op, request, try, Part1
    <2> QED
        BY <1>5, <2>1, <2>2, <2>3
<1>10. CASE Blocks(c) \/ Tells(c)
    BY <1>6, <1>10 DEF Blocks, Tells, Told
<1> QED
    BY <1>7, <1>8, <1>9, <1>10 DEF CallMoves

(* After a call has moved, no answer to it is under way, and the requests  *)
(* and answers of the others are as before.                                *)
LEMMA MoveFacts ==
    ASSUME Inv, NEW c \in Calls, CallMoves(c)
    PROVE  /\ Others(c) /\ UNCHANGED exchangeVars
           /\ answers' \subseteq answers /\ \A a \in answers' : a.call # c
           /\ \A r \in inFlight' : r.call # c => r \in inFlight
<1>1. CASE Blocks(c)
    BY <1>1, NothingOfIdle DEF Blocks
<1>2. CASE ~Blocks(c)
    BY <1>2 DEF CallMoves, Starts, Reconciles, Replays, Tells, Asks, Told, AnswersOfOthers
<1> QED
    BY <1>1, <1>2

LEMMA AnswersKept ==
    ASSUME Inv, NEW c \in Calls, CallMoves(c), call' \in [Calls -> CallShape]
    PROVE  AnswersAreAwaited'
<1>1. \A a \in answers : a.call \in Calls
    BY DEF Inv, Typed, AnswerShape
<1>2. ASSUME NEW a \in answers'
      PROVE  /\ call'[a.call].at = "waiting"
             /\ \A r \in inFlight' : r.call = a.call =>
                    r.request # call'[a.call].request \/ r.try # call'[a.call].try
    <2>1. a \in answers /\ a.call # c /\ call'[a.call] = call[a.call]
        BY <1>1, <1>2, MoveFacts DEF Others
    <2>2. \A r \in inFlight' : r.call = a.call => r \in inFlight
        BY <2>1, MoveFacts
    <2> QED
        BY <2>1, <2>2 DEF Inv, AnswersAreAwaited, Waiting
<1>3. \A a, b \in answers' : a.call = b.call => a = b
    BY MoveFacts DEF Inv, AnswersAreAwaited
<1> QED
    BY <1>2, <1>3 DEF AnswersAreAwaited, Waiting

LEMMA LeverageKept ==
    ASSUME Inv, NEW c \in Calls, CallMoves(c), call' \in [Calls -> CallShape]
    PROVE  LeverageIsKnown'
<1>1. leverage' = leverage
    BY MoveFacts DEF exchangeVars
<1>2. \A a \in answers' : /\ a.answer = "2xx" /\ call'[a.call].request = ChangeLeverage => leverage
                          /\ a.leverage => leverage
    <2>1. \A a \in answers' : a \in answers /\ call'[a.call] = call[a.call]
        BY MoveFacts DEF Inv, Typed, AnswerShape, Others
    <2> QED
        BY <2>1 DEF Inv, LeverageIsKnown
<1>3. ASSUME NEW d \in Calls, call'[d].op = ChangeLeverage, call'[d].at = "returned"
      PROVE  leverage
    <2>1. CASE d # c
        <3>1. call'[d] = call[d]
            BY <2>1, MoveFacts DEF Others
        <3> QED
            BY <1>3, <3>1 DEF Inv, LeverageIsKnown, LeverageIsConfirmed
    <2>2. CASE d = c
        <3>1. Tells(c)
            BY <1>3, <2>2 DEF CallMoves, Blocks, Starts, Reconciles, Replays, Asks
        <3>2. /\ call[c].op = ChangeLeverage /\ MayTell(c, "returned")
            BY <1>3, <2>2, <3>1 DEF Tells, Told
        <3>3. PICK a \in answers : a.call = c /\ a.answer = "2xx" /\ (Reconciling(c) => a.leverage)
            BY <3>2 DEF MayTell
        <3> QED
            BY <3>2, <3>3 DEF Reconciling, Inv, LeverageIsKnown
    <2> QED
        BY <2>1, <2>2
<1> QED
    BY <1>1, <1>2, <1>3 DEF LeverageIsKnown, LeverageIsConfirmed

LEMMA EffectsKept ==
    ASSUME Inv, NEW c \in Calls, CallMoves(c), call' \in [Calls -> CallShape]
    PROVE  EffectsAreKnown'
<1>1. effects' = effects /\ \A a \in answers' : a.call # c
    BY MoveFacts DEF exchangeVars
<1>2. ASSUME NEW d \in Calls, d # c PROVE EffectIsKnown(d)'
    <2>1. /\ call'[d] = call[d]
          /\ answers' \subseteq answers
          /\ \A r \in inFlight' : r.call = d => r \in inFlight
        BY <1>2, MoveFacts DEF Others
    <2> QED
        BY <1>1, <1>2, <2>1 DEF Inv, EffectsAreKnown, EffectIsKnown, Tracked
<1>3. ASSUME Blocks(c) \/ Starts(c) PROVE EffectIsKnown(c)'
    <2>1. effects[c] = 0 /\ (\A r \in inFlight : r.call # c) /\ call'[c].at # "returned"
        BY <1>3, NothingOfIdle
        DEF Blocks, Starts, Asks, Inv, EffectsAreKnown, EffectIsKnown
    <2>2. CASE Blocks(c)
        BY <1>1, <2>1, <2>2 DEF Blocks, EffectIsKnown, Tracked
    <2>3. CASE Starts(c)
        <3>1. PICK op \in Operation \ {SymbolConfig} : Asks(c, op, op, 1)
            BY <2>3 DEF Starts
        <3> DEFINE new == [call |-> c, request |-> op, try |-> 1, stamp |-> offset]
        <3>2. inFlight' = inFlight \cup {new} /\ call'[c].at = "waiting"
            BY <3>1 DEF Asks
        <3> HIDE DEF new
        <3> QED
            BY <1>1, <2>1, <3>2 DEF EffectIsKnown, Tracked
    <2> QED
        BY <1>3, <2>2, <2>3
<1>4. ASSUME Reconciles(c) PROVE EffectIsKnown(c)'
    <2>1. call'[c].op = ChangeLeverage /\ call'[c].at = "waiting"
        BY <1>4 DEF Reconciles, Asks
    <2> QED
        BY <2>1, Distinct DEF EffectIsKnown, Tracked
<1>5. ASSUME Replays(c) PROVE EffectIsKnown(c)'
    <2>1. /\ call'[c].op = call[c].op /\ call'[c].at = "waiting" /\ call[c].at = "synced"
        BY <1>5 DEF Replays, Asks
    <2>2. CASE Tracked(c)
        <3>1. effects[c] = 0 /\ \A r \in inFlight : r.call # c
            BY <2>1, <2>2 DEF NotDone, Inv, EffectsAreKnown, EffectIsKnown
        <3> DEFINE new == [call |-> c, request |-> call[c].request, try |-> call[c].try + 1,
                           stamp |-> offset]
        <3>2. inFlight' = inFlight \cup {new}
            BY <1>5 DEF Replays, Asks
        <3> HIDE DEF new
        <3> QED
            BY <1>1, <2>1, <2>2, <3>1, <3>2 DEF EffectIsKnown, Tracked
    <2>3. CASE ~Tracked(c)
        BY <1>1, <2>1, <2>3 DEF Inv, EffectsAreKnown, EffectIsKnown, Tracked
    <2> QED
        BY <2>2, <2>3
<1>6. ASSUME Tells(c) PROVE EffectIsKnown(c)'
    <2>1. PICK at : MayTell(c, at) /\ Told(c, at)
        BY <1>6 DEF Tells
    <2>2. /\ call'[c].op = call[c].op /\ call'[c].at = at /\ inFlight' = inFlight
          /\ at \in (Running \cup Ended) \ {"waiting", "blocked"} /\ call[c].at \in Running
        BY <2>1 DEF Told, MayTell
    <2>3. CASE Tracked(c)
        <3>0. at \in NotDone \cup {"returned", "unknown", "misread"}
            BY <2>1, <2>2, <2>3 DEF MayTell, Running, Ended, NotDone
        <3>1. \/ Waiting(c)
              \/ effects[c] = 0 /\ at \in NotDone /\ \A r \in inFlight : r.call # c
            BY <2>1, <2>2, <2>3
            DEF MayTell, Waiting, Running, NotDone, Inv, EffectsAreKnown, EffectIsKnown
        <3>2. at = "returned" => effects[c] = 1 /\ \A r \in inFlight : r.call # c
            BY <2>1, <2>3 DEF MayTell, Inv, EffectsAreKnown, EffectIsKnown
        <3>3. at \in NotDone => effects[c] = 0 /\ \A r \in inFlight : r.call # c
            BY <2>1, <2>3, <3>1 DEF MayTell, Inv, EffectsAreKnown, EffectIsKnown
        <3>4. effects[c] \in {0, 1} /\ \A r, s \in inFlight : r.call = c /\ s.call = c => r = s
            BY <2>3 DEF Inv, EffectsAreKnown, EffectIsKnown
        <3>5. ASSUME NEW r \in inFlight, r.call = c
              PROVE  effects[c] = 0 /\ at = "unknown"
            <4>1. effects[c] = 0
                BY <2>3, <3>5 DEF Inv, EffectsAreKnown, EffectIsKnown
            <4>2. at # "misread"
                BY <2>1, <2>3, <3>5 DEF MayTell, Inv, EffectsAreKnown, EffectIsKnown
            <4> QED
                BY <3>0, <3>2, <3>3, <3>5, <4>1, <4>2
        <3>6. call'[c].at = at /\ at # "absent" /\ at # "idle"
            BY <2>2 , <3>0 DEF NotDone, Running, Ended
        <3>7. at \in NotDone => effects[c] = 0
            BY <3>3
        <3>8. at = "returned" => effects[c] = 1
            BY <3>2
        <3> HIDE DEF NotDone
        <3> QED
            BY <1>1, <2>2, <2>3, <3>4, <3>5, <3>6, <3>7, <3>8
            DEF EffectIsKnown, Tracked
    <2>4. CASE ~Tracked(c)
        BY <1>1, <2>2, <2>4 DEF Inv, EffectsAreKnown, EffectIsKnown, Tracked, Running, Ended
    <2> QED
        BY <2>3, <2>4
<1>7. \A d \in Calls : EffectIsKnown(d)'
    BY <1>2, <1>3, <1>4, <1>5, <1>6 DEF CallMoves
<1> QED
    BY <1>7 DEF EffectsAreKnown

(* The exchange handles a request, or it gets lost: its call does not move,*)
(* and at most one answer to it is added.                                  *)
LEMMA RequestsStay ==
    ASSUME Inv, call' = call, NEW r \in inFlight, inFlight' = inFlight \ {r}
    PROVE  CallsAskForTheirOperation' /\ RequestsWereSent'
BY DEF Inv, CallsAskForTheirOperation, RequestsWereSent, AsksFor

LEMMA LostKept ==
    ASSUME Inv, NEW r \in inFlight, Lose(r)
    PROVE  AnswersAreAwaited' /\ EffectsAreKnown' /\ LeverageIsKnown'
<1>1. /\ call' = call /\ inFlight' = inFlight \ {r} /\ answers' = answers
      /\ effects' = effects /\ leverage' = leverage
    BY DEF Lose, exchangeVars
<1>2. AnswersAreAwaited'
    BY <1>1 DEF Inv, AnswersAreAwaited, Waiting
<1>3. EffectsAreKnown'
    BY <1>1 DEF Inv, EffectsAreKnown, EffectIsKnown, Tracked
<1>4. LeverageIsKnown'
    BY <1>1 DEF Inv, LeverageIsKnown, LeverageIsConfirmed
<1> QED
    BY <1>2, <1>3, <1>4

LEMMA HandledKept ==
    ASSUME Inv, NEW r \in inFlight, Handle(r)
    PROVE  AnswersAreAwaited' /\ EffectsAreKnown' /\ LeverageIsKnown'
<1> DEFINE c == r.call
<1>1. /\ c \in Calls /\ call' = call /\ inFlight' = inFlight \ {r}
      /\ r.request \in Operation
    BY DEF Handle, Inv, Typed, RequestShape
<1>2. PICK answer \in Answer, known \in BOOLEAN :
          /\ \/ answers' = answers
             \/ /\ Waiting(c) /\ call[c].request = r.request /\ call[c].try = r.try
                /\ known => leverage
                /\ answers' = answers \cup {[call |-> c, answer |-> answer,
                                             leverage |-> known]}
          /\ \/ answer \in {"2xx"} \cup Uncertain /\ Applies(r)
             \/ answer # "2xx" /\ UNCHANGED exchangeVars
    BY HandleFacts, Zenon
<1> DEFINE new == [call |-> c, answer |-> answer, leverage |-> known]
<1>3. new.call = c /\ new.answer = answer /\ new.leverage = known
    OBVIOUS
<1>4. ASSUME answers' # answers
      PROVE  /\ Waiting(c) /\ call[c].request = r.request /\ call[c].try = r.try
             /\ known => leverage
             /\ answers' = answers \cup {new} /\ \A a \in answers : a.call # c
    BY <1>2, <1>4 DEF Inv, AnswersAreAwaited
<1> HIDE DEF new
<1>5. AnswersAreAwaited'
    <2>1. ASSUME NEW a \in answers'
          PROVE  /\ Waiting(a.call)
                 /\ \A q \in inFlight' : q.call = a.call =>
                        q.request # call[a.call].request \/ q.try # call[a.call].try
        <3>1. CASE a \in answers
            BY <1>1, <3>1 DEF Inv, AnswersAreAwaited
        <3>2. CASE a \notin answers
            BY <1>1, <1>3, <1>4, <2>1, <3>2 DEF Inv, RequestsWereSent
        <3> QED
            BY <3>1, <3>2
    <2>2. \A a, b \in answers' : a.call = b.call => a = b
        BY <1>3, <1>4 DEF Inv, AnswersAreAwaited
    <2> QED
        BY <1>1, <2>1, <2>2 DEF AnswersAreAwaited, Waiting
<1>6. leverage => leverage'
    BY <1>2, AppliesFacts DEF exchangeVars, Inv
<1>7. answer = "2xx" /\ r.request = ChangeLeverage => leverage'
    BY <1>2, AppliesFacts DEF Inv
<1>8. LeverageIsKnown'
    <2>1. ASSUME NEW a \in answers'
          PROVE  /\ a.answer = "2xx" /\ call[a.call].request = ChangeLeverage => leverage'
                 /\ a.leverage => leverage'
        <3>1. CASE a \in answers
            BY <1>6, <3>1 DEF Inv, LeverageIsKnown
        <3>2. CASE a \notin answers
            BY <1>3, <1>4, <1>6, <1>7, <2>1, <3>2
        <3> QED
            BY <3>1, <3>2
    <2> QED
        BY <1>1, <1>6, <2>1 DEF Inv, LeverageIsKnown, LeverageIsConfirmed
<1>9. EffectsAreKnown'
    <2>1. \A d \in Calls \ {c} : effects'[d] = effects[d]
        BY <1>2, AppliesFacts DEF exchangeVars, Inv
    <2>2. ASSUME NEW d \in Calls, d # c PROVE EffectIsKnown(d)'
        <3>1. \A a \in answers' : a.call = d => a \in answers
            BY <1>3, <1>4, <2>2
        <3> QED
            BY <1>1, <2>1, <2>2, <3>1 DEF Inv, EffectsAreKnown, EffectIsKnown, Tracked
    <2>3. ASSUME Tracked(c) PROVE EffectIsKnown(c)'
        <3>1. r.request = call[c].op /\ r.request.sideEffect
            BY <1>1, <2>3, SideEffects, Distinct DEF Tracked, Inv, RequestsWereSent, AsksFor
        <3>2. /\ effects[c] = 0 /\ call[c].at \in {"waiting", "unknown"}
              /\ \A q \in inFlight' : q.call # c
              /\ \A a \in answers : a.call # c
            BY <1>1, <2>3 DEF Inv, EffectsAreKnown, EffectIsKnown
        <3>3. \/ answer \in {"2xx"} \cup Uncertain /\ effects'[c] = 1
              \/ answer # "2xx" /\ effects'[c] = 0
            BY <1>2, <3>1, <3>2, AppliesFacts DEF exchangeVars, Inv
        <3>4. \A a \in answers' : a.call = c => a.answer = answer
            BY <1>3, <1>4, <3>2
        <3>5. call'[c] = call[c] /\ call[c].at \notin NotDone \cup {"returned"}
            BY <1>1, <3>2 DEF NotDone
        <3>6. \A a \in answers' : a.call = c =>
                  /\ a.answer = "2xx" => effects'[c] = 1
                  /\ a.answer \notin {"2xx"} \cup Uncertain => effects'[c] = 0
            BY <3>3, <3>4
        <3>7. effects'[c] \in {0, 1}
            BY <3>3
        <3> HIDE DEF c
        <3> QED
            BY <2>3, <3>2, <3>5, <3>6, <3>7 DEF EffectIsKnown, Tracked, NotDone
    <2>4. ASSUME ~Tracked(c) PROVE EffectIsKnown(c)'
        <3>1. /\ call[c].at # "idle"
              /\ call[c].op # ChangeLeverage => r.request = call[c].op /\ ~r.request.sideEffect
            BY <1>1, <2>4, SideEffects DEF Tracked, Inv, RequestsWereSent, AsksFor
        <3>2. call[c].op # ChangeLeverage => effects'[c] = effects[c]
            BY <1>2, <3>1, AppliesFacts DEF exchangeVars, Inv
        <3>3. call[c].op # ChangeLeverage => effects'[c] = 0
            BY <1>1, <2>4, <3>2 DEF Inv, EffectsAreKnown, EffectIsKnown
        <3>4. call'[c] = call[c]
            BY <1>1
        <3> HIDE DEF c
        <3> QED
            BY <2>4, <3>1, <3>3, <3>4 DEF EffectIsKnown, Tracked
    <2>5. EffectIsKnown(c)'
        BY <2>3, <2>4
    <2> QED
        BY <2>2, <2>5 DEF EffectsAreKnown
<1> QED
    BY <1>5, <1>8, <1>9

-----------------------------------------------------------------------------
LEMMA InvInit == Init => Inv
<1> SUFFICES ASSUME Init PROVE Inv
    OBVIOUS
<1>1. Unused \in CallShape
    BY DEF Unused, CallShape
<1>2. Typed
    BY <1>1 DEF Init, Typed
<1>3. \A c \in Calls : call[c] = Unused /\ call[c].at = "idle" /\ call[c].op = NoOperation
    BY DEF Init, Unused
<1>4. CallsAskForTheirOperation /\ RequestsWereSent /\ AnswersAreAwaited
    BY <1>3 DEF Init, CallsAskForTheirOperation, RequestsWereSent, AnswersAreAwaited, Running
<1>5. EffectsAreKnown
    BY <1>3, Distinct DEF Init, EffectsAreKnown, EffectIsKnown, Tracked, Operation
<1>6. LeverageIsKnown
    BY <1>3 DEF Init, LeverageIsKnown, LeverageIsConfirmed
<1> QED
    BY <1>2, <1>4, <1>5, <1>6 DEF Inv

LEMMA InvNext == Inv /\ [Next]_vars => Inv'
<1> SUFFICES ASSUME Inv, [Next]_vars PROVE Inv'
    OBVIOUS
<1>1. Typed'
    BY TypedKept
<1>2. ASSUME NEW c \in Calls, CallMoves(c) PROVE Inv'
    <2>1. call' \in [Calls -> CallShape]
        BY <1>1 DEF Typed
    <2> QED
        BY <1>1, <1>2, <2>1, CallsAskKept, RequestsKept, AnswersKept, EffectsKept, LeverageKept
        DEF Inv
<1>3. ASSUME NEW r \in inFlight, Handle(r) \/ Lose(r) PROVE Inv'
    <2>1. call' = call /\ inFlight' = inFlight \ {r}
        BY <1>3 DEF Handle, Lose
    <2> QED
        BY <1>1, <1>3, <2>1, RequestsStay, LostKept, HandledKept DEF Inv
<1>4. CASE ClockDrifts \/ UNCHANGED vars
    <2>1. UNCHANGED <<call, inFlight, answers, effects, leverage>>
        BY <1>4 DEF ClockDrifts, exchangeVars, vars
    <2> QED
        BY <1>1, <2>1
        DEF Inv, CallsAskForTheirOperation, AsksFor, RequestsWereSent, AnswersAreAwaited,
            Waiting, EffectsAreKnown, EffectIsKnown, Tracked, LeverageIsKnown,
            LeverageIsConfirmed
<1> QED
    BY <1>2, <1>3, <1>4, Kinds

LEMMA Invariance == Spec => []Inv
BY InvInit, InvNext, PTL DEF Spec

(* set_um_symbol_leverage returns only when the symbol has the leverage:   *)
(* either its own answer says so, or the configuration that is read after  *)
(* an unknown outcome does (account_gateway.py:160).                        *)
THEOREM LeverageIsConfirmedTheorem == Spec => []LeverageIsConfirmed
<1>1. Inv => LeverageIsConfirmed
    BY DEF Inv, LeverageIsKnown
<1> QED
    BY <1>1, Invariance, PTL

-----------------------------------------------------------------------------
(* The refinement of SideEffect.                                           *)

EffectOf(c) == IF call[c].op = ChangeLeverage THEN 0 ELSE effects[c]

LEMMA InitRefines == Init => Promised!Init
BY Distinct DEF Init, Promised!Init, Unused, Promise, MisreadCalls, Operation

(* What an ended call was told is true but for a misread answer, and one   *)
(* that runs was told nothing.                                             *)
PromiseIsKept(c) ==
    /\ Promise(call[c]) \in {"pending", "done", "refused", "unknown"}
    /\ call[c].at \notin Ended => Promise(call[c]) = "pending"
    /\ Promise(call[c]) = "done" => EffectOf(c) = 1
    /\ Promise(call[c]) = "refused" => EffectOf(c) = 0 \/ c \in MisreadCalls
    /\ c \in MisreadCalls => Promise(call[c]) = "refused"

LEMMA PromisesAreKept == Inv => \A c \in Calls : PromiseIsKept(c)
<1> SUFFICES ASSUME Inv, NEW c \in Calls PROVE PromiseIsKept(c)
    OBVIOUS
<1>1. CASE ~Tracked(c) \/ call[c].at \notin Ended
    BY <1>1 DEF PromiseIsKept, Promise, MisreadCalls, Tracked, Ended
<1>2. CASE Tracked(c) /\ call[c].at \in Ended
    <2>1. EffectOf(c) = effects[c]
        BY <1>2, Distinct DEF EffectOf, Tracked
    <2>2. CASE call[c].at = "returned"
        BY <1>2, <2>1, <2>2
        DEF PromiseIsKept, Promise, MisreadCalls, Tracked, Ended, Inv, EffectsAreKnown, EffectIsKnown
    <2>3. CASE call[c].at \in {"rejected", "raised", "blocked"}
        BY <1>2, <2>1, <2>3
        DEF PromiseIsKept, Promise, MisreadCalls, Tracked, Ended, NotDone, Inv, EffectsAreKnown, EffectIsKnown
    <2>4. CASE call[c].at \in {"unknown", "misread"}
        BY <1>2, <2>4 DEF PromiseIsKept, Promise, MisreadCalls, Tracked, Ended
    <2>5. call[c].at # "absent"
        BY <1>2 DEF Inv, EffectsAreKnown, EffectIsKnown
    <2> QED
        BY <1>2, <2>2, <2>3, <2>4, <2>5 DEF Ended
<1> QED
    BY <1>1, <1>2

LEMMA PromisesAreStillKept == Inv' => (\A c \in Calls : PromiseIsKept(c))'
BY PromisesAreKept, PTL

LEMMA MoveRefines ==
    ASSUME Inv, Inv', NEW c \in Calls, CallMoves(c)
    PROVE  [Promised!Next]_(Promised!vars)
<1> DEFINE effectBar == [d \in Calls |-> EffectOf(d)]
           verdictBar == [d \in Calls |-> Promise(call[d])]
<1>1. effects' = effects /\ \A d \in Calls \ {c} : call'[d] = call[d]
    BY MoveFacts DEF exchangeVars, Others
<1>2. \A d \in Calls \ {c} : /\ EffectOf(d)' = EffectOf(d)
                              /\ Promise(call[d])' = Promise(call[d])
                              /\ (d \in MisreadCalls' <=> d \in MisreadCalls)
    BY <1>1 DEF EffectOf, MisreadCalls
<1>3. call[c].at \notin Ended
    BY DEF CallMoves, Blocks, Starts, Reconciles, Replays, Tells, MayTell, Waiting, Running, Ended
<1>4. EffectOf(c)' = EffectOf(c)
    <2>1. CASE Blocks(c) \/ Starts(c)
        BY <1>1, <2>1 DEF Blocks, Starts, EffectOf, Inv, EffectsAreKnown, EffectIsKnown
    <2>2. CASE Reconciles(c) \/ Replays(c) \/ Tells(c)
        <3>1. call'[c].op = call[c].op
            BY <2>2, LeverageRequests DEF Reconciles, Replays, Tells, Asks, Told
        <3> QED
            BY <1>1, <3>1 DEF EffectOf
    <2> QED
        BY <2>1, <2>2 DEF CallMoves
<1>5. effectBar' = effectBar
    BY <1>2, <1>4
<1>6. Promise(call[c]) = "pending" /\ c \notin MisreadCalls
    BY <1>3, PromisesAreKept DEF PromiseIsKept
<1>7. verdictBar' = [verdictBar EXCEPT ![c] = Promise(call[c])']
    BY <1>2
<1>8. /\ Promise(call[c])' \in {"pending", "done", "refused", "unknown"}
      /\ Promise(call[c])' = "done" => EffectOf(c)' = 1
      /\ Promise(call[c])' = "refused" => EffectOf(c)' = 0 \/ c \in MisreadCalls'
      /\ c \in MisreadCalls' => Promise(call[c])' = "refused"
    BY PromisesAreStillKept DEF PromiseIsKept
<1>9. effectBar[c] = EffectOf(c) /\ verdictBar[c] = Promise(call[c])
    OBVIOUS
<1> DEFINE told == Promise(call[c])'
           had == EffectOf(c)
           wrong == c \in MisreadCalls'
<1>10. MisreadCalls' = IF wrong THEN MisreadCalls \cup {c} ELSE MisreadCalls
    BY <1>2, <1>6 DEF MisreadCalls
<1> HIDE DEF told, had, wrong
<1>11. CASE told = "pending"
    <2>1. verdictBar' = verdictBar /\ MisreadCalls' = MisreadCalls
        BY <1>2, <1>6, <1>8, <1>10, <1>11 DEF told, wrong
    <2> QED
        BY <1>5, <2>1 DEF Promised!vars, effectBar, verdictBar, EffectOf
<1>12. CASE told # "pending"
    <2>1. Promised!Tell(c, told)
        BY <1>5, <1>6, <1>7 DEF Promised!Tell, told, effectBar, verdictBar, EffectOf
    <2>2. \/ ~wrong /\ (\/ told = "unknown"
                        \/ told = "done" /\ effectBar[c] = 1
                        \/ told = "refused" /\ effectBar[c] = 0)
          \/ wrong /\ told = "refused"
        BY <1>4, <1>8, <1>12 DEF told, wrong
    <2>3. CASE ~wrong
        <3>1. MisreadCalls' = MisreadCalls
            BY <1>10, <2>3
        <3> QED
            BY <2>1, <2>2, <2>3, <3>1 DEF Promised!Next, effectBar, EffectOf
    <2>4. CASE wrong
        <3>1. MisreadCalls' = MisreadCalls \cup {c}
            BY <1>10, <2>4
        <3>2. Promised!Misread(c)
            BY <2>1, <2>2, <2>4, <3>1 DEF Promised!Misread
        <3> QED
            BY <3>2 DEF Promised!Next
    <2> QED
        BY <2>3, <2>4
<1> QED
    BY <1>11, <1>12

(* A tracked request takes effect when the exchange applies it: its call   *)
(* has been told nothing, or that its outcome is not known.                *)
LEMMA HandleRefines ==
    ASSUME Inv, NEW r \in inFlight, Handle(r)
    PROVE  [Promised!Next]_(Promised!vars)
<1> DEFINE c == r.call
           effectBar == [d \in Calls |-> EffectOf(d)]
           verdictBar == [d \in Calls |-> Promise(call[d])]
<1>1. c \in Calls /\ r.request \in Operation /\ call' = call
    BY DEF Handle, Inv, Typed, RequestShape
<1>2. Applies(r) \/ UNCHANGED exchangeVars
    BY DEF Handle
<1>3. \A d \in Calls \ {c} : effects'[d] = effects[d]
    BY <1>2, AppliesFacts DEF exchangeVars, Inv
<1>4. effects'[c] = effects[c] \/ (r.request.sideEffect /\ effects'[c] = effects[c] + 1)
    BY <1>2, AppliesFacts DEF exchangeVars, Inv
<1>5. \A d \in Calls \ {c} : EffectOf(d)' = EffectOf(d)
    BY <1>1, <1>3 DEF EffectOf
<1>6. verdictBar' = verdictBar /\ MisreadCalls' = MisreadCalls
    BY <1>1 DEF MisreadCalls
<1>7. CASE EffectOf(c)' = EffectOf(c)
    <2>1. effectBar' = effectBar
        BY <1>5, <1>7
    <2> QED
        BY <1>6, <2>1 DEF Promised!vars, effectBar, verdictBar, EffectOf
<1>8. CASE EffectOf(c)' # EffectOf(c)
    <2>1. /\ r.request.sideEffect /\ effects'[c] = effects[c] + 1
          /\ call[c].op # ChangeLeverage
        BY <1>1, <1>4, <1>8 DEF EffectOf
    <2>2. Tracked(c)
        BY <1>1, <2>1, SideEffects, Distinct DEF Tracked, Inv, RequestsWereSent, AsksFor
    <2>3. effects[c] = 0 /\ call[c].at \in {"waiting", "unknown"}
        BY <1>1, <2>2 DEF Inv, EffectsAreKnown, EffectIsKnown
    <2>4. Promise(call[c]) \in {"pending", "unknown"}
        BY <2>2, <2>3 DEF Promise, Tracked, Ended
    <2>5. EffectOf(c) = 0 /\ EffectOf(c)' = 1
        BY <1>1, <2>1, <2>3 DEF EffectOf
    <2>6. effectBar' = [effectBar EXCEPT ![c] = 1]
        BY <1>5, <2>5
    <2>7. Promised!TakeEffect(c)
        BY <1>1, <1>6, <2>4, <2>5, <2>6
        DEF Promised!TakeEffect, effectBar, verdictBar, EffectOf
    <2> QED
        BY <1>1, <2>7 DEF Promised!Next
<1> QED
    BY <1>7, <1>8

LEMMA StepRefines == Inv /\ Inv' /\ [Next]_vars => [Promised!Next]_(Promised!vars)
<1> SUFFICES ASSUME Inv, Inv', [Next]_vars PROVE [Promised!Next]_(Promised!vars)
    OBVIOUS
<1>1. CASE \E c \in Calls : CallMoves(c)
    BY <1>1, MoveRefines
<1>2. CASE \E r \in inFlight : Handle(r)
    BY <1>2, HandleRefines
<1>3. CASE (\E r \in inFlight : Lose(r)) \/ ClockDrifts \/ UNCHANGED vars
    <2>1. UNCHANGED <<call, effects>>
        BY <1>3 DEF Lose, ClockDrifts, exchangeVars, vars
    <2> QED
        BY <2>1 DEF Promised!vars, MisreadCalls
<1> QED
    BY <1>1, <1>2, <1>3, Kinds

(* Whatever gets lost, arrives late, is replayed after a clock             *)
(* resynchronization or reconciled, an order, a cancellation and a         *)
(* collection of funds take effect at most once; one that is reported as   *)
(* done has taken effect, and one that is reported as refused never does   *)
(* (rest_client.py:55, order_service.py:78), unless the refusal is the     *)
(* code's reading of a server error or of an unreadable body: that it does *)
(* not hold there is a step of SideEffect.                                 *)
THEOREM ImplementsSideEffectTheorem == Spec => ImplementsSideEffect
BY InitRefines, StepRefines, Invariance, PTL DEF Spec, Promised!Spec, ImplementsSideEffect
=============================================================================

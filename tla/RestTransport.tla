---------------------------- MODULE RestTransport ----------------------------
(***************************************************************************)
(* The way of a request to Binance: the live-trading guards, the trading   *)
(* and account gateways, BinanceRestClient.request with its single replay  *)
(* after a clock resynchronization, the clock all clients share, and the   *)
(* classification of what comes back.                                      *)
(*                                                                         *)
(* A call is one use of a gateway by one thread.  Requests and answers are *)
(* on the way between it and the exchange; a caller that stops waiting     *)
(* does not stop its request.  A timestamp is the clock offset it was made *)
(* with: the exchange refuses it if its own clock has drifted from it by   *)
(* more than recvWindow, that is, if it is not the current drift.          *)
(***************************************************************************)
EXTENDS Naturals, FiniteSets

CONSTANTS
    Calls,           \* uses of the gateways
    MaxFaults        \* bound on drifts, timeouts, lost and uncertain answers

ASSUME TransportAssumption == MaxFaults \in Nat

VARIABLES
    live,            \* CHOXR_LIVE_TRADING
    call,            \* where each call stands
    inFlight,        \* requests under way to the exchange
    answers,         \* answers under way to their calls
    effects,         \* how often the exchange has applied each call's request
    leverage,        \* the symbol's leverage is what a leverage call asks for
    drift,           \* of the exchange's clock against the local one
    offset,          \* ServerClock._offset_ms
    faults

clockVars == <<drift, offset>>
exchangeVars == <<effects, leverage>>
vars == <<live, call, inFlight, answers, exchangeVars, clockVars, faults>>

-----------------------------------------------------------------------------
(* The requests.  Every one of the program's is flagged like one of these; *)
(* "collect" is the manual fund collection.                                *)

PlaceOrder == [name |-> "place", signed |-> TRUE, sideEffect |-> TRUE]
CancelOrder == [name |-> "cancel", signed |-> TRUE, sideEffect |-> TRUE]
ChangeLeverage == [name |-> "leverage", signed |-> TRUE, sideEffect |-> TRUE]
CollectFunds == [name |-> "collect", signed |-> TRUE, sideEffect |-> TRUE]
QueryOrder == [name |-> "query", signed |-> TRUE, sideEffect |-> FALSE]
SymbolConfig == [name |-> "config", signed |-> TRUE, sideEffect |-> FALSE]
ListenKey == [name |-> "listenKey", signed |-> FALSE, sideEffect |-> FALSE]

Operation == {PlaceOrder, CancelOrder, ChangeLeverage, CollectFunds,
              QueryOrder, SymbolConfig, ListenKey}

(* Submissions, cancellations, leverage changes and fund collections pass  *)
(* LiveTradingGuard or LiveAccountGuard.                                   *)
Guarded(op) == op.sideEffect

NoOperation == [name |-> "none", signed |-> FALSE, sideEffect |-> FALSE]

-----------------------------------------------------------------------------
(* What the exchange can answer, by what error_for_response tells apart.   *)
(* "5xx" is any status of 500 or more but the documented unknown outcome:  *)
(* 500, 502 or 504, from the exchange or from a proxy before it.           *)
(* "unreadable" has a status of success and a body that is no JSON.        *)
NotApplied == {"-1021", "4xx", "401", "418", "429"}

(* These do not tell whether the request was applied, and the last two are *)
(* not taken for an unknown outcome.  Whoever gives them is done with it.  *)
Unclear == {"5xx", "unreadable"}
Uncertain == {"-1007", "503-unknown"} \cup Unclear
Answer == {"2xx", "-2013"} \cup NotApplied \cup Uncertain

ErrorForResponse(answer, sideEffect) ==
    CASE answer = "-1007" /\ sideEffect      -> "UnknownExecutionOutcome"
      [] answer = "-1007" /\ ~sideEffect     -> "BinanceServerError"
      [] answer = "418"                      -> "BinanceIpBanError"
      [] answer = "429"                      -> "BinanceRateLimitError"
      [] answer = "401"                      -> "BinanceAuthenticationError"
      [] answer = "503-unknown" /\ sideEffect  -> "UnknownExecutionOutcome"
      [] answer = "503-unknown" /\ ~sideEffect -> "BinanceServerError"
      [] answer = "5xx"                      -> "BinanceServerError"
      [] answer \in {"-1021", "4xx", "-2013", "unreadable"}
                                             -> "BinanceRequestError"

ErrorForNoResponse(sideEffect) ==
    IF sideEffect THEN "UnknownExecutionOutcome" ELSE "BinanceNetworkError"

(* What the gateways make of an error: a submission is rejected by any     *)
(* error but the unknown outcome, a query of an order the exchange does    *)
(* not have finds nothing, other errors are raised as they are.  "misread" *)
(* is that rejection, or error raised, when it rests on an unclear answer. *)
Verdict(op, error, answer) ==
    IF error = "UnknownExecutionOutcome" THEN "unknown"
    ELSE IF answer \in Unclear THEN "misread"
    ELSE IF op = PlaceOrder THEN "rejected"
    ELSE IF op = QueryOrder /\ answer = "-2013" THEN "absent"
    ELSE "raised"

Ended == {"returned", "absent", "rejected", "unknown", "raised", "misread",
          "blocked"}

(* What a call was made for, the request it waits for, the attempt, and    *)
(* the server time it has fetched.                                         *)
Unused == [op |-> NoOperation, request |-> NoOperation, at |-> "idle",
           try |-> 0, time |-> 0]

Fault == faults < MaxFaults /\ faults' = faults + 1

Init ==
    /\ live \in BOOLEAN
    /\ call = [c \in Calls |-> Unused]
    /\ inFlight = {}
    /\ answers = {}
    /\ effects = [c \in Calls |-> 0]
    /\ leverage \in BOOLEAN
    /\ drift = 0 /\ offset = 0
    /\ faults = 0


-----------------------------------------------------------------------------
(* _request_once: the timestamp is taken when the request is made.         *)
Send(c, op, request, try) ==
    /\ inFlight' = inFlight \cup
           {[call |-> c, request |-> request, try |-> try, stamp |-> offset]}
    /\ call' = [call EXCEPT ![c] = [op |-> op, request |-> request,
                                    at |-> "waiting", try |-> try, time |-> 0]]

End(c, verdict) == call' = [call EXCEPT ![c].at = verdict]

Waiting(c) == call[c].at = "waiting"

(* The call's request, or its answer, is still under way.                  *)
UnderWay(c) ==
    \/ \E a \in answers : a.call = c
    \/ \E r \in inFlight : /\ r.call = c
                           /\ r.request = call[c].request
                           /\ r.try = call[c].try

Begin(c) ==
    /\ call[c].at = "idle"
    /\ \E op \in Operation \ {SymbolConfig} :
           IF Guarded(op) /\ ~live
           THEN /\ call' = [call EXCEPT ![c].op = op, ![c].at = "blocked"]
                /\ UNCHANGED inFlight
           ELSE Send(c, op, op, 1)
    /\ UNCHANGED <<live, answers, exchangeVars, clockVars, faults>>

(* A leverage change of unknown outcome is reconciled: it has succeeded if *)
(* the symbol's configuration says so, and else that error is raised.      *)
Reconciling(c) == call[c].request # call[c].op

(* Mutant: a leverage change that timed out is taken for done.             *)
SettleLeverage(c, error, answer) ==
    /\ End(c, IF call[c].op = ChangeLeverage THEN "returned"
              ELSE Verdict(call[c].op, error, answer))
    /\ UNCHANGED inFlight

Settle(c, error, answer) ==
    IF /\ call[c].request = ChangeLeverage
       /\ error = "UnknownExecutionOutcome"
    THEN Send(c, ChangeLeverage, SymbolConfig, 1)
    ELSE /\ End(c, IF Reconciling(c) THEN "raised"
                   ELSE Verdict(call[c].op, error, answer))
         /\ UNCHANGED inFlight

(* Mutant: a write that got no answer is sent once more.                   *)
NoResponseResent(c) ==
    /\ Waiting(c)
    /\ Fault \/ (~UnderWay(c) /\ faults' = faults)
    /\ IF call[c].try = 1
       THEN Send(c, call[c].op, call[c].request, 2)
       ELSE Settle(c, ErrorForNoResponse(call[c].request.sideEffect), "none")
    /\ answers' = {a \in answers : a.call # c}
    /\ UNCHANGED <<live, exchangeVars, clockVars>>

(* Mutant: requests are made without a timeout.                            *)
NoResponseBrokenOnly(c) ==
    /\ Waiting(c)
    /\ Fault
    /\ Settle(c, ErrorForNoResponse(call[c].request.sideEffect), "none")
    /\ answers' = {a \in answers : a.call # c}
    /\ UNCHANGED <<live, exchangeVars, clockVars>>

(* No answer within the timeout, or a broken connection.  The request may  *)
(* still reach the exchange, an answer under way is no longer read.        *)
NoResponse(c) ==
    /\ Waiting(c)
    /\ Fault \/ (~UnderWay(c) /\ faults' = faults)
    /\ Settle(c, ErrorForNoResponse(call[c].request.sideEffect), "none")
    /\ answers' = {a \in answers : a.call # c}
    /\ UNCHANGED <<live, exchangeVars, clockVars>>

(* request: only -1021 on a signed request, and only once, is replayed.    *)
MayReplay(c, answer) ==
    answer = "-1021" /\ call[c].request.signed /\ call[c].try = 1

Receive(a) ==
    LET c == a.call IN
    /\ answers' = answers \ {a}
    /\ IF MayReplay(c, a.answer)
       THEN End(c, "syncing") /\ UNCHANGED inFlight
       ELSE IF a.answer # "2xx"
       THEN Settle(c, ErrorForResponse(a.answer, call[c].request.sideEffect),
                   a.answer)
       ELSE /\ End(c, IF Reconciling(c) /\ ~a.leverage THEN "unknown"
                      ELSE "returned")
            /\ UNCHANGED inFlight
    /\ UNCHANGED <<live, exchangeVars, clockVars, faults>>

(* sync_clock reads the server's time, sets the shared offset, and         *)
(* the request is made anew.  A failure to read it ends the call.          *)
FetchServerTime(c) ==
    /\ call[c].at = "syncing"
    /\ call' = [call EXCEPT ![c].at = "fetched", ![c].time = drift]
    /\ UNCHANGED <<live, inFlight, answers, exchangeVars, clockVars, faults>>

FetchServerTimeFails(c) ==
    /\ call[c].at = "syncing"
    /\ Fault
    /\ Settle(c, "BinanceNetworkError", "none")
    /\ UNCHANGED <<live, answers, exchangeVars, clockVars>>

SyncClock(c) ==
    /\ call[c].at = "fetched"
    /\ offset' = call[c].time
    /\ End(c, "synced")
    /\ UNCHANGED <<live, inFlight, answers, exchangeVars, drift, faults>>

Replay(c) ==
    /\ call[c].at = "synced"
    /\ Send(c, call[c].op, call[c].request, call[c].try + 1)
    /\ UNCHANGED <<live, answers, exchangeVars, clockVars, faults>>

-----------------------------------------------------------------------------
(* The exchange: it refuses a stale timestamp before anything else, and    *)
(* may be late: a request can be handled after its caller has given up.    *)
AnswersTo(r) ==
    IF r.request.signed /\ r.stamp # drift THEN {"-1021"}
    ELSE {"2xx"} \cup (NotApplied \ {"-1021"})
         \cup (IF faults < MaxFaults THEN Uncertain ELSE {})
         \cup (IF r.request = QueryOrder THEN {"-2013"} ELSE {})

Applies(r) ==
    /\ effects' = [effects EXCEPT ![r.call] =
                       IF r.request.sideEffect THEN @ + 1 ELSE @]
    /\ leverage' = (leverage \/ r.request = ChangeLeverage)

Handle(r) ==
    \E answer \in AnswersTo(r) :
        /\ inFlight' = inFlight \ {r}
        /\ \/ answer \in {"2xx"} \cup Uncertain /\ Applies(r)
           \/ answer # "2xx" /\ UNCHANGED exchangeVars
        /\ faults' = IF answer \in Uncertain THEN faults + 1 ELSE faults
        /\ answers' =
               IF Waiting(r.call) /\ call[r.call].request = r.request
                                  /\ call[r.call].try = r.try
               THEN answers \cup {[call |-> r.call, answer |-> answer,
                                   leverage |-> /\ leverage
                                                /\ r.request = SymbolConfig]}
               ELSE answers
        /\ UNCHANGED <<live, call, clockVars>>

(* A request that never reaches the exchange.                              *)
Lose(r) ==
    /\ Fault
    /\ inFlight' = inFlight \ {r}
    /\ UNCHANGED <<live, call, answers, exchangeVars, clockVars>>

ClockDrifts ==
    /\ Fault
    /\ drift' = 1 - drift
    /\ UNCHANGED <<live, call, inFlight, answers, exchangeVars, offset>>

-----------------------------------------------------------------------------
Advance(c) ==
    \/ Begin(c) \/ NoResponse(c)
    \/ FetchServerTime(c) \/ FetchServerTimeFails(c) \/ SyncClock(c) \/ Replay(c)

Next ==
    \/ \E c \in Calls : Advance(c)
    \/ \E a \in answers : Receive(a)
    \/ \E r \in inFlight : Handle(r) \/ Lose(r)
    \/ ClockDrifts

Spec == Init /\ [][Next]_vars

(* A thread that waits stops waiting; one that runs goes on.               *)
FairSpec ==
    /\ Spec
    /\ \A c \in Calls :
          /\ WF_vars(NoResponse(c))
          /\ WF_vars(FetchServerTime(c))
          /\ WF_vars(SyncClock(c))
          /\ WF_vars(Replay(c))
    /\ WF_vars(\E a \in answers : Receive(a))
    /\ WF_vars(\E r \in inFlight : Handle(r))

-----------------------------------------------------------------------------
(* No answer, replay, drifting clock or late request makes an order be     *)
(* placed or cancelled twice, be reported as done without being so, or     *)
(* take effect after its refusal (rest_client.py:25, order_service.py:78). *)
(* The last fails in the code for one kind of answer, and SideEffect says  *)
(* so in a step of its own: a server error other than the documented       *)
(* unknown outcome (errors.py:81) and a success whose body cannot be read  *)
(* (rest_client.py:152) are a rejection of the order, or an error raised,  *)
(* although the request may have been applied.  No other refusal is wrong. *)
Promise(made) ==
    IF made.op \notin {PlaceOrder, CancelOrder, CollectFunds} \/ made.at \notin Ended
    THEN "pending"
    ELSE IF made.at = "returned" THEN "done"
    ELSE IF made.at = "unknown" THEN "unknown"
    ELSE "refused"

MisreadCalls == {c \in Calls : call[c].at = "misread" /\ Promise(call[c]) = "refused"}

Promised ==
    INSTANCE SideEffect WITH
        Requests <- Calls,
        effects <- [c \in Calls |-> IF call[c].op = ChangeLeverage THEN 0
                                    ELSE effects[c]],
        verdict <- [c \in Calls |-> Promise(call[c])],
        misread <- MisreadCalls

ImplementsSideEffect == Promised!Spec

(* set_um_symbol_leverage returns only when the symbol has the leverage,   *)
(* however the change's own answer got lost.  The maker's size rests on it.*)
(* Every change the program makes asks for the same leverage: that another *)
(* one sets it back in between is not in question here.                    *)
LeverageIsConfirmed ==
    \A c \in Calls :
        call[c].op = ChangeLeverage /\ call[c].at = "returned" => leverage

(* Every call ends, replays and reconciliations included.                  *)
CallsEnd ==
    \A c \in Calls : call[c].at # "idle" ~> call[c].at \in Ended
=============================================================================

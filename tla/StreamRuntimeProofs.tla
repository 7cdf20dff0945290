------------------------ MODULE StreamRuntimeProofs ------------------------
(* What StreamRuntime's runs check on a small instance, for every bound:   *)
(* the start gate, the synchronized flag and the gaps of the stream.       *)
EXTENDS StreamRuntime, SequenceTheorems, TLAPS

-----------------------------------------------------------------------------
(* The inductive invariant, in named parts.                                *)

FrameShape == [type : {"order", "listenKeyExpired"}, version : Nat]

Typed ==
    /\ truth \in Nat /\ known \in Nat /\ atStart \in Nat
    /\ wire \in Seq(FrameShape)
    /\ events \in Seq(Nat)
    /\ signals \in Seq(StreamLifecycleKind)
    /\ monitor \in [at : {"idle", "reconciling", "answered"}, version : Nat]

(* Nobody knows, reports or has been answered more than the exchange has.  *)
NothingIsAhead ==
    /\ known <= truth /\ atStart <= truth /\ monitor.version <= truth
    /\ \A i \in 1 .. Len(events) : events[i] <= truth
    /\ \A i \in 1 .. Len(wire) : wire[i].version <= truth

(* A process that is down has nothing in hand.                             *)
DownIsEmpty ==
    process = "down" =>
        /\ net = "stopped"
        /\ signals = <<>>
        /\ monitor = Idle
        /\ ~synchronized
        /\ gate = "closed"

Up == {"CONNECTED", "RECONNECTED"}

(* The last signal emitted says whether a connection is open, and what the *)
(* monitor holds comes from the last signal once it has handled them all.  *)
StateIsAnnounced ==
    /\ latest \in Up <=> net = "connected"
    /\ signals # <<>> => latest = signals[Len(signals)]
    /\ (synchronized \/ monitor.at # "idle") /\ signals = <<>> => latest \in Up

(* An answer is not older than the process that asked for it.              *)
AnswersAreFresh ==
    /\ monitor.at = "answered" => monitor.version >= atStart
    /\ gate \in {"open", "passed"} => known >= atStart

(* A reconciliation that will cover everything up to now.                  *)
ReconciliationDue ==
    \/ signals # <<>>
    \/ monitor.at = "reconciling"
    \/ monitor.at = "answered" /\ monitor.version = truth

GapsAreCovered ==
    Connected /\ Delivers => truth \in OnItsWay \/ ReconciliationDue

Inv ==
    /\ Typed /\ NothingIsAhead /\ DownIsEmpty
    /\ StateIsAnnounced /\ AnswersAreFresh /\ GapsAreCovered

-----------------------------------------------------------------------------
(* Queues *)

LEMMA AppendFacts ==
    ASSUME NEW S, NEW s \in Seq(S), NEW e \in S
    PROVE  /\ Append(s, e) \in Seq(S)
           /\ Append(s, e) # <<>>
           /\ Len(Append(s, e)) = Len(s) + 1
           /\ Append(s, e)[Len(s) + 1] = e
           /\ \A i \in 1 .. Len(s) : Append(s, e)[i] = s[i]
OBVIOUS

LEMMA TailFacts ==
    ASSUME NEW S, NEW s \in Seq(S), s # <<>>
    PROVE  /\ Tail(s) \in Seq(S)
           /\ Len(s) \in Nat \ {0} /\ Len(Tail(s)) = Len(s) - 1
           /\ Head(s) = s[1] /\ Head(s) \in S
           /\ \A i \in 1 .. Len(s) - 1 : Tail(s)[i] = s[i + 1]
           /\ Tail(s) = <<>> <=> Len(s) = 1
<1>1. Len(s) \in Nat \ {0} /\ Len(<<>>) = 0
    BY EmptySeq
<1>2. /\ Head(s) \in S /\ Tail(s) \in Seq(S) /\ Len(Tail(s)) = Len(s) - 1
      /\ \A i \in 1 .. Len(s) - 1 : Tail(s)[i] = s[i + 1]
    BY HeadTailProperties
<1>3. Head(s) = s[1]
    OBVIOUS
<1>4. Tail(s) # <<>> => Len(Tail(s)) \in Nat \ {0}
    BY <1>2, EmptySeq
<1>5. Tail(s) = <<>> => Len(Tail(s)) = 0
    BY <1>1, Zenon
<1>6. Tail(s) = <<>> <=> Len(s) = 1
    <2> DEFINE n == Len(s)
               m == Len(Tail(s))
    <2>1. n \in Nat \ {0} /\ m = n - 1
        BY <1>1, <1>2
    <2>2. Tail(s) # <<>> => m \in Nat \ {0}
        BY <1>4
    <2>3. Tail(s) = <<>> => m = 0
        BY <1>5
    <2> HIDE DEF n, m
    <2>4. n = 1 <=> m = 0
        BY <2>1
    <2> QED
        BY <2>2, <2>3, <2>4 DEF n
<1> QED
    BY <1>1, <1>2, <1>3, <1>6, Zenon

LEMMA PrefixFacts ==
    ASSUME NEW S, NEW s \in Seq(S), NEW n \in 0 .. Len(s)
    PROVE  /\ SubSeq(s, 1, n) \in Seq(S)
           /\ Len(SubSeq(s, 1, n)) = n
           /\ \A i \in 1 .. n : SubSeq(s, 1, n)[i] = s[i]
OBVIOUS

LEMMA SignalEmitted ==
    ASSUME Typed, NEW kind \in StreamLifecycleKind, EmitLifecycle(kind)
    PROVE  /\ latest' = kind
           /\ signals' \in Seq(StreamLifecycleKind)
           /\ signals' # <<>> /\ signals'[Len(signals')] = kind
BY AppendFacts, SMT DEF Typed, EmitLifecycle

LEMMA SignalHandled ==
    ASSUME Typed, signals # <<>>, signals' = Tail(signals)
    PROVE  /\ signals' \in Seq(StreamLifecycleKind)
           /\ signals' # <<>> => signals'[Len(signals')] = signals[Len(signals)]
           /\ signals' = <<>> => Head(signals) = signals[Len(signals)]
<1> DEFINE n == Len(signals)
<1>1. signals \in Seq(StreamLifecycleKind)
    BY DEF Typed
<1>2. /\ signals' \in Seq(StreamLifecycleKind)
      /\ n \in Nat \ {0} /\ Len(signals') = n - 1 /\ Head(signals) = signals[1]
      /\ \A i \in 1 .. n - 1 : signals'[i] = signals[i + 1]
      /\ signals' = <<>> <=> n = 1
    BY <1>1, TailFacts
<1> HIDE DEF n
<1>3. signals' # <<>> => n - 1 \in 1 .. n - 1 /\ (n - 1) + 1 = n
    BY <1>2
<1>4. signals' # <<>> => signals'[n - 1] = signals[n]
    BY <1>2, <1>3
<1> QED
    BY <1>2, <1>4 DEF n

-----------------------------------------------------------------------------
(* Every way of the process to end is EndProcess, and every way out of a   *)
(* connection emits a signal: the steps, grouped by what they do.          *)

Ends == /\ EndProcess
        /\ UNCHANGED <<truth, known, atStart, connections>>

Leaves ==
    /\ \/ /\ Connected
          /\ \E n \in RebuildState \cup {"backoff", "connecting"} : LeaveConnection(n)
       \/ net \in {"connecting", Renewing["message"]} /\ LeaveConnection("backoff")
    /\ EmitLifecycle("RECONNECTING")
    /\ UNCHANGED <<exchangeVars, known, process, atStart, key, events,
                   connections, runtimeVars>>

LEMMA Kinds ==
    ASSUME Next
    PROVE  \/ Ends \/ Leaves
           \/ StartListenKey \/ OpenConnection \/ BackoffEnds
           \/ ReceiveOrderEvent \/ DeleteListenKey \/ RenewListenKey
           \/ Runtime \/ ConsumeEvent \/ SubmitMaker \/ Restart
           \/ AccountChanges \/ KeyExpires \/ LinkDrops \/ UNCHANGED vars
<1>1. CASE NetworkFails \/ ReconciliationFails \/ Stop
    BY <1>1 DEF NetworkFails, ReconciliationFails, Stop, StartListenKeyFails,
                ConnectionFails, KeepaliveFails, RenewalFailsAfterMessage,
                RenewalFailsAfterKeepalive, Ends, EndProcess, Leaves, BackOff, Renewing
<1>2. CASE Network
    BY <1>2 DEF Network, ConnectWithoutKey, ReceiveExpired, KeepaliveRefused, Disconnected,
                RebuildKey, Leaves, BackOff, RebuildState, Entered, Connected
<1>3. CASE Rotate
    BY <1>3 DEF Rotate, Leaves
<1> QED
    BY <1>1, <1>2, <1>3 DEF Next, KeepaliveSucceeds

-----------------------------------------------------------------------------
(* Each part of the invariant is kept. *)

LEMMA TypedKept ==
    ASSUME Inv, [Next]_vars
    PROVE  Typed'
<1>1. CASE Ends
    BY <1>1 DEF Ends, EndProcess, LeaveConnection, Inv, Typed, DownIsEmpty, FrameShape,
                Idle
<1>2. CASE Leaves
    <2>1. signals' \in Seq(StreamLifecycleKind)
        BY <1>2, SignalEmitted DEF Leaves, Inv, StreamLifecycleKind
    <2>2. wire' = <<>>
        BY <1>2 DEF Leaves, LeaveConnection
    <2> QED
        BY <1>2, <2>1, <2>2 DEF Leaves, Inv, Typed, exchangeVars, runtimeVars
<1>3. CASE StartListenKey
    BY <1>3 DEF StartListenKey, Inv, Typed, DownIsEmpty, FrameShape, Idle, socketVars,
                signalVars, runtimeVars
<1>4. CASE OpenConnection
    <2>1. signals' \in Seq(StreamLifecycleKind)
        BY <1>4, SignalEmitted DEF OpenConnection, Inv, StreamLifecycleKind
    <2> QED
        BY <1>4, <2>1 DEF OpenConnection, Inv, Typed, exchangeVars, runtimeVars
<1>5. CASE BackoffEnds
    BY <1>5 DEF BackoffEnds, Inv, Typed, DownIsEmpty, FrameShape, Idle, exchangeVars,
                socketVars, signalVars, runtimeVars
<1>6. CASE ReceiveOrderEvent
    <2>1. wire' \in Seq(FrameShape) /\ Head(wire) \in FrameShape
        BY <1>6, TailFacts DEF ReceiveOrderEvent, Inv, Typed
    <2>2. events' \in Seq(Nat)
        BY <1>6, <2>1, AppendFacts DEF ReceiveOrderEvent, Inv, Typed, FrameShape
    <2> QED
        BY <1>6, <2>1, <2>2
        DEF ReceiveOrderEvent, Inv, Typed, exchangeVars, signalVars, runtimeVars
<1>7. CASE DeleteListenKey
    BY <1>7 DEF DeleteListenKey, Deleting, Renewing, Entered, Inv, Typed, DownIsEmpty,
                FrameShape, Idle, socketVars, signalVars, runtimeVars
<1>8. CASE RenewListenKey
    <2>1. signals' \in Seq(StreamLifecycleKind)
        BY <1>8, SignalEmitted DEF RenewListenKey, Inv, StreamLifecycleKind
    <2> QED
        BY <1>8, <2>1 DEF RenewListenKey, Inv, Typed, socketVars, runtimeVars
<1>9. CASE Runtime
    <2>1. CASE ClearSynchronized \/ BeginReconciliation
        <3>1. signals' \in Seq(StreamLifecycleKind)
            BY <2>1, SignalHandled DEF ClearSynchronized, BeginReconciliation, Inv
        <3> QED
            BY <2>1, <3>1 DEF ClearSynchronized, BeginReconciliation, Inv, Typed, Idle,
                              exchangeVars, socketVars
    <2>2. CASE ReadExchange \/ EndReconciliation
        BY <2>2 DEF ReadExchange, EndReconciliation, Inv, Typed, Idle, Later,
                    exchangeVars, socketVars, signalVars
    <2> QED
        BY <1>9, <2>1, <2>2 DEF Runtime
<1>10. CASE ConsumeEvent
    <2>1. events' \in Seq(Nat) /\ Head(events) \in Nat
        BY <1>10, TailFacts DEF ConsumeEvent, Inv, Typed
    <2> QED
        BY <1>10, <2>1 DEF ConsumeEvent, Inv, Typed, Later,
                          exchangeVars, socketVars, signalVars, runtimeVars
<1>11. CASE SubmitMaker
    BY <1>11 DEF SubmitMaker, Inv, Typed, DownIsEmpty, FrameShape, Idle, exchangeVars,
                socketVars, signalVars
<1>12. CASE Restart
    BY <1>12 DEF Restart, StartProcess, Inv, Typed, DownIsEmpty, FrameShape, Idle,
                exchangeVars, socketVars
<1>13. CASE AccountChanges
    <2>1. OrderFrame(truth + 1) \in FrameShape
        BY DEF OrderFrame, FrameShape, Inv, Typed
    <2>2. wire' \in Seq(FrameShape)
        BY <1>13, <2>1, AppendFacts DEF AccountChanges, Inv, Typed
    <2> QED
        BY <1>13, <2>2 DEF AccountChanges, Inv, Typed, signalVars, runtimeVars
<1>14. CASE KeyExpires
    <2>1. ExpiredFrame \in FrameShape
        BY DEF ExpiredFrame, FrameShape
    <2>2. wire' \in Seq(FrameShape)
        BY <1>14, <2>1, AppendFacts DEF KeyExpires, Inv, Typed
    <2> QED
        BY <1>14, <2>2 DEF KeyExpires, Inv, Typed, signalVars, runtimeVars
<1>15. CASE LinkDrops
    <2>1. wire' \in Seq(FrameShape)
        BY <1>15, PrefixFacts DEF LinkDrops, Inv, Typed
    <2> QED
        BY <1>15, <2>1 DEF LinkDrops, Inv, Typed, exchangeVars, signalVars, runtimeVars
<1>16. CASE UNCHANGED vars
    BY <1>16 DEF Inv, Typed, DownIsEmpty, FrameShape, Idle, exchangeVars, socketVars,
                signalVars, runtimeVars, vars
<1> QED
    BY Kinds, <1>1, <1>2, <1>3, <1>4, <1>5, <1>6, <1>7, <1>8, <1>9, <1>10, <1>11, <1>12, <1>13, <1>14, <1>15, <1>16

LEMMA NothingIsAheadKept ==
    ASSUME Inv, Typed', [Next]_vars
    PROVE  NothingIsAhead'
<1>1. CASE Ends
    BY <1>1 DEF Ends, EndProcess, LeaveConnection, Inv, Typed, NothingIsAhead,
                FrameShape, DownIsEmpty, Idle
<1>2. CASE Leaves
    BY <1>2 DEF Leaves, LeaveConnection, EmitLifecycle, StreamLifecycleKind,
                runtimeVars, exchangeVars, Inv, Typed, NothingIsAhead, FrameShape,
                DownIsEmpty, Idle, Later, exchangeVars, socketVars, signalVars,
                runtimeVars, vars
<1>3. CASE StartListenKey
    BY <1>3 DEF StartListenKey, Inv, Typed, NothingIsAhead, FrameShape, DownIsEmpty,
                Idle, socketVars, signalVars, runtimeVars
<1>4. CASE OpenConnection
    BY <1>4 DEF OpenConnection, EmitLifecycle, StreamLifecycleKind, Inv, Typed,
                NothingIsAhead, FrameShape, DownIsEmpty, Idle, exchangeVars, runtimeVars
<1>5. CASE BackoffEnds
    BY <1>5 DEF BackoffEnds, Inv, Typed, NothingIsAhead, FrameShape, DownIsEmpty, Idle,
                exchangeVars, socketVars, signalVars, runtimeVars
<1>6. CASE ReceiveOrderEvent
    <2>1. /\ Head(wire) = wire[1] /\ Len(wire) \in Nat \ {0}
          /\ Head(wire).version \in Nat
          /\ Len(wire') = Len(wire) - 1
          /\ \A i \in 1 .. Len(wire) - 1 : wire'[i] = wire[i + 1]
        BY <1>6, TailFacts DEF ReceiveOrderEvent, Inv, Typed, FrameShape
    <2>2. /\ Len(events') = Len(events) + 1
          /\ events'[Len(events) + 1] = Head(wire).version
          /\ \A i \in 1 .. Len(events) : events'[i] = events[i]
        BY <1>6, <2>1, AppendFacts DEF ReceiveOrderEvent, Inv, Typed
    <2>3. \A i \in 1 .. Len(wire') : wire'[i].version <= truth
        BY <2>1 DEF Inv, NothingIsAhead
    <2>4. \A i \in 1 .. Len(events') : events'[i] <= truth
        <3>1. Len(events) \in Nat /\ \A i \in 1 .. Len(events) : events[i] <= truth
            BY LenProperties DEF Inv, NothingIsAhead, Typed
        <3>2. Head(wire).version <= truth
            BY <2>1 DEF Inv, NothingIsAhead
        <3> QED
            BY <2>2, <3>1, <3>2
    <2> QED
        BY <1>6, <2>3, <2>4
        DEF ReceiveOrderEvent, Inv, NothingIsAhead, exchangeVars, runtimeVars
<1>7. CASE DeleteListenKey
    BY <1>7 DEF DeleteListenKey, Deleting, Renewing, Entered, Inv, Typed,
                NothingIsAhead, FrameShape, DownIsEmpty, Idle, socketVars, signalVars,
                runtimeVars
<1>8. CASE RenewListenKey
    BY <1>8 DEF RenewListenKey, EmitLifecycle, StreamLifecycleKind, Renewing, Inv,
                Typed, NothingIsAhead, FrameShape, DownIsEmpty, Idle, socketVars,
                runtimeVars
<1>9. CASE Runtime
    <2>1. events' = events /\ wire' = wire /\ truth' = truth /\ atStart' = atStart
        BY <1>9 DEF Runtime, ClearSynchronized, BeginReconciliation, ReadExchange,
                    EndReconciliation, exchangeVars, socketVars
    <2>2. known' <= truth /\ monitor'.version <= truth
        <3>1. known <= truth /\ monitor.version <= truth /\ truth \in Nat /\ known \in Nat
            BY DEF Inv, Typed, NothingIsAhead
        <3>2. CASE ClearSynchronized \/ BeginReconciliation
            BY <3>1, <3>2 DEF ClearSynchronized, BeginReconciliation, Idle
        <3>3. CASE ReadExchange
            BY <3>1, <3>3 DEF ReadExchange
        <3>4. CASE EndReconciliation
            BY <3>1, <3>4 DEF EndReconciliation, Idle, Later
        <3> QED
            BY <1>9, <3>2, <3>3, <3>4 DEF Runtime
    <2> QED
        BY <2>1, <2>2 DEF Inv, NothingIsAhead
<1>10. CASE ConsumeEvent
    <2>1. /\ Head(events) = events[1] /\ Len(events) \in Nat \ {0}
          /\ Len(events') = Len(events) - 1
          /\ \A i \in 1 .. Len(events) - 1 : events'[i] = events[i + 1]
        BY <1>10, TailFacts DEF ConsumeEvent, Inv, Typed
    <2>2. \A i \in 1 .. Len(events') : events'[i] <= truth
        BY <2>1 DEF Inv, NothingIsAhead
    <2>3. Head(events) <= truth
        BY <2>1 DEF Inv, NothingIsAhead
    <2> QED
        BY <1>10, <2>2, <2>3
        DEF ConsumeEvent, Inv, NothingIsAhead, Later, exchangeVars, socketVars, runtimeVars
<1>11. CASE SubmitMaker
    BY <1>11 DEF SubmitMaker, Inv, Typed, NothingIsAhead, FrameShape, DownIsEmpty, Idle,
                exchangeVars, socketVars, signalVars
<1>12. CASE Restart
    BY <1>12 DEF Restart, StartProcess, Inv, Typed, NothingIsAhead, FrameShape,
                DownIsEmpty, Idle, exchangeVars, socketVars
<1>13. CASE AccountChanges
    <2>1. truth \in Nat /\ truth' = truth + 1
        BY <1>13 DEF AccountChanges, Inv, Typed
    <2>2. OrderFrame(truth + 1) \in FrameShape /\ OrderFrame(truth + 1).version = truth'
        BY <2>1 DEF OrderFrame, FrameShape
    <2>3. \/ wire' = wire
          \/ /\ Len(wire') = Len(wire) + 1
             /\ wire'[Len(wire) + 1].version = truth'
             /\ \A i \in 1 .. Len(wire) : wire'[i] = wire[i]
        <3>1. wire' = wire \/ wire' = Append(wire, OrderFrame(truth + 1))
            BY <1>13 DEF AccountChanges
        <3>2. wire \in Seq(FrameShape)
            BY DEF Inv, Typed
        <3> QED
            BY <3>1, <3>2, <2>2, AppendFacts
    <2>4. \A i \in 1 .. Len(wire) : wire[i] \in FrameShape
        BY ElementOfSeq DEF Inv, Typed
    <2>5. \A i \in 1 .. Len(wire') : wire'[i].version <= truth'
        <3>1. /\ Len(wire) \in Nat
              /\ \A i \in 1 .. Len(wire) : wire[i].version \in Nat /\ wire[i].version <= truth
            BY <2>4, LenProperties DEF Inv, NothingIsAhead, Typed, FrameShape
        <3>2. CASE wire' = wire
            BY <2>1, <3>1, <3>2
        <3>3. CASE wire' # wire
            <4> SUFFICES ASSUME NEW i \in 1 .. Len(wire') PROVE wire'[i].version <= truth'
                OBVIOUS
            <4>1. CASE i = Len(wire) + 1
                BY <2>1, <2>3, <3>3, <4>1
            <4>2. CASE i # Len(wire) + 1
                <5>1. i \in 1 .. Len(wire) /\ wire'[i] = wire[i]
                    BY <2>3, <3>1, <3>3, <4>2
                <5> QED
                    BY <2>1, <3>1, <5>1
            <4> QED
                BY <4>1, <4>2
        <3> QED
            BY <3>2, <3>3
    <2>6. \A i \in 1 .. Len(events) : events[i] \in Nat
        BY ElementOfSeq DEF Inv, Typed
    <2>7. \A i \in 1 .. Len(events') : events'[i] <= truth'
        BY <1>13, <2>1, <2>6 DEF AccountChanges, Inv, NothingIsAhead
    <2> QED
        BY <1>13, <2>1, <2>5, <2>7 DEF AccountChanges, Inv, NothingIsAhead, Typed, runtimeVars
<1>14. CASE KeyExpires
    <2>1. ExpiredFrame \in FrameShape /\ ExpiredFrame.version = 0
        BY DEF ExpiredFrame, FrameShape
    <2>2. \/ wire' = wire
          \/ /\ Len(wire') = Len(wire) + 1
             /\ wire'[Len(wire) + 1].version = 0
             /\ \A i \in 1 .. Len(wire) : wire'[i] = wire[i]
        <3>1. wire' = wire \/ wire' = Append(wire, ExpiredFrame)
            BY <1>14 DEF KeyExpires
        <3>2. wire \in Seq(FrameShape)
            BY DEF Inv, Typed
        <3> QED
            BY <3>1, <3>2, <2>1, AppendFacts
    <2>3. \A i \in 1 .. Len(wire') : wire'[i].version <= truth
        <3>1. /\ Len(wire) \in Nat /\ truth \in Nat
              /\ \A i \in 1 .. Len(wire) : wire[i].version <= truth
            BY LenProperties DEF Inv, NothingIsAhead, Typed
        <3> QED
            BY <2>2, <3>1
    <2> QED
        BY <1>14, <2>3 DEF KeyExpires, Inv, NothingIsAhead, runtimeVars
<1>15. CASE LinkDrops
    <2>1. PICK n \in 0 .. Len(wire) : wire' = SubSeq(wire, 1, n)
        BY <1>15 DEF LinkDrops
    <2>2. Len(wire') = n /\ \A i \in 1 .. n : wire'[i] = wire[i]
        BY <2>1, PrefixFacts DEF Inv, Typed
    <2>3. \A i \in 1 .. Len(wire') : wire'[i].version <= truth
        <3>1. /\ Len(wire) \in Nat /\ truth \in Nat
              /\ \A i \in 1 .. Len(wire) : wire[i].version <= truth
            BY LenProperties DEF Inv, NothingIsAhead, Typed
        <3> QED
            BY <2>2, <3>1
    <2> QED
        BY <1>15, <2>3 DEF LinkDrops, Inv, NothingIsAhead, exchangeVars, runtimeVars
<1>16. CASE UNCHANGED vars
    BY <1>16 DEF Inv, Typed, NothingIsAhead, FrameShape, DownIsEmpty, Idle,
                exchangeVars, socketVars, signalVars, runtimeVars, vars
<1> QED
    BY Kinds, <1>1, <1>2, <1>3, <1>4, <1>5, <1>6, <1>7, <1>8, <1>9, <1>10, <1>11, <1>12, <1>13, <1>14, <1>15, <1>16

LEMMA DownIsEmptyKept ==
    ASSUME Inv, [Next]_vars
    PROVE  DownIsEmpty'
<1>1. CASE Ends
    BY <1>1 DEF Ends, EndProcess, LeaveConnection, Inv, DownIsEmpty, Idle
<1>2. CASE Leaves
    BY <1>2 DEF Leaves, Connected, Renewing, Inv, DownIsEmpty
<1>3. CASE StartListenKey
    BY <1>3 DEF StartListenKey, Inv, DownIsEmpty, Idle, socketVars, signalVars,
                runtimeVars
<1>4. CASE OpenConnection
    BY <1>4 DEF OpenConnection, EmitLifecycle, StreamLifecycleKind, Inv, DownIsEmpty,
                Idle, exchangeVars, runtimeVars
<1>5. CASE BackoffEnds
    BY <1>5 DEF BackoffEnds, Inv, DownIsEmpty, Idle, exchangeVars, socketVars,
                signalVars, runtimeVars
<1>6. CASE ReceiveOrderEvent
    BY <1>6 DEF ReceiveOrderEvent, Inv, DownIsEmpty, Idle, Connected, exchangeVars,
                signalVars, runtimeVars
<1>7. CASE DeleteListenKey
    BY <1>7 DEF DeleteListenKey, Deleting, Renewing, Entered, Inv, DownIsEmpty, Idle,
                socketVars, signalVars, runtimeVars
<1>8. CASE RenewListenKey
    BY <1>8 DEF RenewListenKey, Renewing, Entered, Inv, DownIsEmpty
<1>9. CASE Runtime
    BY <1>9 DEF Runtime, ClearSynchronized, BeginReconciliation, ReadExchange,
                EndReconciliation, Inv, DownIsEmpty, Idle, exchangeVars, socketVars,
                signalVars
<1>10. CASE ConsumeEvent
    BY <1>10 DEF ConsumeEvent, Inv, DownIsEmpty, Idle, exchangeVars, socketVars,
                signalVars, runtimeVars
<1>11. CASE SubmitMaker
    BY <1>11 DEF SubmitMaker, Inv, DownIsEmpty, Idle, exchangeVars, socketVars,
                signalVars
<1>12. CASE Restart
    BY <1>12 DEF Restart, StartProcess, Inv, DownIsEmpty, Idle, exchangeVars, socketVars
<1>13. CASE AccountChanges
    BY <1>13 DEF AccountChanges, OrderFrame, Delivers, Inv, DownIsEmpty, Idle,
                signalVars, runtimeVars
<1>14. CASE KeyExpires
    BY <1>14 DEF KeyExpires, ExpiredFrame, Fault, Inv, DownIsEmpty, Idle, signalVars,
                runtimeVars
<1>15. CASE LinkDrops
    BY <1>15 DEF LinkDrops, Inv, DownIsEmpty, Idle, exchangeVars, signalVars,
                runtimeVars
<1>16. CASE UNCHANGED vars
    BY <1>16 DEF Inv, DownIsEmpty, Idle, exchangeVars, socketVars, signalVars,
                runtimeVars, vars
<1> QED
    BY Kinds, <1>1, <1>2, <1>3, <1>4, <1>5, <1>6, <1>7, <1>8, <1>9, <1>10, <1>11, <1>12, <1>13, <1>14, <1>15, <1>16

LEMMA StateIsAnnouncedKept ==
    ASSUME Inv, Typed', [Next]_vars
    PROVE  StateIsAnnounced'
<1>1. CASE Ends
    BY <1>1 DEF Ends, EndProcess, LeaveConnection, Inv, Typed, DownIsEmpty,
                StateIsAnnounced, Up, Idle
<1>2. CASE Leaves
    <2>1. signals' # <<>> /\ signals'[Len(signals')] = latest'
        BY <1>2, SignalEmitted DEF Leaves, Inv, StreamLifecycleKind
    <2> QED
        BY <1>2, <2>1 DEF Leaves, LeaveConnection, RebuildState, Entered, Deleting, EmitLifecycle, Renewing, StateIsAnnounced, Up
<1>3. CASE StartListenKey
    BY <1>3 DEF StartListenKey, Inv, Typed, DownIsEmpty, StateIsAnnounced, Up, Idle,
                socketVars, signalVars, runtimeVars
<1>4. CASE OpenConnection
    <2>1. signals' # <<>> /\ signals'[Len(signals')] = latest'
        BY <1>4, SignalEmitted DEF OpenConnection, Inv, StreamLifecycleKind
    <2> QED
        BY <1>4, <2>1 DEF OpenConnection, EmitLifecycle, Renewing, StateIsAnnounced, Up
<1>5. CASE BackoffEnds
    BY <1>5 DEF BackoffEnds, Inv, Typed, DownIsEmpty, StateIsAnnounced, Up, Idle,
                exchangeVars, socketVars, signalVars, runtimeVars
<1>6. CASE ReceiveOrderEvent
    BY <1>6 DEF ReceiveOrderEvent, Inv, Typed, DownIsEmpty, StateIsAnnounced, Up, Idle,
                Connected, exchangeVars, signalVars, runtimeVars
<1>7. CASE DeleteListenKey
    BY <1>7 DEF DeleteListenKey, Deleting, Renewing, Entered, Inv, Typed, DownIsEmpty,
                StateIsAnnounced, Up, Idle, socketVars, signalVars, runtimeVars
<1>8. CASE RenewListenKey
    <2>1. signals' # <<>> /\ signals'[Len(signals')] = latest'
        BY <1>8, SignalEmitted DEF RenewListenKey, Inv, StreamLifecycleKind
    <2> QED
        BY <1>8, <2>1 DEF RenewListenKey, EmitLifecycle, Renewing, StateIsAnnounced, Up
<1>9. CASE Runtime
    <2>1. CASE ClearSynchronized
        <3>1. /\ signals' # <<>> => signals'[Len(signals')] = signals[Len(signals)]
              /\ signals' = <<>> => Head(signals) = signals[Len(signals)]
            BY <2>1, SignalHandled DEF ClearSynchronized, Inv
        <3> QED
            BY <2>1, <3>1 DEF ClearSynchronized, Inv, StateIsAnnounced, Up, Idle
    <2>2. CASE BeginReconciliation
        <3>1. /\ signals' # <<>> => signals'[Len(signals')] = signals[Len(signals)]
              /\ signals' = <<>> => Head(signals) = signals[Len(signals)]
            BY <2>2, SignalHandled DEF BeginReconciliation, Inv
        <3> QED
            BY <2>2, <3>1 DEF BeginReconciliation, Inv, StateIsAnnounced, Up
    <2>3. CASE ReadExchange \/ EndReconciliation
        BY <2>3 DEF ReadExchange, EndReconciliation, Inv, StateIsAnnounced, Idle, signalVars
    <2> QED
        BY <1>9, <2>1, <2>2, <2>3 DEF Runtime
<1>10. CASE ConsumeEvent
    BY <1>10 DEF ConsumeEvent, Inv, Typed, DownIsEmpty, StateIsAnnounced, Up, Idle,
                exchangeVars, socketVars, signalVars, runtimeVars
<1>11. CASE SubmitMaker
    BY <1>11 DEF SubmitMaker, Inv, Typed, DownIsEmpty, StateIsAnnounced, Up, Idle,
                exchangeVars, socketVars, signalVars
<1>12. CASE Restart
    BY <1>12 DEF Restart, StartProcess, Inv, Typed, DownIsEmpty, StateIsAnnounced, Up,
                Idle, exchangeVars, socketVars
<1>13. CASE AccountChanges
    BY <1>13 DEF AccountChanges, OrderFrame, Delivers, Inv, Typed, DownIsEmpty,
                StateIsAnnounced, Up, Idle, signalVars, runtimeVars
<1>14. CASE KeyExpires
    BY <1>14 DEF KeyExpires, ExpiredFrame, Fault, Inv, Typed, DownIsEmpty,
                StateIsAnnounced, Up, Idle, signalVars, runtimeVars
<1>15. CASE LinkDrops
    BY <1>15 DEF LinkDrops, Inv, Typed, DownIsEmpty, StateIsAnnounced, Up, Idle,
                exchangeVars, signalVars, runtimeVars
<1>16. CASE UNCHANGED vars
    BY <1>16 DEF Inv, Typed, DownIsEmpty, StateIsAnnounced, Up, Idle, exchangeVars,
                socketVars, signalVars, runtimeVars, vars
<1> QED
    BY Kinds, <1>1, <1>2, <1>3, <1>4, <1>5, <1>6, <1>7, <1>8, <1>9, <1>10, <1>11, <1>12, <1>13, <1>14, <1>15, <1>16

LEMMA AnswersAreFreshKept ==
    ASSUME Inv, [Next]_vars
    PROVE  AnswersAreFresh'
<1>1. CASE Ends
    BY <1>1 DEF Ends, EndProcess, LeaveConnection, Inv, Typed, NothingIsAhead,
                DownIsEmpty, AnswersAreFresh, Idle
<1>2. CASE Leaves
    BY <1>2 DEF Leaves, LeaveConnection, EmitLifecycle, StreamLifecycleKind,
                runtimeVars, exchangeVars, Inv, Typed, NothingIsAhead, DownIsEmpty,
                AnswersAreFresh, Idle, Later, exchangeVars, socketVars, signalVars,
                runtimeVars, vars
<1>3. CASE StartListenKey
    BY <1>3 DEF StartListenKey, Inv, Typed, NothingIsAhead, DownIsEmpty,
                AnswersAreFresh, Idle, socketVars, signalVars, runtimeVars
<1>4. CASE OpenConnection
    BY <1>4 DEF OpenConnection, EmitLifecycle, StreamLifecycleKind, Inv, Typed,
                NothingIsAhead, DownIsEmpty, AnswersAreFresh, Idle, exchangeVars,
                runtimeVars
<1>5. CASE BackoffEnds
    BY <1>5 DEF BackoffEnds, Inv, Typed, NothingIsAhead, DownIsEmpty, AnswersAreFresh,
                Idle, exchangeVars, socketVars, signalVars, runtimeVars
<1>6. CASE ReceiveOrderEvent
    BY <1>6 DEF ReceiveOrderEvent, Inv, Typed, NothingIsAhead, DownIsEmpty,
                AnswersAreFresh, Idle, exchangeVars, signalVars, runtimeVars
<1>7. CASE DeleteListenKey
    BY <1>7 DEF DeleteListenKey, Deleting, Renewing, Entered, Inv, Typed,
                NothingIsAhead, DownIsEmpty, AnswersAreFresh, Idle, socketVars,
                signalVars, runtimeVars
<1>8. CASE RenewListenKey
    BY <1>8 DEF RenewListenKey, EmitLifecycle, StreamLifecycleKind, Renewing, Inv,
                Typed, NothingIsAhead, DownIsEmpty, AnswersAreFresh, Idle, socketVars,
                runtimeVars
<1>9. CASE Runtime
    BY <1>9 DEF Runtime, ClearSynchronized, BeginReconciliation, ReadExchange,
                EndReconciliation, Inv, Typed, NothingIsAhead, DownIsEmpty,
                AnswersAreFresh, Idle, Later, exchangeVars, socketVars, signalVars
<1>10. CASE ConsumeEvent
    BY <1>10 DEF ConsumeEvent, Inv, Typed, NothingIsAhead, DownIsEmpty, AnswersAreFresh,
                Idle, Later, exchangeVars, socketVars, signalVars, runtimeVars
<1>11. CASE SubmitMaker
    BY <1>11 DEF SubmitMaker, Inv, Typed, NothingIsAhead, DownIsEmpty, AnswersAreFresh,
                Idle, exchangeVars, socketVars, signalVars
<1>12. CASE Restart
    BY <1>12 DEF Restart, StartProcess, Inv, Typed, NothingIsAhead, DownIsEmpty,
                AnswersAreFresh, Idle, exchangeVars, socketVars
<1>13. CASE AccountChanges
    BY <1>13 DEF AccountChanges, OrderFrame, Delivers, Inv, Typed, NothingIsAhead,
                DownIsEmpty, AnswersAreFresh, Idle, signalVars, runtimeVars
<1>14. CASE KeyExpires
    BY <1>14 DEF KeyExpires, ExpiredFrame, Fault, Inv, Typed, NothingIsAhead,
                DownIsEmpty, AnswersAreFresh, Idle, signalVars, runtimeVars
<1>15. CASE LinkDrops
    BY <1>15 DEF LinkDrops, Inv, Typed, NothingIsAhead, DownIsEmpty, AnswersAreFresh,
                Idle, exchangeVars, signalVars, runtimeVars
<1>16. CASE UNCHANGED vars
    BY <1>16 DEF Inv, Typed, NothingIsAhead, DownIsEmpty, AnswersAreFresh, Idle,
                exchangeVars, socketVars, signalVars, runtimeVars, vars
<1> QED
    BY Kinds, <1>1, <1>2, <1>3, <1>4, <1>5, <1>6, <1>7, <1>8, <1>9, <1>10, <1>11, <1>12, <1>13, <1>14, <1>15, <1>16

LEMMA GapsAreCoveredKept ==
    ASSUME Inv, Typed', [Next]_vars
    PROVE  GapsAreCovered'
<1>1. CASE Ends
    BY <1>1 DEF Ends, EndProcess, LeaveConnection, Inv, Typed, NothingIsAhead,
                DownIsEmpty, StateIsAnnounced, GapsAreCovered, ReconciliationDue,
                OnItsWay, Connected, Delivers, Idle, FrameShape, Up
<1>2. CASE Leaves
    BY <1>2 DEF Leaves, LeaveConnection, EmitLifecycle, StreamLifecycleKind,
                runtimeVars, exchangeVars, Inv, Typed, NothingIsAhead, DownIsEmpty,
                StateIsAnnounced, GapsAreCovered, ReconciliationDue, OnItsWay,
                Connected, Delivers, Idle, Later, FrameShape, Up, exchangeVars,
                socketVars, signalVars, runtimeVars, vars
<1>3. CASE StartListenKey
    BY <1>3 DEF StartListenKey, Inv, Typed, NothingIsAhead, DownIsEmpty,
                StateIsAnnounced, GapsAreCovered, ReconciliationDue, OnItsWay,
                Connected, Delivers, Idle, FrameShape, Up, socketVars, signalVars,
                runtimeVars
<1>4. CASE OpenConnection
    BY <1>4 DEF OpenConnection, EmitLifecycle, StreamLifecycleKind, Inv, Typed,
                NothingIsAhead, DownIsEmpty, StateIsAnnounced, GapsAreCovered,
                ReconciliationDue, OnItsWay, Connected, Delivers, Idle, FrameShape, Up,
                exchangeVars, runtimeVars
<1>5. CASE BackoffEnds
    BY <1>5 DEF BackoffEnds, Inv, Typed, NothingIsAhead, DownIsEmpty, StateIsAnnounced,
                GapsAreCovered, ReconciliationDue, OnItsWay, Connected, Delivers, Idle,
                FrameShape, Up, exchangeVars, socketVars, signalVars, runtimeVars
<1>6. CASE ReceiveOrderEvent
    <2>1. /\ Head(wire) = wire[1] /\ Len(wire) \in Nat \ {0}
          /\ Head(wire).version \in Nat
          /\ Len(wire') = Len(wire) - 1
          /\ \A i \in 1 .. Len(wire) - 1 : wire'[i] = wire[i + 1]
        BY <1>6, TailFacts DEF ReceiveOrderEvent, Inv, Typed, FrameShape
    <2>2. /\ Len(events) \in Nat /\ Len(events') = Len(events) + 1
          /\ events'[Len(events) + 1] = Head(wire).version
          /\ \A i \in 1 .. Len(events) : events'[i] = events[i]
        BY <1>6, <2>1, AppendFacts, LenProperties DEF ReceiveOrderEvent, Inv, Typed
    <2>3. ASSUME truth \in OnItsWay PROVE truth \in OnItsWay'
        <3>1. known' = known
            BY <1>6 DEF ReceiveOrderEvent
        <3>2. CASE truth = known
            BY <3>1, <3>2 DEF OnItsWay
        <3>3. ASSUME NEW i \in 1 .. Len(events), truth = events[i]
              PROVE  truth \in OnItsWay'
            <4>1. i \in 1 .. Len(events') /\ events'[i] = truth
                BY <2>2, <3>3
            <4> QED
                BY <4>1 DEF OnItsWay
        <3>4. ASSUME NEW i \in 1 .. Len(wire), truth = wire[i].version
              PROVE  truth \in OnItsWay'
            <4>1. CASE i = 1
                <5>1. Len(events) + 1 \in 1 .. Len(events') /\ events'[Len(events) + 1] = truth
                    BY <2>1, <2>2, <3>4, <4>1
                <5> QED
                    BY <5>1 DEF OnItsWay
            <4>2. CASE i # 1
                <5>1. i - 1 \in 1 .. Len(wire') /\ wire'[i - 1].version = truth
                    BY <2>1, <3>4, <4>2
                <5> QED
                    BY <5>1 DEF OnItsWay
            <4> QED
                BY <4>1, <4>2
        <3> QED
            BY <2>3, <3>2, <3>3, <3>4 DEF OnItsWay
    <2>4. /\ Connected' = Connected /\ Delivers' = Delivers /\ truth' = truth
          /\ ReconciliationDue' = ReconciliationDue
        BY <1>6 DEF ReceiveOrderEvent, Connected, Delivers, ReconciliationDue,
                    exchangeVars, signalVars, runtimeVars
    <2> QED
        BY <2>3, <2>4 DEF Inv, GapsAreCovered
<1>7. CASE DeleteListenKey
    BY <1>7 DEF DeleteListenKey, Deleting, Renewing, Entered, Inv, Typed,
                NothingIsAhead, DownIsEmpty, StateIsAnnounced, GapsAreCovered,
                ReconciliationDue, OnItsWay, Connected, Delivers, Idle, FrameShape, Up,
                socketVars, signalVars, runtimeVars
<1>8. CASE RenewListenKey
    BY <1>8 DEF RenewListenKey, EmitLifecycle, StreamLifecycleKind, Renewing, Inv,
                Typed, NothingIsAhead, DownIsEmpty, StateIsAnnounced, GapsAreCovered,
                ReconciliationDue, OnItsWay, Connected, Delivers, Idle, FrameShape, Up,
                socketVars, runtimeVars
<1>9. CASE Runtime
    <2>1. /\ Connected' = Connected /\ Delivers' = Delivers /\ truth' = truth
          /\ events' = events /\ wire' = wire /\ latest' = latest
        BY <1>9 DEF Runtime, ClearSynchronized, BeginReconciliation, ReadExchange,
                    EndReconciliation, Connected, Delivers, exchangeVars, socketVars, signalVars
    <2>2. CASE ClearSynchronized
        <3>1. ASSUME signals' = <<>> PROVE ~Connected
            <4>1. Head(signals) = signals[Len(signals)]
                BY <2>2, <3>1, SignalHandled DEF ClearSynchronized, Inv
            <4> QED
                BY <2>2, <4>1 DEF ClearSynchronized, Inv, StateIsAnnounced, Up, Connected
        <3> QED
            BY <2>1, <3>1 DEF GapsAreCovered, ReconciliationDue
    <2>3. CASE BeginReconciliation
        BY <2>1, <2>3 DEF BeginReconciliation, GapsAreCovered, ReconciliationDue
    <2>4. CASE ReadExchange
        BY <2>1, <2>4 DEF ReadExchange, GapsAreCovered, ReconciliationDue
    <2>5. CASE EndReconciliation
        <3>1. signals' = signals /\ monitor.at = "answered"
            BY <2>5 DEF EndReconciliation, signalVars
        <3>2. /\ known \in Nat /\ truth \in Nat /\ monitor.version \in Nat
              /\ known <= truth /\ monitor.version <= truth
            BY DEF Inv, Typed, NothingIsAhead
        <3>3. truth \in {known, monitor.version} => known' = truth
            BY <2>5, <3>2 DEF EndReconciliation, Later
        <3>4. truth \in OnItsWay \/ monitor.version = truth => truth \in OnItsWay'
            BY <2>1, <3>3 DEF OnItsWay
        <3>5. Connected /\ Delivers =>
                  truth \in OnItsWay \/ signals # <<>> \/ monitor.version = truth
            BY <3>1 DEF Inv, GapsAreCovered, ReconciliationDue
        <3> QED
            BY <2>1, <3>1, <3>4, <3>5, Zenon DEF GapsAreCovered, ReconciliationDue
    <2> QED
        BY <1>9, <2>2, <2>3, <2>4, <2>5 DEF Runtime
<1>10. CASE ConsumeEvent
    <2>1. /\ Head(events) = events[1] /\ Len(events) \in Nat \ {0}
          /\ Len(events') = Len(events) - 1
          /\ \A i \in 1 .. Len(events) - 1 : events'[i] = events[i + 1]
        BY <1>10, TailFacts DEF ConsumeEvent, Inv, Typed
    <2>2. /\ known \in Nat /\ truth \in Nat /\ known <= truth
          /\ Head(events) \in Nat /\ Head(events) <= truth
        BY <1>10, <2>1, TailFacts DEF ConsumeEvent, Inv, Typed, NothingIsAhead
    <2>3. truth \in {known, events[1]} => known' = truth
        BY <1>10, <2>1, <2>2 DEF ConsumeEvent, Later
    <2>4. wire' = wire
        BY <1>10 DEF ConsumeEvent, socketVars
    <2>5. ASSUME truth \in OnItsWay PROVE truth \in OnItsWay'
        <3>1. CASE truth \in {known, events[1]}
            BY <2>3, <3>1 DEF OnItsWay
        <3>2. ASSUME NEW i \in 1 .. Len(events), truth = events[i], i # 1
              PROVE  truth \in OnItsWay'
            <4>1. i - 1 \in 1 .. Len(events') /\ events'[i - 1] = truth
                BY <2>1, <3>2
            <4> QED
                BY <4>1 DEF OnItsWay
        <3>3. ASSUME NEW i \in 1 .. Len(wire), truth = wire[i].version
              PROVE  truth \in OnItsWay'
            BY <2>4, <3>3 DEF OnItsWay
        <3> QED
            BY <2>5, <3>1, <3>2, <3>3 DEF OnItsWay
    <2>6. /\ Connected' = Connected /\ Delivers' = Delivers /\ truth' = truth
          /\ ReconciliationDue' = ReconciliationDue
        BY <1>10 DEF ConsumeEvent, Connected, Delivers, ReconciliationDue,
                    exchangeVars, socketVars, signalVars, runtimeVars
    <2> QED
        BY <2>5, <2>6 DEF Inv, GapsAreCovered
<1>11. CASE SubmitMaker
    BY <1>11 DEF SubmitMaker, Inv, Typed, NothingIsAhead, DownIsEmpty, StateIsAnnounced,
                GapsAreCovered, ReconciliationDue, OnItsWay, Connected, Delivers, Idle,
                FrameShape, Up, exchangeVars, socketVars, signalVars
<1>12. CASE Restart
    BY <1>12 DEF Restart, StartProcess, Inv, Typed, NothingIsAhead, DownIsEmpty,
                StateIsAnnounced, GapsAreCovered, ReconciliationDue, OnItsWay,
                Connected, Delivers, Idle, FrameShape, Up, exchangeVars, socketVars
<1>13. CASE AccountChanges
    <2>1. Delivers' = Delivers /\ truth' = truth + 1 /\ truth \in Nat
        BY <1>13 DEF AccountChanges, Delivers, Inv, Typed
    <2>2. ASSUME Delivers PROVE truth' \in OnItsWay'
        <3>1. wire' = Append(wire, OrderFrame(truth + 1)) /\ wire \in Seq(FrameShape)
            BY <1>13, <2>2 DEF AccountChanges, Inv, Typed
        <3>2. OrderFrame(truth + 1) \in FrameShape /\ OrderFrame(truth + 1).version = truth'
            BY <2>1 DEF OrderFrame, FrameShape
        <3>3. Len(wire) \in Nat /\ Len(wire') = Len(wire) + 1
            BY <3>1, <3>2, AppendFacts, LenProperties
        <3>4. wire'[Len(wire) + 1].version = truth'
            BY <3>1, <3>2, AppendFacts
        <3>5. Len(wire) + 1 \in 1 .. Len(wire')
            BY <3>3
        <3> QED
            BY <3>4, <3>5 DEF OnItsWay
    <2> QED
        BY <2>1, <2>2 DEF GapsAreCovered
<1>14. CASE KeyExpires
    BY <1>14 DEF KeyExpires, ExpiredFrame, Fault, Inv, Typed, NothingIsAhead,
                DownIsEmpty, StateIsAnnounced, GapsAreCovered, ReconciliationDue,
                OnItsWay, Connected, Delivers, Idle, FrameShape, Up, signalVars,
                runtimeVars
<1>15. CASE LinkDrops
    BY <1>15 DEF LinkDrops, Inv, Typed, NothingIsAhead, DownIsEmpty, StateIsAnnounced,
                GapsAreCovered, ReconciliationDue, OnItsWay, Connected, Delivers, Idle,
                FrameShape, Up, exchangeVars, signalVars, runtimeVars
<1>16. CASE UNCHANGED vars
    BY <1>16 DEF Inv, Typed, NothingIsAhead, DownIsEmpty, StateIsAnnounced,
                GapsAreCovered, ReconciliationDue, OnItsWay, Connected, Delivers, Idle,
                FrameShape, Up, exchangeVars, socketVars, signalVars, runtimeVars, vars
<1> QED
    BY Kinds, <1>1, <1>2, <1>3, <1>4, <1>5, <1>6, <1>7, <1>8, <1>9, <1>10, <1>11, <1>12, <1>13, <1>14, <1>15, <1>16

-----------------------------------------------------------------------------
LEMMA InvInit == Init => Inv
<1> SUFFICES ASSUME Init PROVE Inv
    OBVIOUS
<1>1. Typed
    BY EmptySeq DEF Init, Typed, Idle, Version
<1>2. NothingIsAhead
    BY <1>1 DEF Init, Typed, NothingIsAhead, Idle
<1>3. DownIsEmpty /\ StateIsAnnounced /\ AnswersAreFresh
    BY DEF Init, DownIsEmpty, StateIsAnnounced, AnswersAreFresh, Up, Idle
<1>4. GapsAreCovered
    BY DEF Init, GapsAreCovered, Connected
<1> QED
    BY <1>1, <1>2, <1>3, <1>4 DEF Inv

LEMMA InvNext == Inv /\ [Next]_vars => Inv'
<1> SUFFICES ASSUME Inv, [Next]_vars PROVE Inv'
    OBVIOUS
<1>1. Typed'
    BY TypedKept
<1> QED
    BY <1>1, NothingIsAheadKept, DownIsEmptyKept, StateIsAnnouncedKept,
       AnswersAreFreshKept, GapsAreCoveredKept DEF Inv

LEMMA Invariance == Spec => []Inv
BY InvInit, InvNext, PTL DEF Spec

(* The maker is never submitted before the database has caught up with all *)
(* that happened before the process started (main.py:130-151): the answer  *)
(* that opens the gate was asked for by this process.                      *)
THEOREM MakerStartsReconciledTheorem == Spec => []MakerStartsReconciled
<1>1. Inv => MakerStartsReconciled
    BY DEF Inv, AnswersAreFresh, MakerStartsReconciled
<1> QED
    BY <1>1, Invariance, PTL

(* With every signal handled, the synchronized flag is up only while a     *)
(* connection is open (runtime.py:216): the last signal says so.           *)
THEOREM FlagFollowsConnectionTheorem == Spec => []FlagFollowsConnection
<1>1. Inv => FlagFollowsConnection
    BY DEF Inv, StateIsAnnounced, FlagFollowsConnection, CaughtUp, Connected
<1> QED
    BY <1>1, Invariance, PTL

(* No change of the account is missed, after any number of drops,          *)
(* rotations, expired keys and restarts: over a connection that delivers,  *)
(* what is not on its way is covered by a reconciliation that is due, and  *)
(* none is due once the monitor has caught up.                             *)
THEOREM NoChangeIsMissedTheorem == Spec => []NoChangeIsMissed
<1>1. Inv => NoChangeIsMissed
    BY DEF Inv, GapsAreCovered, ReconciliationDue, NoChangeIsMissed, CaughtUp, Idle
<1> QED
    BY <1>1, Invariance, PTL

=============================================================================

---------------------------- MODULE StreamRuntime ----------------------------
(***************************************************************************)
(* The order event stream and the runtime around it: run_network with its  *)
(* listen key, connections and reconnections, the queue of lifecycle       *)
(* signals, the monitor that reconciles after every connection and keeps   *)
(* the synchronized flag, the consumer, and the start gate of the funding  *)
(* application, which submits the maker once the flag has been set.        *)
(*                                                                         *)
(* The account's orders are one version number: every change at the        *)
(* exchange is the next version, an event carries the version it reports,  *)
(* and what the database knows is the greatest version it has been told.   *)
(* OrderExecution models that part in detail.  Time is left out: a timer   *)
(* that is armed may fire.  The coroutines interleave at their awaits; a   *)
(* call made with asyncio.to_thread lets everything else go on.            *)
(***************************************************************************)
EXTENDS Naturals, Sequences, FiniteSets

CONSTANTS
    MaxVersion,      \* bound on the changes of the account
    MaxFaults,       \* bound on drops, failing calls, expiries and endings
    MaxConnections,  \* no rotation after that many connections of a process
    MaxSignals       \* bound on the lifecycle signals that wait

ASSUME BoundsAssumption ==
    {MaxVersion, MaxFaults, MaxConnections, MaxSignals} \subseteq Nat

VARIABLES
    truth,           \* version of the account's orders at the exchange
    keyAtExchange,   \* the account's listen key there
    known,           \* version the database has
    process,         \* the funding process: "up" or "down"
    atStart,         \* version at the exchange when the process started
    net,             \* where run_network stands
    key,             \* _listen_key is set
    link,            \* the socket behind the open connection is alive
    wire,            \* frames of the open connection, not yet received
    events,          \* _queue: versions of order events, not yet consumed
    connections,     \* _successful_connection_count
    signals,         \* _lifecycle_queue
    latest,          \* _lifecycle_state
    monitor,         \* _monitor_stream_lifecycle
    synchronized,    \* the runtime's flag
    gate,            \* FundingRateStrategyApplication.run before the worker
    faults           \* faults so far

exchangeVars == <<truth, keyAtExchange>>
socketVars == <<link, wire>>
signalVars == <<signals, latest>>
runtimeVars == <<monitor, synchronized, gate>>
vars == <<exchangeVars, known, process, atStart, net, key, socketVars, events,
          connections, signalVars, runtimeVars, faults>>

-----------------------------------------------------------------------------
Version == 0 .. MaxVersion

Later(a, b) == IF a > b THEN a ELSE b

(* A frame is an order event with the version it reports, or               *)
(* listenKeyExpired.                                                       *)
OrderFrame(v) == [type |-> "order", version |-> v]
ExpiredFrame == [type |-> "listenKeyExpired", version |-> 0]
Frame == [type : {"order"}, version : Version] \cup {ExpiredFrame}

StreamLifecycleKind == {"CONNECTED", "RECONNECTING", "RECONNECTED",
                        "LISTEN_KEY_REBUILT", "STOPPED"}

(* run_network awaits: the first listen key, the connector, the open       *)
(* connection's tasks, the DELETE and the POST of a rebuild, the backoff.  *)
(* A rebuild is entered on a message, inside the try, or on a keepalive    *)
(* that is refused, in the handler; only the first has its failures caught.*)
NetState == {"starting", "connecting", "connected", "backoff", "stopped"}
Entered == {"message", "keepalive"}
Deleting == [message |-> "deleting(message)",
             keepalive |-> "deleting(keepalive)"]
Renewing == [message |-> "renewing(message)",
             keepalive |-> "renewing(keepalive)"]
RebuildState == {Deleting[e] : e \in Entered} \cup {Renewing[e] : e \in Entered}

Idle == [at |-> "idle", version |-> 0]

Fault == faults < MaxFaults /\ faults' = faults + 1

Connected == net = "connected"

EmitLifecycle(kind) ==
    /\ latest' = kind
    /\ signals' = Append(signals, kind)

(* Leaving a connection cancels its tasks: frames not yet received are     *)
(* lost with it.                                                           *)
LeaveConnection(next) ==
    /\ net' = next
    /\ link' = FALSE
    /\ wire' = <<>>

(* A disconnection or any other error: RECONNECTING, then the delay.       *)
BackOff ==
    /\ EmitLifecycle("RECONNECTING")
    /\ LeaveConnection("backoff")

(* The process ends: an exception of the producer, the consumer or the     *)
(* monitor cancels the others, clears the flag and ends the application.   *)
(* run_network's finally still tries to delete the listen key.             *)
EndProcess ==
    /\ process' = "down"
    /\ LeaveConnection("stopped")
    /\ key' = FALSE
    /\ keyAtExchange' \in {keyAtExchange, "none"}
    /\ events' = <<>>
    /\ latest' = "STOPPED"
    /\ signals' = <<>>
    /\ monitor' = Idle
    /\ synchronized' = FALSE
    /\ gate' = "closed"
    /\ UNCHANGED <<truth, known, atStart, connections>>

StartProcess ==
    /\ process' = "up"
    /\ atStart' = truth
    /\ net' = "starting"
    /\ gate' = "waiting"
    /\ connections' = 0

Init ==
    /\ truth \in Version /\ known = 0
    /\ keyAtExchange \in {"none", "live"}
    /\ process = "up" /\ atStart = truth
    /\ net = "starting" /\ key = FALSE
    /\ link = FALSE /\ wire = <<>> /\ events = <<>>
    /\ connections = 0
    /\ signals = <<>> /\ latest = "none"
    /\ monitor = Idle /\ synchronized = FALSE /\ gate = "waiting"
    /\ faults = 0


-----------------------------------------------------------------------------
(* run_network and _run_connection.                                        *)

StartListenKey ==
    /\ net = "starting"
    /\ key' = TRUE
    /\ keyAtExchange' = "live"
    /\ net' = "connecting"
    /\ UNCHANGED <<truth, known, process, atStart, socketVars, events,
                   connections, signalVars, runtimeVars, faults>>

(* The first request for a key is outside the try: its failure is raised.  *)
StartListenKeyFails == net = "starting" /\ Fault /\ EndProcess

(* Mutant: only the first connection of a process is announced.            *)
OpenSilently ==
    /\ net = "connecting"
    /\ key
    /\ net' = "connected"
    /\ link' = TRUE
    /\ connections' = connections + 1
    /\ IF connections = 0 THEN EmitLifecycle("CONNECTED")
                           ELSE UNCHANGED signalVars
    /\ UNCHANGED <<exchangeVars, known, process, atStart, key, wire, events,
                   runtimeVars, faults>>

(* The connector returns: the first connection of the process is           *)
(* CONNECTED.  A connection made with an expired key opens, and stays mute.*)
OpenConnection ==
    /\ net = "connecting"
    /\ key
    /\ net' = "connected"
    /\ link' = TRUE
    /\ connections' = connections + 1
    /\ EmitLifecycle(IF connections = 0 THEN "CONNECTED" ELSE "RECONNECTED")
    /\ UNCHANGED <<exchangeVars, known, process, atStart, key, wire, events,
                   runtimeVars, faults>>

ConnectionFails ==
    /\ net = "connecting"
    /\ key
    /\ Fault
    /\ BackOff
    /\ UNCHANGED <<exchangeVars, known, process, atStart, key, events,
                   connections, runtimeVars>>

(* Without a listen key there is no URL: an error like any other.          *)
ConnectWithoutKey ==
    /\ net = "connecting"
    /\ ~key
    /\ BackOff
    /\ UNCHANGED <<exchangeVars, known, process, atStart, key, events,
                   connections, runtimeVars, faults>>

BackoffEnds ==
    /\ net = "backoff"
    /\ Len(signals) < MaxSignals
    /\ net' = "connecting"
    /\ UNCHANGED <<exchangeVars, known, process, atStart, key, socketVars,
                   events, connections, signalVars, runtimeVars, faults>>

(* _receive_messages: an order event goes to the engine's queue.           *)
ReceiveOrderEvent ==
    /\ Connected
    /\ wire # <<>>
    /\ Head(wire).type = "order"
    /\ events' = Append(events, Head(wire).version)
    /\ wire' = Tail(wire)
    /\ UNCHANGED <<exchangeVars, known, process, atStart, net, key, link,
                   connections, signalVars, runtimeVars, faults>>

RebuildKey(entered) ==
    /\ Connected
    /\ EmitLifecycle("RECONNECTING")
    /\ LeaveConnection(Deleting[entered])
    /\ UNCHANGED <<exchangeVars, known, process, atStart, key, events,
                   connections, runtimeVars, faults>>

ReceiveExpired ==
    /\ wire # <<>>
    /\ Head(wire) = ExpiredFrame
    /\ RebuildKey("message")

(* The keepalive timer is armed anew by every connection.                  *)
KeepaliveSucceeds ==
    Connected /\ keyAtExchange = "live" /\ UNCHANGED vars

KeepaliveRefused == keyAtExchange # "live" /\ RebuildKey("keepalive")

(* The socket has died and what it had delivered has been received, or a   *)
(* keepalive has failed for another reason than -1125.                     *)
Disconnected ==
    /\ Connected
    /\ ~link /\ wire = <<>>
    /\ BackOff
    /\ UNCHANGED <<exchangeVars, known, process, atStart, key, events,
                   connections, runtimeVars, faults>>

KeepaliveFails ==
    /\ Connected
    /\ Fault
    /\ BackOff
    /\ UNCHANGED <<exchangeVars, known, process, atStart, key, events,
                   connections, runtimeVars>>

(* Mutant: a rotation is not announced.                                    *)
RotateSilently ==
    /\ Connected
    /\ connections < MaxConnections
    /\ LeaveConnection("connecting")
    /\ UNCHANGED <<exchangeVars, known, process, atStart, key, events,
                   connections, signalVars, runtimeVars, faults>>

(* After twelve hours the connection is reopened at once, with its key.    *)
Rotate ==
    /\ Connected
    /\ connections < MaxConnections
    /\ EmitLifecycle("RECONNECTING")
    /\ LeaveConnection("connecting")
    /\ UNCHANGED <<exchangeVars, known, process, atStart, key, events,
                   connections, runtimeVars, faults>>

(* _rebuild_listen_key: the DELETE may fail, the local key is gone anyway. *)
DeleteListenKey ==
    \E entered \in Entered :
        /\ net = Deleting[entered]
        /\ net' = Renewing[entered]
        /\ key' = FALSE
        /\ \/ keyAtExchange' = "none" /\ faults' = faults
           \/ keyAtExchange' = keyAtExchange /\ Fault
        /\ UNCHANGED <<truth, known, process, atStart, socketVars, events,
                       connections, signalVars, runtimeVars>>

RenewListenKey ==
    /\ net \in {Renewing[e] : e \in Entered}
    /\ key' = TRUE
    /\ keyAtExchange' = "live"
    /\ net' = "connecting"
    /\ EmitLifecycle("LISTEN_KEY_REBUILT")
    /\ UNCHANGED <<truth, known, process, atStart, socketVars, events,
                   connections, runtimeVars, faults>>

(* Inside the try a failing POST is caught by the clause for any error; in *)
(* the handler of ListenKeyExpired it is raised out of run_network.        *)
RenewalFailsAfterMessage ==
    /\ net = Renewing["message"]
    /\ Fault
    /\ BackOff
    /\ UNCHANGED <<exchangeVars, known, process, atStart, key, events,
                   connections, runtimeVars>>

RenewalFailsAfterKeepalive ==
    net = Renewing["keepalive"] /\ Fault /\ EndProcess

-----------------------------------------------------------------------------
(* The runtime's two other tasks.                                          *)

(* The monitor takes a signal.  The start gate opens when the flag is set: *)
(* asyncio.Event.wait returns even if the flag is cleared before the       *)
(* waiting task runs.                                                      *)
ClearSynchronized ==
    /\ monitor = Idle
    /\ signals # <<>>
    /\ Head(signals) \in {"RECONNECTING", "LISTEN_KEY_REBUILT"}
    /\ signals' = Tail(signals)
    /\ synchronized' = FALSE
    /\ UNCHANGED <<exchangeVars, known, process, atStart, net, key, socketVars,
                   events, connections, latest, monitor, gate, faults>>

(* Mutants: the flag is set as soon as a connection is announced, or as    *)
(* soon as a later one is.                                                 *)
SynchronizeOn(kinds) ==
    /\ monitor = Idle
    /\ signals # <<>>
    /\ Head(signals) \in kinds
    /\ signals' = Tail(signals)
    /\ synchronized' = TRUE
    /\ gate' = IF gate = "waiting" THEN "open" ELSE gate
    /\ UNCHANGED <<exchangeVars, known, process, atStart, net, key, socketVars,
                   events, connections, latest, monitor, faults>>

BeginReconciliationNever == SynchronizeOn({"CONNECTED", "RECONNECTED"})

BeginFirstReconciliation ==
    \/ SynchronizeOn({"RECONNECTED"})
    \/ /\ monitor = Idle
       /\ signals # <<>>
       /\ Head(signals) = "CONNECTED"
       /\ signals' = Tail(signals)
       /\ synchronized' = FALSE
       /\ monitor' = [Idle EXCEPT !.at = "reconciling"]
       /\ UNCHANGED <<exchangeVars, known, process, atStart, net, key,
                      socketVars, events, connections, latest, gate, faults>>

BeginReconciliation ==
    /\ monitor = Idle
    /\ signals # <<>>
    /\ Head(signals) \in {"CONNECTED", "RECONNECTED"}
    /\ signals' = Tail(signals)
    /\ synchronized' = FALSE
    /\ monitor' = [Idle EXCEPT !.at = "reconciling"]
    /\ UNCHANGED <<exchangeVars, known, process, atStart, net, key, socketVars,
                   events, connections, latest, gate, faults>>

(* The sweep's thread: the exchange answers, later the answer is committed. *)
ReadExchange ==
    /\ monitor.at = "reconciling"
    /\ monitor' = [at |-> "answered", version |-> truth]
    /\ UNCHANGED <<exchangeVars, known, process, atStart, net, key, socketVars,
                   events, connections, signalVars, synchronized, gate, faults>>

EndReconciliation ==
    /\ monitor.at = "answered"
    /\ known' = Later(known, monitor.version)
    /\ monitor' = Idle
    /\ synchronized' = TRUE
    /\ gate' = IF gate = "waiting" THEN "open" ELSE gate
    /\ UNCHANGED <<exchangeVars, process, atStart, net, key, socketVars,
                   events, connections, signalVars, faults>>

(* A request fails, or an order stays unresolved: the monitor raises.      *)
ReconciliationFails == monitor.at # "idle" /\ Fault /\ EndProcess

(* OrderEventConsumer: an event the database already covers changes nothing.*)
ConsumeEvent ==
    /\ events # <<>>
    /\ known' = Later(known, Head(events))
    /\ events' = Tail(events)
    /\ UNCHANGED <<exchangeVars, process, atStart, net, key, socketVars,
                   connections, signalVars, runtimeVars, faults>>

(* The gate is passed once: what follows never looks at the flag again.    *)
SubmitMaker ==
    /\ gate = "open"
    /\ gate' = "passed"
    /\ UNCHANGED <<exchangeVars, known, process, atStart, net, key, socketVars,
                   events, connections, signalVars, monitor, synchronized,
                   faults>>

Stop == process = "up" /\ Fault /\ EndProcess

Restart ==
    /\ process = "down"
    /\ StartProcess
    /\ latest' = "none"
    /\ UNCHANGED <<exchangeVars, known, key, socketVars, events, signals,
                   monitor, synchronized, faults>>

-----------------------------------------------------------------------------
(* The exchange and the network.                                           *)

Delivers == link /\ keyAtExchange = "live"

AccountChanges ==
    /\ truth < MaxVersion
    /\ truth' = truth + 1
    /\ wire' = IF Delivers THEN Append(wire, OrderFrame(truth + 1)) ELSE wire
    /\ UNCHANGED <<keyAtExchange, known, process, atStart, net, key, link,
                   events, connections, signalVars, runtimeVars, faults>>

(* Sixty minutes without a keepalive that arrived.                         *)
KeyExpires ==
    /\ keyAtExchange = "live"
    /\ Fault
    /\ keyAtExchange' = "expired"
    /\ wire' = IF link THEN Append(wire, ExpiredFrame) ELSE wire
    /\ UNCHANGED <<truth, known, process, atStart, net, key, link, events,
                   connections, signalVars, runtimeVars>>

(* Frames under way may be lost with the socket.                           *)
LinkDrops ==
    /\ link
    /\ Fault
    /\ link' = FALSE
    /\ \E n \in 0 .. Len(wire) : wire' = SubSeq(wire, 1, n)
    /\ UNCHANGED <<exchangeVars, known, process, atStart, net, key, events,
                   connections, signalVars, runtimeVars>>

-----------------------------------------------------------------------------
Network ==
    \/ StartListenKey \/ OpenConnection \/ ConnectWithoutKey \/ BackoffEnds
    \/ ReceiveOrderEvent \/ ReceiveExpired \/ KeepaliveRefused
    \/ Disconnected \/ DeleteListenKey \/ RenewListenKey

Runtime ==
    \/ ClearSynchronized \/ BeginReconciliation \/ ReadExchange
    \/ EndReconciliation

NetworkFails ==
    \/ StartListenKeyFails \/ ConnectionFails \/ KeepaliveFails
    \/ RenewalFailsAfterMessage \/ RenewalFailsAfterKeepalive

Next ==
    \/ Network \/ Rotate \/ KeepaliveSucceeds \/ NetworkFails
    \/ Runtime \/ ReconciliationFails \/ ConsumeEvent
    \/ SubmitMaker \/ Stop \/ Restart
    \/ AccountChanges \/ KeyExpires \/ LinkDrops

Spec == Init /\ [][Next]_vars

(* Timers fire and awaited calls return; the monitor and the consumer are  *)
(* loops of tasks of their own.  Nobody has to restart the process.        *)
FairSpec ==
    /\ Spec
    /\ WF_vars(Network)
    /\ WF_vars(KeepaliveRefused)
    /\ WF_vars(Runtime)
    /\ WF_vars(ConsumeEvent)

-----------------------------------------------------------------------------
(* The monitor has handled every signal there is.                          *)
CaughtUp == monitor = Idle /\ signals = <<>>

(* A version that is on its way into the database.                         *)
OnItsWay ==
    {known} \cup {events[i] : i \in 1 .. Len(events)}
            \cup {wire[i].version : i \in 1 .. Len(wire)}

(* Whatever gaps lie behind - drops, rotations, expired keys, restarts -   *)
(* once the runtime calls itself synchronized over a connection that       *)
(* delivers, every change of the account is known or on its way: each gap  *)
(* is followed by a reconciliation that begins after the next connection   *)
(* was open (runtime.py:216, order_event_stream.py:235).                   *)
NoChangeIsMissed ==
    synchronized /\ CaughtUp /\ Connected /\ Delivers => truth \in OnItsWay

(* When the signals have been handled, the flag is up only while a         *)
(* connection is: every way out of a connection announces itself.          *)
FlagFollowsConnection == synchronized /\ CaughtUp => Connected

(* The maker is submitted only after the database has caught up with all   *)
(* that happened before the process started (main.py:130-151).             *)
MakerStartsReconciled == gate \in {"open", "passed"} => known >= atStart

(* Every change of the account is learned, unless the process ends.  This  *)
(* is what the stream and the reconciliations are for.                     *)
ChangesAreLearned ==
    \A v \in Version : truth >= v ~> known >= v \/ process = "down"

(* The one way out: a rebuild whose POST failed after a listenKeyExpired   *)
(* message leaves no key, and nothing asks for another one.                *)
KeyIsLost == process = "up" /\ ~key /\ net \in {"backoff", "connecting"}

ChangesAreLearnedWithAKey ==
    \A v \in Version :
        truth >= v ~> known >= v \/ process = "down" \/ KeyIsLost
=============================================================================

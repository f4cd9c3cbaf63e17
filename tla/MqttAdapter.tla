----------------------------- MODULE MqttAdapter -----------------------------
(***************************************************************************)
(* The MQTT transport of the forwarder (gateway/internal/forwarder/        *)
(* mqttadapter.go): the connection with its callbacks, the subscription to *)
(* the ack topic, the reconnect watchdog, and Send with its acks.          *)
(*                                                                         *)
(* paho runs every callback on a goroutine of its own, so a callback may   *)
(* run after the state it reports has changed; OrderMatters is off, so     *)
(* acks are handled concurrently.  Times are counted in ticks and kept up  *)
(* to StuckAfter, beyond which nothing is told apart.                      *)
(***************************************************************************)
EXTENDS Integers

CONSTANTS
  StuckAfter,   \* ReconnectStuckAfter, in ticks
  MaxAttempts,  \* subscribeWithRetry's attempts (3 in the code)
  MaxBatches,   \* bound: batches sent
  Rejected,     \* the batches the server rejects (mqttAck.Error)
  MaxCopies,    \* bound: acks the server publishes for one batch
  Budgets       \* bounds: the mixes of batches and faults that may happen

Batches == 1..MaxBatches

\* How many batches may still be sent, connections be lost, reconnects stall,
\* and subscriptions be refused on an open connection.
Budget == [batches : 0..MaxBatches, drops : Nat, stalls : Nat, subs : Nat]

ASSUME MqttAssumption ==
  /\ StuckAfter \in Nat \ {0} /\ MaxAttempts \in Nat \ {0}
  /\ MaxBatches \in Nat /\ MaxCopies \in Nat /\ Rejected \subseteq Batches
  /\ Budgets \subseteq Budget

VARIABLES
  conn,            \* status of the paho client
  lostCalls, connectCalls,  \* onConnectionLost, onConnect yet to run
  disconnectedAt,  \* age of MQTTAdapter.disconnectedAt, or Zero
  subscribers,     \* attempt -> goroutines of subscribeWithRetry about to make it
  subscribed,      \* the broker's session holds the ack topic
  watchdog,        \* how far checkAndForceReconnect got
  send,            \* the forwarder's Send: how far it got, its batch, its result
  pending,         \* MQTTAdapter.pending: the batches Send waits for
  channel,         \* batch -> acks in its channel
  handlers,        \* batch -> handleAck goroutines about to send on its channel
  acks, copies,    \* batch -> acks on their way, acks published
  budget,          \* what may still happen
  down, failsHere, overtaken  \* history, see below

connVars  == <<conn, lostCalls, connectCalls, disconnectedAt, down, overtaken>>
subVars   == <<subscribers, subscribed, failsHere>>
ackVars   == <<pending, channel, handlers, acks, copies>>
vars == <<connVars, subVars, watchdog, send, ackVars, budget>>

Zero == -1
Capacity == 1

Older(age) == IF age = Zero \/ age = StuckAfter THEN age ELSE age + 1

Open == conn = "connected"

TypeOK ==
  /\ conn \in {"connecting", "connected", "reconnecting", "disconnected"}
  /\ lostCalls \in Nat /\ connectCalls \in Nat
  /\ disconnectedAt \in {Zero} \cup 0..StuckAfter
  /\ subscribers \in [1..MaxAttempts -> Nat]
  /\ subscribed \in BOOLEAN /\ (subscribed => Open)
  /\ watchdog \in {"idle", "read", "connect", "recheck", "set"}
  /\ send \in [pc : {"idle", "publish", "await"}, batch : 0..MaxBatches,
               result : {"none", "ok", "failed"}]
  /\ pending = IF send.pc = "idle" THEN {} ELSE {send.batch}
  /\ channel \in [Batches -> 0..Capacity]
  /\ handlers \in [Batches -> Nat]
  /\ acks \in [Batches -> 0..MaxCopies] /\ copies \in [Batches -> 0..MaxCopies]
  /\ budget \in Budget
  /\ down \in 0..StuckAfter /\ failsHere \in Nat /\ overtaken \in BOOLEAN

-----------------------------------------------------------------------------
\* buildAdapter's Connect succeeded (a failure ends the process); the watchdog
\* starts, and onConnect of the first connection is yet to run.
Init ==
  /\ conn = "connected" /\ lostCalls = 0 /\ connectCalls = 1
  /\ disconnectedAt = Zero /\ down = 0 /\ overtaken = FALSE
  /\ subscribers = [n \in 1..MaxAttempts |-> 0]
  /\ subscribed = FALSE /\ failsHere = 0
  /\ watchdog = "idle"
  /\ send = [pc |-> "idle", batch |-> 0, result |-> "none"]
  /\ pending = {}
  /\ channel = [b \in Batches |-> 0] /\ handlers = [b \in Batches |-> 0]
  /\ acks = [b \in Batches |-> 0] /\ copies = [b \in Batches |-> 0]
  /\ budget \in Budgets

-----------------------------------------------------------------------------
(* The paho client.                                                        *)

\* The connection breaks; auto-reconnect takes over.  Sessions are clean: the
\* broker forgets the subscription and the acks on their way.
ConnectionLost ==
  /\ Open /\ budget.drops > 0
  /\ conn' = "reconnecting" /\ down' = 0
  /\ lostCalls' = lostCalls + 1
  /\ subscribed' = FALSE
  /\ acks' = [b \in Batches |-> 0]
  /\ budget' = [budget EXCEPT !.drops = @ - 1]
  /\ UNCHANGED <<connectCalls, disconnectedAt, overtaken, subscribers, failsHere,
                 watchdog, send, pending, channel, handlers, copies>>

\* An attempt to connect succeeds; attempts that fail change nothing.
Connected ==
  /\ conn \in {"connecting", "reconnecting"}
  /\ conn' = "connected" /\ down' = 0
  /\ connectCalls' = connectCalls + 1
  /\ failsHere' = 0
  /\ UNCHANGED <<lostCalls, disconnectedAt, overtaken, subscribers, subscribed,
                 watchdog, send, ackVars, budget>>

\* The incident RunReconnectWatchdog exists for: auto-reconnect ends silently.
Stall ==
  /\ conn = "reconnecting" /\ budget.stalls > 0
  /\ conn' = "disconnected"
  /\ budget' = [budget EXCEPT !.stalls = @ - 1]
  /\ UNCHANGED <<lostCalls, connectCalls, disconnectedAt, down, overtaken, subVars,
                 watchdog, send, ackVars>>

Tick ==
  /\ disconnectedAt' = Older(disconnectedAt)
  /\ down' = IF Open THEN 0 ELSE Older(down)
  /\ <<disconnectedAt, down>>' # <<disconnectedAt, down>>
  /\ UNCHANGED <<conn, lostCalls, connectCalls, overtaken, subVars, watchdog, send,
                 ackVars, budget>>

-----------------------------------------------------------------------------
(* The callbacks and the subscription.                                     *)

\* Mutant: an earlier time of disconnection is kept.
OnConnectionLostOnce ==
  /\ lostCalls > 0
  /\ lostCalls' = lostCalls - 1
  /\ disconnectedAt' = IF disconnectedAt = Zero THEN 0 ELSE disconnectedAt
  /\ overtaken' = FALSE
  /\ UNCHANGED <<conn, connectCalls, down, subVars, watchdog, send, ackVars, budget>>

OnConnectionLost ==
  /\ lostCalls > 0
  /\ lostCalls' = lostCalls - 1
  /\ disconnectedAt' = 0
  /\ overtaken' = FALSE
  /\ UNCHANGED <<conn, connectCalls, down, subVars, watchdog, send, ackVars, budget>>

\* overtaken: the connection this call reports is already gone again.
OnConnect ==
  /\ connectCalls > 0
  /\ connectCalls' = connectCalls - 1
  /\ disconnectedAt' = Zero
  /\ overtaken' = ~ Open
  /\ subscribers' = [subscribers EXCEPT ![1] = @ + 1]
  /\ UNCHANGED <<conn, lostCalls, down, subscribed, failsHere, watchdog, send, ackVars,
                 budget>>

\* Mutant: one attempt less.
GiveUpEarly(n) ==
  subscribers' = [m \in 1..MaxAttempts |->
                    subscribers[m] - (IF m = n THEN 1 ELSE 0)
                      + (IF m = n + 1 /\ m < MaxAttempts THEN 1 ELSE 0)]

\* Attempt n failed: sleep and try again, or give up after the last one.
RetryOrGiveUp(n) ==
  subscribers' = [m \in 1..MaxAttempts |->
                    subscribers[m] - (IF m = n THEN 1 ELSE 0) + (IF m = n + 1 THEN 1 ELSE 0)]

\* One attempt of subscribeWithRetry: it fails without a connection, and may
\* fail with one.
Subscribe(n) ==
  /\ subscribers[n] > 0
  /\ \/ /\ Open
        /\ subscribed' = TRUE
        /\ subscribers' = [subscribers EXCEPT ![n] = @ - 1]
        /\ UNCHANGED <<failsHere, budget>>
     \/ /\ Open /\ budget.subs > 0
        /\ RetryOrGiveUp(n)
        /\ failsHere' = failsHere + 1
        /\ budget' = [budget EXCEPT !.subs = @ - 1]
        /\ UNCHANGED subscribed
     \/ /\ ~ Open
        /\ RetryOrGiveUp(n)
        /\ UNCHANGED <<subscribed, failsHere, budget>>
  /\ UNCHANGED <<connVars, watchdog, send, ackVars>>

-----------------------------------------------------------------------------
(* checkAndForceReconnect, step by step.                                   *)

\* A tick of the watchdog that finds the connection closed.
Check ==
  /\ watchdog = "idle" /\ ~ Open
  /\ watchdog' = "read"
  /\ UNCHANGED <<connVars, subVars, send, ackVars, budget>>

ReadDisconnectedAt ==
  /\ watchdog = "read"
  /\ watchdog' = IF disconnectedAt = StuckAfter THEN "connect" ELSE "idle"
  /\ UNCHANGED <<connVars, subVars, send, ackVars, budget>>

\* client.Connect() is refused unless the client is disconnected; otherwise it
\* goes on trying (ConnectRetry) while the watchdog waits for ConnectTimeout.
ForceConnect ==
  /\ watchdog = "connect"
  /\ watchdog' = "recheck"
  /\ conn' = IF conn = "disconnected" THEN "connecting" ELSE conn
  /\ UNCHANGED <<lostCalls, connectCalls, disconnectedAt, down, overtaken, subVars, send,
                 ackVars, budget>>

Recheck ==
  /\ watchdog = "recheck"
  /\ watchdog' = IF Open THEN "idle" ELSE "set"
  /\ UNCHANGED <<connVars, subVars, send, ackVars, budget>>

\* Mutant: the next attempt is not scheduled.
ClearDisconnectedAt ==
  /\ watchdog = "set"
  /\ watchdog' = "idle" /\ disconnectedAt' = Zero
  /\ UNCHANGED <<conn, lostCalls, connectCalls, down, overtaken, subVars, send, ackVars,
                 budget>>

\* Still down a moment ago: the next attempt waits a full StuckAfter.
PushDisconnectedAt ==
  /\ watchdog = "set"
  /\ watchdog' = "idle" /\ disconnectedAt' = 0
  /\ UNCHANGED <<conn, lostCalls, connectCalls, down, overtaken, subVars, send, ackVars,
                 budget>>

WatchdogStep ==
  \/ Check \/ ReadDisconnectedAt \/ ForceConnect \/ Recheck \/ PushDisconnectedAt

-----------------------------------------------------------------------------
(* Send and handleAck.                                                     *)

\* Send fails fast without a connection.
SendNotConnected ==
  /\ send.pc = "idle" /\ budget.batches > 0 /\ ~ Open
  /\ send' = [send EXCEPT !.result = "failed"]
  /\ budget' = [budget EXCEPT !.batches = @ - 1]
  /\ UNCHANGED <<connVars, subVars, watchdog, ackVars>>

\* A new batch id gets its channel, and the batch is handed to paho.
Send ==
  /\ send.pc = "idle" /\ budget.batches > 0 /\ Open
  /\ send' = [pc |-> "publish", batch |-> send.batch + 1, result |-> "none"]
  /\ pending' = pending \cup {send.batch + 1}
  /\ budget' = [budget EXCEPT !.batches = @ - 1]
  /\ UNCHANGED <<connVars, subVars, watchdog, channel, handlers, acks, copies>>

\* The broker has taken the batch.
PublishDone ==
  /\ send.pc = "publish" /\ Open
  /\ send' = [send EXCEPT !.pc = "await"]
  /\ UNCHANGED <<connVars, subVars, watchdog, ackVars, budget>>

\* Mutant: no deferred delete.
ReturnKeepsPending(result) ==
  /\ send' = [send EXCEPT !.pc = "idle", !.result = result]
  /\ pending' = pending

\* Send returns, whatever the result; its deferred delete drops the channel.
Return(result) ==
  /\ send' = [send EXCEPT !.pc = "idle", !.result = result]
  /\ pending' = pending \ {send.batch}

\* PublishTimeout, AckTimeout, or the end of ctx.
SendTimeout ==
  /\ send.pc # "idle"
  /\ Return("failed")
  /\ UNCHANGED <<connVars, subVars, watchdog, channel, handlers, acks, copies, budget>>

ReceiveAck ==
  /\ send.pc = "await" /\ channel[send.batch] > 0
  /\ channel' = [channel EXCEPT ![send.batch] = @ - 1]
  /\ Return(IF send.batch \in Rejected THEN "failed" ELSE "ok")
  /\ UNCHANGED <<connVars, subVars, watchdog, handlers, acks, copies, budget>>

\* The server acks a batch it got: again when it got the batch again.  Without
\* a subscription the broker drops the ack.
ServerAcks(b) ==
  /\ b <= send.batch /\ copies[b] < MaxCopies
  /\ copies' = [copies EXCEPT ![b] = @ + 1]
  /\ acks' = IF subscribed THEN [acks EXCEPT ![b] = @ + 1] ELSE acks
  /\ UNCHANGED <<connVars, subVars, watchdog, send, pending, channel, handlers, budget>>

\* Mutant: an ack goes to the batch that waits.
LookupAnyPending(b) ==
  handlers' = IF pending = {} THEN handlers ELSE [handlers EXCEPT ![send.batch] = @ + 1]

\* handleAck under the lock: without an entry there is nothing to signal.
LookupPending(b) ==
  handlers' = IF b \in pending THEN [handlers EXCEPT ![b] = @ + 1] ELSE handlers

\* An ack arrives (or is a payload nobody can read, which is dropped).
HandleAck(b) ==
  /\ acks[b] > 0
  /\ acks' = [acks EXCEPT ![b] = @ - 1]
  /\ LookupPending(b)
  /\ UNCHANGED <<connVars, subVars, watchdog, send, pending, channel, copies, budget>>

\* Mutant: a channel without a buffer: only a waiting Send takes an ack.
HasRoomIfAwaited(b) ==
  send.pc = "await" /\ send.batch = b /\ channel[b] = 0

HasRoom(b) == channel[b] < Capacity

\* ch <- ack blocks while the channel is full.
Signal(b) ==
  /\ handlers[b] > 0 /\ HasRoom(b)
  /\ handlers' = [handlers EXCEPT ![b] = @ - 1]
  /\ channel' = [channel EXCEPT ![b] = @ + 1]
  /\ UNCHANGED <<connVars, subVars, watchdog, send, pending, acks, copies, budget>>

-----------------------------------------------------------------------------
Next ==
  \/ ConnectionLost \/ Connected \/ Stall \/ Tick
  \/ OnConnectionLost \/ OnConnect
  \/ \E n \in 1..MaxAttempts : Subscribe(n)
  \/ WatchdogStep
  \/ SendNotConnected \/ Send \/ PublishDone \/ SendTimeout \/ ReceiveAck
  \/ \E b \in Batches : ServerAcks(b) \/ HandleAck(b) \/ Signal(b)

Spec == Init /\ [][Next]_vars

\* Goroutines run on, time passes, and a broker that paho keeps trying is
\* reachable again some day.  Nothing is assumed of Send or of the server.
Fairness ==
  /\ WF_vars(Tick) /\ WF_vars(Connected)
  /\ WF_vars(OnConnectionLost) /\ WF_vars(OnConnect)
  /\ \A n \in 1..MaxAttempts : WF_vars(Subscribe(n))
  /\ WF_vars(WatchdogStep)
  /\ \A b \in Batches : WF_vars(Signal(b))

FairSpec == Spec /\ Fairness

-----------------------------------------------------------------------------
\* The watchdog is not trigger-happy: what it measures is never longer than
\* the connection has really been down (down), whatever late callbacks and
\* late writes of its own left behind, once onConnectionLost has run.
AgeIsHonest ==
  ~ Open /\ lostCalls = 0 => disconnectedAt <= down

\* Send reports success only for a batch the server has accepted itself: the
\* ack of a batch given up earlier does not end a later Send.
OkMeansAccepted ==
  send.result = "ok" => send.batch \notin Rejected /\ copies[send.batch] > 0

\* RunReconnectWatchdog: a client whose auto-reconnect stalls connects again,
\* unless the last callback to run was an onConnect for a connection already
\* lost, which hides the loss from the watchdog.
StallRecovers ==
  conn = "disconnected" ~> conn # "disconnected" \/ overtaken

\* The ack topic is subscribed on every connection that lasts, unless the
\* broker refused all attempts made for it.
AckTopicSubscribed ==
  Open ~> subscribed \/ ~ Open \/ failsHere >= MaxAttempts

\* An ack that came once never leaves its callback blocked, also when Send
\* gave up between the lookup and the channel send (handleAck).
LoneAckNeverBlocks ==
  \A b \in Batches : handlers[b] > 0 ~> handlers[b] = 0 \/ copies[b] > 1
=============================================================================

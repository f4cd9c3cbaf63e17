-------------------------- MODULE MqttAdapterProofs --------------------------
(***************************************************************************)
(* Proofs about MqttAdapter, for any number of batches, attempts, acks and *)
(* faults, and any ReconnectStuckAfter: the safety of Send and its acks,   *)
(* and of what the watchdog measures.                                      *)
(***************************************************************************)
EXTENDS MqttAdapter, TLAPS

SendState == [pc : {"idle", "publish", "await"}, batch : 0..MaxBatches,
              result : {"none", "ok", "failed"}]

\* Batch ids are left for the batches that may still be sent, and a Send in
\* progress has one.
BatchInv ==
  /\ send.batch + budget.batches <= MaxBatches
  /\ send.pc # "idle" => send.batch > 0

\* Every ack on its way, in a callback or in a channel was published by the
\* server for that batch.
AcksAccounted ==
  \A b \in Batches : acks[b] + handlers[b] + channel[b] <= copies[b]

\* A callback with the only ack of its batch finds room in the channel: ch <-
\* ack does not block, also when Send has returned since the lookup.
LoneAckHasRoom ==
  \A b \in Batches : handlers[b] > 0 /\ copies[b] <= 1 => HasRoom(b)

-----------------------------------------------------------------------------
(* The parts of the state.                                                 *)

ConnOK ==
  /\ conn \in {"connecting", "connected", "reconnecting", "disconnected"}
  /\ lostCalls \in Nat /\ connectCalls \in Nat
  /\ disconnectedAt \in {Zero} \cup 0..StuckAfter
  /\ down \in 0..StuckAfter /\ overtaken \in BOOLEAN

SubOK ==
  /\ subscribers \in [1..MaxAttempts -> Nat] /\ failsHere \in Nat
  /\ subscribed \in BOOLEAN /\ (subscribed => Open)

AckOK ==
  /\ channel \in [Batches -> 0..Capacity] /\ handlers \in [Batches -> Nat]
  /\ acks \in [Batches -> 0..MaxCopies] /\ copies \in [Batches -> 0..MaxCopies]

SendOK ==
  /\ send \in SendState /\ budget \in Budget
  /\ pending = IF send.pc = "idle" THEN {} ELSE {send.batch}

WatchdogOK == watchdog \in {"idle", "read", "connect", "recheck", "set"}

(* The type invariant, part by part.                                       *)
LEMMA TypeParts == TypeOK <=> ConnOK /\ SubOK /\ AckOK /\ SendOK /\ WatchdogOK
BY DEF TypeOK, ConnOK, SubOK, AckOK, SendOK, WatchdogOK, SendState

\* A tick makes an age at most one tick older, and keeps which is older.
LEMMA OlderType ==
  ASSUME NEW a \in {Zero} \cup 0..StuckAfter, NEW b \in 0..StuckAfter
  PROVE  /\ Older(a) \in {Zero} \cup 0..StuckAfter
         /\ Older(b) \in 0..StuckAfter
         /\ a <= b => Older(a) <= Older(b)
BY MqttAssumption DEF Older, Zero

-----------------------------------------------------------------------------
(* One lemma per part: which steps touch it, and how they leave it.        *)

\* A step of the client, of a callback or of the watchdog.
LEMMA ConnInductive == TypeOK /\ [Next]_vars => ConnOK' /\ WatchdogOK'
<1> SUFFICES ASSUME TypeOK, [Next]_vars PROVE ConnOK' /\ WatchdogOK'
  OBVIOUS
<1>a. ConnOK /\ WatchdogOK /\ 0 \in 0..StuckAfter
  BY TypeParts, MqttAssumption
<1>0. CASE UNCHANGED connVars /\ UNCHANGED watchdog
  BY <1>0, <1>a DEF connVars, ConnOK, WatchdogOK
<1>1. CASE ConnectionLost \/ Connected \/ Stall
  BY <1>1, <1>a DEF ConnectionLost, Connected, Stall, ConnOK, WatchdogOK
<1>2. CASE Tick
  <2>1. Older(disconnectedAt) \in {Zero} \cup 0..StuckAfter /\ Older(down) \in 0..StuckAfter
    BY <1>a, OlderType DEF ConnOK
  <2>2. disconnectedAt' \in {Zero} \cup 0..StuckAfter /\ down' \in 0..StuckAfter
    BY <1>2, <1>a, <2>1 DEF Tick
  <2>3. UNCHANGED <<conn, lostCalls, connectCalls, overtaken, watchdog>>
    BY <1>2 DEF Tick
  <2> QED BY <1>a, <2>2, <2>3 DEF ConnOK, WatchdogOK
<1>3. CASE OnConnectionLost \/ OnConnect
  <2>1. overtaken' \in BOOLEAN
    BY <1>3, Zenon DEF OnConnectionLost, OnConnect, Open
  <2>2. lostCalls' \in Nat /\ connectCalls' \in Nat /\ disconnectedAt' \in {Zero, 0}
    BY <1>3, <1>a DEF OnConnectionLost, OnConnect, ConnOK
  <2>3. UNCHANGED <<conn, down, watchdog>>
    BY <1>3 DEF OnConnectionLost, OnConnect
  <2> QED BY <1>a, <2>1, <2>2, <2>3 DEF ConnOK, WatchdogOK
<1>4. CASE WatchdogStep
  BY <1>4, <1>a DEF WatchdogStep, Check, ReadDisconnectedAt, ForceConnect, Recheck,
                    PushDisconnectedAt, connVars, ConnOK, WatchdogOK
<1>5. CASE \/ \E n \in 1..MaxAttempts : Subscribe(n)
           \/ SendNotConnected \/ Send \/ PublishDone \/ SendTimeout \/ ReceiveAck
           \/ \E b \in Batches : ServerAcks(b) \/ HandleAck(b) \/ Signal(b)
  BY <1>0, <1>5 DEF Subscribe, SendNotConnected, Send, PublishDone, SendTimeout, ReceiveAck,
                    ServerAcks, HandleAck, Signal
<1> QED BY <1>0, <1>1, <1>2, <1>3, <1>4, <1>5 DEF Next, vars

\* A step of the subscription or of the client: a new connection starts
\* without the subscription.
LEMMA SubInductive == TypeOK /\ [Next]_vars => SubOK'
<1> SUFFICES ASSUME TypeOK, [Next]_vars PROVE SubOK'
  OBVIOUS
<1>a. SubOK /\ ConnOK
  BY TypeParts
<1>0. CASE UNCHANGED <<conn, subVars>>
  BY <1>0, <1>a DEF subVars, SubOK, Open
<1>1. CASE ConnectionLost \/ Connected \/ Stall
  <2>1. CASE ConnectionLost
    BY <1>a, <2>1 DEF ConnectionLost, SubOK
  <2>2. CASE Connected
    BY <1>a, <2>2 DEF Connected, SubOK, Open
  <2>3. CASE Stall
    BY <1>a, <2>3 DEF Stall, subVars, SubOK, Open
  <2> QED BY <1>1, <2>1, <2>2, <2>3
<1>2. CASE OnConnect
  BY <1>2, <1>a, MqttAssumption DEF OnConnect, SubOK, Open
<1>3. ASSUME NEW n \in 1..MaxAttempts, Subscribe(n) PROVE SubOK'
  <2>0. subscribers[n] \in Nat /\ subscribers[n] > 0
    BY <1>a, <1>3 DEF Subscribe, SubOK
  <2>1. ASSUME RetryOrGiveUp(n) PROVE subscribers' \in [1..MaxAttempts -> Nat]
    BY <1>a, <2>0, <2>1 DEF RetryOrGiveUp, SubOK
  <2>2. ASSUME subscribers' = [subscribers EXCEPT ![n] = @ - 1]
        PROVE  subscribers' \in [1..MaxAttempts -> Nat]
    BY <1>a, <2>0, <2>2 DEF SubOK
  <2>3. UNCHANGED conn
    BY <1>3 DEF Subscribe, connVars
  <2>4. subscribers' \in [1..MaxAttempts -> Nat]
    BY <1>3, <2>1, <2>2 DEF Subscribe
  <2>5. failsHere' \in Nat
    BY <1>a, <1>3 DEF Subscribe, SubOK
  <2>6. subscribed' \in BOOLEAN /\ (subscribed' => Open')
    <3>1. (subscribed' = TRUE /\ Open) \/ subscribed' = subscribed
      BY <1>3 DEF Subscribe
    <3>2. Open' = Open
      BY <2>3 DEF Open
    <3>3. subscribed \in BOOLEAN /\ (subscribed => Open)
      BY <1>a DEF SubOK
    <3>4. CASE subscribed' = TRUE /\ Open
      BY <3>2, <3>4
    <3>5. CASE subscribed' = subscribed
      BY <3>2, <3>3, <3>5
    <3> QED BY <3>1, <3>4, <3>5
  <2> QED BY <2>4, <2>5, <2>6 DEF SubOK
<1>4. CASE ForceConnect
  BY <1>4, <1>a DEF ForceConnect, subVars, SubOK, Open
<1>5. CASE \/ Tick \/ OnConnectionLost \/ Check \/ ReadDisconnectedAt \/ Recheck
           \/ PushDisconnectedAt
           \/ SendNotConnected \/ Send \/ PublishDone \/ SendTimeout \/ ReceiveAck
           \/ \E b \in Batches : ServerAcks(b) \/ HandleAck(b) \/ Signal(b)
  BY <1>0, <1>5 DEF Tick, OnConnectionLost, Check, ReadDisconnectedAt, Recheck,
                    PushDisconnectedAt, SendNotConnected, Send, PublishDone, SendTimeout,
                    ReceiveAck, ServerAcks, HandleAck, Signal, connVars
<1> QED BY <1>0, <1>1, <1>2, <1>3, <1>4, <1>5 DEF Next, WatchdogStep, vars, connVars

\* A step of Send: it works on one batch at a time, with an id of its own.
LEMMA SendInductive == TypeOK /\ BatchInv /\ [Next]_vars => SendOK' /\ BatchInv'
<1> SUFFICES ASSUME TypeOK, BatchInv, [Next]_vars PROVE SendOK' /\ BatchInv'
  OBVIOUS
<1>a. /\ SendOK /\ send \in SendState /\ budget \in Budget
      /\ send.batch \in 0..MaxBatches /\ budget.batches \in 0..MaxBatches /\ MaxBatches \in Nat
  BY TypeParts, MqttAssumption DEF SendOK, SendState, Budget
<1>0. CASE UNCHANGED <<send, pending, budget>>
  BY <1>0, <1>a DEF SendOK, BatchInv
<1>1. CASE UNCHANGED <<send, pending>> /\ budget' \in Budget /\ budget'.batches = budget.batches
  BY <1>1, <1>a DEF SendOK, BatchInv
<1>2. ASSUME \/ ConnectionLost \/ Stall
             \/ \E n \in 1..MaxAttempts : Subscribe(n) /\ budget' # budget
      PROVE  UNCHANGED <<send, pending>> /\ budget' \in Budget /\ budget'.batches = budget.batches
  BY <1>2, <1>a DEF ConnectionLost, Stall, Subscribe, Budget, ackVars
<1>3. CASE SendNotConnected
  <2>1. send' \in SendState /\ send'.pc = send.pc /\ send'.batch = send.batch
    BY <1>3, <1>a DEF SendNotConnected, SendState
  <2>2. budget' \in Budget /\ budget'.batches = budget.batches - 1
    BY <1>3, <1>a DEF SendNotConnected, Budget
  <2>3. pending' = pending
    BY <1>3 DEF SendNotConnected, ackVars
  <2> QED BY <1>a, <2>1, <2>2, <2>3 DEF SendOK, BatchInv
<1>4. CASE Send
  <2>1. send.batch + 1 \in 0..MaxBatches
    BY <1>4, <1>a DEF Send, BatchInv
  <2>2. send' \in SendState /\ send'.pc = "publish" /\ send'.batch = send.batch + 1
    BY <1>4, <2>1 DEF Send, SendState
  <2>3. budget' \in Budget /\ budget'.batches = budget.batches - 1
    BY <1>4, <1>a DEF Send, Budget
  <2>4. pending' = {send.batch + 1}
    BY <1>4, <1>a DEF Send, SendOK
  <2>5. SendOK'
    BY <2>2, <2>3, <2>4 DEF SendOK
  <2>6. BatchInv'
    BY <1>a, <2>2, <2>3 DEF BatchInv
  <2> QED BY <2>5, <2>6
<1>5. CASE PublishDone
  BY <1>5, <1>a DEF PublishDone, ackVars, SendState, SendOK, BatchInv
<1>6. CASE SendTimeout \/ ReceiveAck
  <2>1. \E result \in {"ok", "failed"} : send' = [send EXCEPT !.pc = "idle", !.result = result]
    BY <1>6 DEF SendTimeout, ReceiveAck, Return
  <2>2. send' \in SendState /\ send'.pc = "idle" /\ send'.batch = send.batch
    BY <1>a, <2>1 DEF SendState
  <2>3. send.pc # "idle" /\ pending' = pending \ {send.batch} /\ budget' = budget
    BY <1>6 DEF SendTimeout, ReceiveAck, Return
  <2>4. pending' = {}
    BY <1>a, <2>3 DEF SendOK
  <2> QED BY <1>a, <2>2, <2>3, <2>4 DEF SendOK, BatchInv
<1>7. CASE \/ Connected \/ Tick \/ OnConnectionLost \/ OnConnect \/ WatchdogStep
           \/ \E n \in 1..MaxAttempts : Subscribe(n) /\ budget' = budget
           \/ \E b \in Batches : ServerAcks(b) \/ HandleAck(b) \/ Signal(b)
  BY <1>0, <1>7 DEF Connected, Tick, OnConnectionLost, OnConnect, WatchdogStep, Check,
                    ReadDisconnectedAt, ForceConnect, Recheck, PushDisconnectedAt, Subscribe,
                    ServerAcks, HandleAck, Signal, ackVars
<1> QED BY <1>0, <1>1, <1>2, <1>3, <1>4, <1>5, <1>6, <1>7 DEF Next, vars, ackVars

\* The steps that touch no ack.
Quiet ==
  \/ Connected \/ Stall \/ Tick \/ OnConnectionLost \/ OnConnect \/ WatchdogStep
  \/ \E n \in 1..MaxAttempts : Subscribe(n)
  \/ SendNotConnected \/ Send \/ PublishDone \/ SendTimeout

(* Steps that touch no ack.                                                *)
LEMMA QuietEffect == ASSUME Quiet PROVE UNCHANGED <<channel, handlers, acks, copies>>
BY DEF Quiet, Connected, Stall, Tick, OnConnectionLost, OnConnect, WatchdogStep, Check,
       ReadDisconnectedAt, ForceConnect, Recheck, PushDisconnectedAt, Subscribe,
       SendNotConnected, Send, PublishDone, SendTimeout, ackVars

\* A step of the server, of an ack callback, or of a Send that takes an ack.
LEMMA AckInductive ==
  TypeOK /\ BatchInv /\ AcksAccounted /\ [Next]_vars => AckOK' /\ AcksAccounted'
<1> SUFFICES ASSUME TypeOK, BatchInv, AcksAccounted, [Next]_vars PROVE AckOK' /\ AcksAccounted'
  OBVIOUS
<1>a. AckOK
  BY TypeParts
<1>b. \A b \in Batches : /\ acks[b] \in 0..MaxCopies /\ copies[b] \in 0..MaxCopies
                         /\ handlers[b] \in Nat /\ channel[b] \in 0..Capacity
                         /\ acks[b] + handlers[b] + channel[b] <= copies[b]
  BY <1>a DEF AckOK, AcksAccounted
<1>c. MaxCopies \in Nat /\ Capacity = 1
  BY MqttAssumption DEF Capacity
<1>0. CASE UNCHANGED <<channel, handlers, acks, copies>>
  BY <1>0, <1>a DEF AckOK, AcksAccounted
<1>1. CASE ConnectionLost
  <2>1. acks' = [b \in Batches |-> 0] /\ UNCHANGED <<channel, handlers, copies>>
    BY <1>1 DEF ConnectionLost
  <2> QED BY <1>a, <1>b, <1>c, <2>1 DEF AckOK, AcksAccounted
<1>2. CASE ReceiveAck
  <2>1. send.batch \in Batches
    BY <1>2, TypeParts, MqttAssumption DEF ReceiveAck, BatchInv, SendOK, SendState, Batches
  <2>2. /\ channel' = [channel EXCEPT ![send.batch] = @ - 1] /\ channel[send.batch] > 0
        /\ UNCHANGED <<handlers, acks, copies>>
    BY <1>2 DEF ReceiveAck
  <2> QED BY <1>a, <1>b, <1>c, <2>1, <2>2 DEF AckOK, AcksAccounted
<1>3. ASSUME NEW b \in Batches, ServerAcks(b) PROVE AckOK' /\ AcksAccounted'
  <2>1. /\ copies[b] < MaxCopies /\ copies' = [copies EXCEPT ![b] = @ + 1]
        /\ acks' = acks \/ acks' = [acks EXCEPT ![b] = @ + 1]
        /\ UNCHANGED <<channel, handlers>>
    BY <1>3 DEF ServerAcks
  <2>2. AckOK'
    BY <1>a, <1>b, <1>c, <2>1 DEF AckOK
  <2>3. AcksAccounted'
    BY <1>a, <1>b, <1>c, <2>1 DEF AckOK, AcksAccounted
  <2> QED BY <2>2, <2>3
<1>4. ASSUME NEW b \in Batches, HandleAck(b) PROVE AckOK' /\ AcksAccounted'
  <2>1. /\ acks[b] > 0 /\ acks' = [acks EXCEPT ![b] = @ - 1]
        /\ handlers' = handlers \/ handlers' = [handlers EXCEPT ![b] = @ + 1]
        /\ UNCHANGED <<channel, copies>>
    BY <1>4 DEF HandleAck, LookupPending
  <2>2. AckOK'
    BY <1>a, <1>b, <1>c, <2>1 DEF AckOK
  <2>3. AcksAccounted'
    BY <1>a, <1>b, <1>c, <2>1 DEF AckOK, AcksAccounted
  <2> QED BY <2>2, <2>3
<1>5. ASSUME NEW b \in Batches, Signal(b) PROVE AckOK' /\ AcksAccounted'
  <2>1. /\ handlers[b] > 0 /\ channel[b] < Capacity
        /\ handlers' = [handlers EXCEPT ![b] = @ - 1]
        /\ channel' = [channel EXCEPT ![b] = @ + 1]
        /\ UNCHANGED <<acks, copies>>
    BY <1>5 DEF Signal, HasRoom
  <2>2. AckOK'
    BY <1>a, <1>b, <1>c, <2>1 DEF AckOK
  <2>3. AcksAccounted'
    BY <1>a, <1>b, <1>c, <2>1 DEF AckOK, AcksAccounted
  <2> QED BY <2>2, <2>3
<1>6. CASE Quiet
  BY <1>0, <1>6, QuietEffect
<1> QED BY <1>0, <1>1, <1>2, <1>3, <1>4, <1>5, <1>6 DEF Next, Quiet, vars, ackVars

-----------------------------------------------------------------------------
\* The state is well typed, batch ids suffice, and acks are accounted for.
Inv == TypeOK /\ BatchInv /\ AcksAccounted

(* The invariant holds before the first Connect.                           *)
LEMMA InvInit == Init => Inv
<1> SUFFICES ASSUME Init PROVE Inv
  OBVIOUS
<1>1. ConnOK /\ WatchdogOK
  <2>1. 0 \in 0..StuckAfter
    BY MqttAssumption
  <2> QED BY <2>1 DEF Init, ConnOK, WatchdogOK
<1>2. SubOK
  BY DEF Init, SubOK
<1>3. AckOK /\ AcksAccounted
  BY MqttAssumption DEF Init, AckOK, AcksAccounted, Capacity
<1>4. budget \in Budget
  BY MqttAssumption DEF Init
<1>5. SendOK /\ BatchInv
  BY <1>4, MqttAssumption DEF Init, SendOK, SendState, BatchInv, Budget
<1> QED BY <1>1, <1>2, <1>3, <1>5, TypeParts DEF Inv

(* Every step of adapter, callbacks, watchdog and broker keeps the         *)
(* invariant.                                                              *)
LEMMA InvInductive == Inv /\ [Next]_vars => Inv'
<1> SUFFICES ASSUME Inv, [Next]_vars PROVE Inv'
  OBVIOUS
<1>1. ConnOK' /\ SubOK' /\ AckOK' /\ SendOK' /\ WatchdogOK' /\ BatchInv' /\ AcksAccounted'
  BY ConnInductive, SubInductive, AckInductive, SendInductive DEF Inv
<1>2. TypeOK'
  BY <1>1 DEF TypeOK, ConnOK, SubOK, AckOK, SendOK, WatchdogOK, SendState
<1> QED BY <1>1, <1>2 DEF Inv

(* The invariant holds throughout.                                         *)
LEMMA InvCorrect == Spec => []Inv
BY InvInit, InvInductive, PTL DEF Spec

(***************************************************************************)
(* The adapter's state stays well typed however callbacks, watchdog, Send  *)
(* and acks interleave: pending never holds more than the batch Send is    *)
(* waiting for, a channel never more than its capacity, and the broker's   *)
(* subscription never outlives its connection.                             *)
(***************************************************************************)
THEOREM TypeCorrect == Spec => []TypeOK
BY InvCorrect, PTL DEF Inv

(***************************************************************************)
(* The safe half of "an ack never leaves its callback blocked": handleAck  *)
(* with the only ack of its batch always finds room in the channel, also   *)
(* when Send gave up between the lookup and ch <- ack.  Only a batch acked *)
(* twice can fill the channel under a callback.                            *)
(***************************************************************************)
THEOREM LoneAckRoom == Spec => []LoneAckHasRoom
<1>1. Inv => LoneAckHasRoom
  <2> SUFFICES ASSUME Inv, NEW b \in Batches, handlers[b] > 0, copies[b] <= 1 PROVE channel[b] < 1
    BY DEF LoneAckHasRoom, HasRoom, Capacity
  <2>1. /\ acks[b] \in 0..MaxCopies /\ handlers[b] \in Nat /\ channel[b] \in 0..1
        /\ copies[b] \in 0..MaxCopies /\ MaxCopies \in Nat
    BY TypeParts, MqttAssumption DEF Inv, AckOK, Capacity
  <2>2. acks[b] + handlers[b] + channel[b] <= copies[b]
    BY DEF Inv, AcksAccounted
  <2> QED BY <2>1, <2>2
<1> QED BY <1>1, InvCorrect, PTL

-----------------------------------------------------------------------------
\* A step keeps the ages in order: onConnectionLost, the watchdog and
\* onConnect only ever make disconnectedAt younger.
LEMMA AgeInductive == Inv /\ AgeIsHonest /\ [Next]_vars => AgeIsHonest'
<1> SUFFICES ASSUME Inv, AgeIsHonest, [Next]_vars, ~ Open', lostCalls' = 0
             PROVE  disconnectedAt' <= down'
  BY DEF AgeIsHonest
<1>a. /\ ConnOK /\ lostCalls \in Nat /\ down \in 0..StuckAfter
      /\ disconnectedAt \in {Zero} \cup 0..StuckAfter /\ StuckAfter \in Nat
  BY TypeParts, MqttAssumption DEF Inv, ConnOK
<1>b. ASSUME ~ Open, UNCHANGED <<lostCalls, disconnectedAt, down>>
      PROVE  disconnectedAt' <= down'
  BY <1>b DEF AgeIsHonest
<1>0. CASE UNCHANGED connVars
  BY <1>0, <1>b DEF connVars, Open
<1>1. CASE ConnectionLost \/ Connected
  BY <1>1, <1>a DEF ConnectionLost, Connected, Open
<1>2. CASE Stall \/ ForceConnect
  BY <1>2, <1>b DEF Stall, ForceConnect, Open
<1>3. CASE Tick
  <2>1. ~ Open /\ lostCalls = 0
    BY <1>3 DEF Tick, Open
  <2>2. disconnectedAt <= down
    BY <2>1 DEF AgeIsHonest
  <2>3. Older(disconnectedAt) <= Older(down)
    BY <1>a, <2>2, OlderType
  <2> QED BY <1>3, <2>1, <2>3 DEF Tick
<1>4. CASE OnConnectionLost \/ OnConnect \/ PushDisconnectedAt
  BY <1>4, <1>a DEF OnConnectionLost, OnConnect, PushDisconnectedAt, Zero
<1>5. CASE \/ Check \/ ReadDisconnectedAt \/ Recheck
           \/ \E n \in 1..MaxAttempts : Subscribe(n)
           \/ SendNotConnected \/ Send \/ PublishDone \/ SendTimeout \/ ReceiveAck
           \/ \E b \in Batches : ServerAcks(b) \/ HandleAck(b) \/ Signal(b)
  BY <1>0, <1>5 DEF Check, ReadDisconnectedAt, Recheck, Subscribe, SendNotConnected, Send,
                    PublishDone, SendTimeout, ReceiveAck, ServerAcks, HandleAck, Signal
<1> QED BY <1>0, <1>1, <1>2, <1>3, <1>4, <1>5 DEF Next, WatchdogStep, vars

(***************************************************************************)
(* The watchdog forces no reconnect before ReconnectStuckAfter: with every *)
(* onConnectionLost run, disconnectedAt is never longer ago than the       *)
(* connection is down, whatever late onConnect calls and late writes of    *)
(* the watchdog itself came in between.                                    *)
(***************************************************************************)
THEOREM AgeHonest == Spec => []AgeIsHonest
<1>1. Init => AgeIsHonest
  BY DEF Init, AgeIsHonest, Open
<1> QED BY <1>1, AgeInductive, InvCorrect, PTL DEF Spec

\* Only ReceiveAck makes a Send succeed, with an ack of its own batch.
LEMMA OkInductive == Inv /\ OkMeansAccepted /\ [Next]_vars => OkMeansAccepted'
<1> SUFFICES ASSUME Inv, OkMeansAccepted, [Next]_vars, send'.result = "ok"
             PROVE  send'.batch \notin Rejected /\ copies'[send'.batch] > 0
  BY DEF OkMeansAccepted
<1>a. send \in SendState /\ AckOK
  BY TypeParts DEF Inv, SendOK
<1>0. CASE UNCHANGED <<send, copies>>
  BY <1>0 DEF OkMeansAccepted
<1>1. CASE SendNotConnected \/ Send \/ SendTimeout
  <2>1. send'.result \in {"none", "failed"}
    <3>1. CASE SendNotConnected
      BY <1>a, <3>1 DEF SendNotConnected, SendState
    <3>2. CASE Send
      BY <3>2 DEF Send
    <3>3. CASE SendTimeout
      BY <1>a, <3>3 DEF SendTimeout, Return, SendState
    <3> QED BY <1>1, <3>1, <3>2, <3>3
  <2> QED BY <2>1
<1>2. CASE PublishDone
  BY <1>2, <1>a DEF PublishDone, ackVars, SendState, OkMeansAccepted
<1>3. CASE ReceiveAck
  <2>1. send.batch \in Batches /\ channel[send.batch] > 0
    BY <1>3, <1>a, MqttAssumption DEF ReceiveAck, Inv, BatchInv, SendState, Batches
  <2>2. copies[send.batch] > 0
    BY <1>a, <2>1 DEF Inv, AcksAccounted, AckOK, Capacity
  <2>3. /\ send'.batch = send.batch /\ copies' = copies
        /\ send'.result = IF send.batch \in Rejected THEN "failed" ELSE "ok"
    BY <1>3, <1>a DEF ReceiveAck, Return, SendState
  <2> QED BY <2>2, <2>3
<1>4. ASSUME NEW b \in Batches, ServerAcks(b)
      PROVE  send'.batch \notin Rejected /\ copies'[send'.batch] > 0
  <2>1. send' = send /\ copies' = [copies EXCEPT ![b] = @ + 1]
    BY <1>4 DEF ServerAcks
  <2>2. send.batch \notin Rejected /\ copies[send.batch] > 0
    BY <2>1 DEF OkMeansAccepted
  <2> QED BY <1>a, <2>1, <2>2 DEF AckOK
<1>5. CASE \/ ConnectionLost \/ Connected \/ Stall \/ Tick \/ OnConnectionLost \/ OnConnect
           \/ WatchdogStep \/ \E n \in 1..MaxAttempts : Subscribe(n)
           \/ \E b \in Batches : HandleAck(b) \/ Signal(b)
  BY <1>0, <1>5 DEF ConnectionLost, Connected, Stall, Tick, OnConnectionLost, OnConnect,
                    WatchdogStep, Check, ReadDisconnectedAt, ForceConnect, Recheck,
                    PushDisconnectedAt, Subscribe, HandleAck, Signal, ackVars
<1> QED BY <1>0, <1>1, <1>2, <1>3, <1>4, <1>5 DEF Next, vars, ackVars

(***************************************************************************)
(* Send reports success only for a batch the server has acked itself, and  *)
(* did not reject: an ack that comes after its Send gave up never ends the *)
(* Send of a later batch, however often acks are repeated or delayed.      *)
(***************************************************************************)
THEOREM OkAccepted == Spec => []OkMeansAccepted
<1>1. Init => OkMeansAccepted
  BY DEF Init, OkMeansAccepted
<1> QED BY <1>1, OkInductive, InvCorrect, PTL DEF Spec
=============================================================================

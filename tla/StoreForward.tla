---------------------------- MODULE StoreForward ----------------------------
(***************************************************************************)
(* The store-and-forward pipeline of the gateway: the persistent queue     *)
(* (gateway/internal/queue), the forwarder loop that drains it             *)
(* (gateway/internal/forwarder), the MQTT round trip, and the internal     *)
(* server that ingests batches (internal-server/).                         *)
(*                                                                         *)
(* A data_queue row is named by its sequence_id: the primary key is        *)
(* AUTOINCREMENT and assigned in the same transaction as the sequence, so  *)
(* the two identify the same row.  Wall-clock columns are kept as          *)
(* distances from now (wait = time left until next_attempt_at, age = time  *)
(* since sent_at), in the seconds of BackoffDuration; Tick lets one pass.  *)
(***************************************************************************)
EXTENDS Naturals, FiniteSets

CONSTANTS
  MaxSeq,          \* bound: how many readings are inserted
  MaxFaults,       \* bound: how many faults happen altogether
  Hazards,         \* the kinds of fault this instance admits
  DiskFull,        \* TRUE iff disk usage may reach storage_full_percent
  BatchSize,       \* forwarder.batch_size
  EvictBatchSize,  \* queue.evict_batch_size
  Retention,       \* queue.retention_days, in clock units
  Inputs           \* what pollers emit: [priority, eventTimestamp] records

HazardKinds == {"send", "lose", "dup", "ingest", "crash", "db"}

\* datapoint.priority is CHECKed to be one of these; Entry.Priority may be "".
Priorities == {"CRITICAL", "HIGH", "NORMAL", "LOW"}

Reading == [priority : Priorities \cup {""}, eventTimestamp : Nat]

ASSUME ConstantsAssumption ==
  /\ MaxSeq \in Nat /\ MaxFaults \in Nat /\ Retention \in Nat
  /\ BatchSize \in Nat \ {0} /\ EvictBatchSize \in Nat \ {0}
  /\ Hazards \subseteq HazardKinds
  /\ DiskFull \in BOOLEAN
  /\ Inputs \subseteq Reading

VARIABLES
  lastSequence,  \* gateway.last_sequence (SQLite)
  queue,         \* data_queue (SQLite): sequence_id -> row
  pc,            \* where the gateway process and its forwarder are
  batch,         \* the entries FetchBatch handed to Send
  batchID,       \* the batch_id of the latest Send (uuids never repeat)
  wire,          \* batches published to DataTopic and not yet delivered
  handler,       \* the consumer's running handleMessage call, if any
  acks,          \* acks published to AckTopic and not yet delivered
  readings,      \* the readings table of the internal server (Postgres)
  faults,        \* faults so far
  acquired,      \* history: every entry Insert committed
  evicted        \* history: every sequence_id storage pressure deleted

gatewayDB == <<lastSequence, queue>>
forwarder == <<pc, batch, batchID>>
network   == <<wire, acks>>
server    == <<handler, readings>>
history   == <<acquired, evicted>>
vars == <<gatewayDB, forwarder, network, server, faults, history>>

-----------------------------------------------------------------------------
Row == [status : {"PENDING", "SENDING", "SENT"}, priority : Priorities,
        eventTimestamp : Nat, retryCount : Nat, wait : Nat, age : Nat]

Entry == [seq : Nat, priority : Priorities, eventTimestamp : Nat]

Batch == [id : Nat, entries : SUBSET Entry]

TypeOK ==
  /\ lastSequence \in Nat
  /\ queue \in [DOMAIN queue -> Row]
  /\ DOMAIN queue \subseteq 1..lastSequence
  /\ pc \in {"down", "starting", "idle", "sending", "waiting", "acked", "failed"}
  /\ batch \in SUBSET Entry
  /\ batchID \in Nat
  /\ wire \subseteq Batch
  /\ handler \subseteq [id : Nat, entries : SUBSET Entry, todo : SUBSET Entry]
  /\ acks \subseteq Nat
  /\ readings \subseteq Entry
  /\ faults \in Nat
  /\ acquired \subseteq Entry
  /\ evicted \subseteq Nat

Init ==
  /\ lastSequence = 0
  /\ queue = [s \in {} |-> {}]
  /\ pc = "down" /\ batch = {} /\ batchID = 0
  /\ wire = {} /\ handler = {} /\ acks = {}
  /\ readings = {}
  /\ faults = 0
  /\ acquired = {} /\ evicted = {}

-----------------------------------------------------------------------------
\* A fault of the given kind happens now.
Fault(kind) == /\ kind \in Hazards
               /\ faults < MaxFaults
               /\ faults' = faults + 1

\* The gateway process is running.
Up == pc # "down"

\* Mutant: the priority is stored as it came.
PriorityAsGiven(p) == p

\* An entry without a priority is NORMAL.
PriorityOrDefault(p) == IF p = "" THEN "NORMAL" ELSE p

\* priorityOrderSQL: what leaves first.
DispatchRank(p) ==
  CASE p = "CRITICAL" -> 0 [] p = "HIGH" -> 1 [] p = "NORMAL" -> 2
    [] p = "LOW" -> 3 [] OTHER -> 4

\* The CASE of EvictOldestNonCritical: what is given up first.
EvictRank(p) ==
  CASE p = "LOW" -> 0 [] p = "NORMAL" -> 1 [] p = "HIGH" -> 2 [] OTHER -> 3

\* 1, 2, 4, ... 32, 60, 60, ...: 1 << shift seconds, capped at 60.
BackoffDuration(retryCount) ==
  LET shift == IF retryCount < 1 THEN 0 ELSE retryCount - 1
      pow   == <<1, 2, 4, 8, 16, 32, 64>>
  IN  IF shift > 6 \/ pow[shift + 1] > 60 THEN 60 ELSE pow[shift + 1]

-----------------------------------------------------------------------------
(* The queue repository, as state functions of data_queue.                 *)

EntryOf(s) == [seq |-> s, priority |-> queue[s].priority,
               eventTimestamp |-> queue[s].eventTimestamp]

\* WHERE status = 'PENDING' AND next_attempt_at <= now
Eligible == {s \in DOMAIN queue : queue[s].status = "PENDING" /\ queue[s].wait = 0}

\* Mutant: newest first within a priority.
DispatchNewestFirst(a, b) ==
  \/ DispatchRank(a.priority) < DispatchRank(b.priority)
  \/ DispatchRank(a.priority) = DispatchRank(b.priority) /\ a.seq > b.seq

\* ORDER BY priorityOrderSQL, sequence_id
DispatchBefore(a, b) ==
  \/ DispatchRank(a.priority) < DispatchRank(b.priority)
  \/ DispatchRank(a.priority) = DispatchRank(b.priority) /\ a.seq < b.seq

\* ... LIMIT BatchSize
SelectBatch ==
  {s \in Eligible :
     Cardinality({t \in Eligible : DispatchBefore(EntryOf(t), EntryOf(s))}) < BatchSize}

MarkSending(S) == [s \in DOMAIN queue |->
                     IF s \in S THEN [queue[s] EXCEPT !.status = "SENDING"] ELSE queue[s]]

Seqs(entries) == {e.seq : e \in entries}

\* UPDATE ... SET status = 'SENT', sent_at = now WHERE id IN (S)
MarkSent(S) == [s \in DOMAIN queue |->
                  IF s \in S THEN [queue[s] EXCEPT !.status = "SENT", !.age = 0]
                  ELSE queue[s]]

\* Mutant: the UPDATE counts the retry but leaves the row SENDING.
MarkFailedKeepsSending(S) ==
  [s \in DOMAIN queue |->
     IF s \in S THEN [queue[s] EXCEPT !.retryCount = @ + 1] ELSE queue[s]]

\* One transaction: the SELECT of a row that is gone fails and rolls all back.
MarkFailed(S) ==
  IF S \subseteq DOMAIN queue
  THEN [s \in DOMAIN queue |->
          IF s \in S
          THEN [queue[s] EXCEPT !.status = "PENDING", !.retryCount = @ + 1,
                                !.wait = BackoffDuration(queue[s].retryCount + 1)]
          ELSE queue[s]]
  ELSE queue

\* Mutant: nothing is recovered at startup.
RecoverNothing == queue

RecoverSendingToPending ==
  [s \in DOMAIN queue |-> IF queue[s].status = "SENDING"
                          THEN [queue[s] EXCEPT !.status = "PENDING"] ELSE queue[s]]

\* DELETE FROM data_queue WHERE id IN (S)
Delete(S) == [s \in DOMAIN queue \ S |-> queue[s]]

\* Mutant: retention by age alone.
ExpiredWhateverStatus == {s \in DOMAIN queue : queue[s].status # "PENDING"}

\* status = 'SENT' AND sent_at < now - Retention
Expired == {s \in DOMAIN queue : queue[s].status = "SENT" /\ queue[s].age > Retention}

\* Mutant: the sub-select forgets WHERE priority != 'CRITICAL'.
AnyPriority == DOMAIN queue

NonCritical == {s \in DOMAIN queue : queue[s].priority # "CRITICAL"}

EvictBefore(s, t) ==
  \/ EvictRank(queue[s].priority) < EvictRank(queue[t].priority)
  \/ /\ EvictRank(queue[s].priority) = EvictRank(queue[t].priority)
     /\ queue[s].eventTimestamp < queue[t].eventTimestamp

\* The sets the sub-select of EvictOldestNonCritical may return: the first
\* EvictBatchSize rows in its order, ties broken either way.
EvictionChoices ==
  {S \in SUBSET NonCritical :
     /\ Cardinality(S) = EvictBatchSize \/ (S = NonCritical /\ Cardinality(S) < EvictBatchSize)
     /\ \A s \in S, t \in NonCritical \ S : ~ EvictBefore(t, s)}

-----------------------------------------------------------------------------
(* The gateway process.                                                    *)

\* Mutant: the upsert replaces the whole gateway row.
EnsureGatewayReplaces == 0

\* main: EnsureGateway upserts the name and keeps last_sequence; from here on
\* the sweepers and the pollers run, the forwarder not yet.
EnsureGateway == lastSequence

Start ==
  /\ pc = "down"
  /\ pc' = "starting"
  /\ lastSequence' = EnsureGateway
  /\ UNCHANGED <<queue, batch, batchID, network, server, faults, history>>

\* Forwarder.Run recovers what an earlier process left SENDING; an error is
\* only logged and the loop starts all the same.
Recover ==
  /\ pc = "starting"
  /\ pc' = "idle"
  /\ \/ queue' = RecoverSendingToPending /\ UNCHANGED faults
     \/ Fault("db") /\ UNCHANGED queue
  /\ UNCHANGED <<lastSequence, batch, batchID, network, server, history>>

\* The process dies (kill, power loss, os.Exit after saveSettings, a failed
\* broker connection at startup); what is not in SQLite is gone.
Crash ==
  /\ Up /\ Fault("crash")
  /\ pc' = "down" /\ batch' = {}
  /\ UNCHANGED <<gatewayDB, batchID, network, server, history>>

\* Processor.Process -> Repository.Insert: the sequence number and the row in
\* one transaction.  (A failing Insert rolls back and changes nothing.)
Insert(r) ==
  /\ Up /\ lastSequence < MaxSeq
  /\ LET s   == lastSequence + 1
         row == [status |-> "PENDING", priority |-> PriorityOrDefault(r.priority),
                 eventTimestamp |-> r.eventTimestamp, retryCount |-> 0,
                 wait |-> 0, age |-> 0]
     IN  /\ s \notin DOMAIN queue    \* UNIQUE(gateway_id, sequence_id)
         /\ lastSequence' = s
         /\ queue' = [t \in DOMAIN queue \cup {s} |-> IF t = s THEN row ELSE queue[t]]
         /\ acquired' = acquired \cup
              {[seq |-> s, priority |-> row.priority, eventTimestamp |-> row.eventTimestamp]}
  /\ UNCHANGED <<forwarder, network, server, faults, evicted>>

\* dispatchOnce, first half: FetchBatch marks the batch SENDING and commits.
FetchBatch ==
  /\ pc = "idle" /\ Eligible # {}
  /\ queue' = MarkSending(SelectBatch)
  /\ batch' = {EntryOf(s) : s \in SelectBatch}
  /\ pc' = "sending"
  /\ UNCHANGED <<lastSequence, batchID, network, server, faults, history>>

\* dispatchOnce with nothing eligible: wait for the next tick.
PollEmpty ==
  /\ pc = "idle" /\ Eligible = {}
  /\ UNCHANGED vars

\* Send: a fresh batch id, registered as pending, and the publish.
Publish ==
  /\ pc = "sending"
  /\ pc' = "waiting"
  /\ batchID' = batchID + 1
  /\ wire' = wire \cup {[id |-> batchID + 1, entries |-> batch]}
  /\ UNCHANGED <<gatewayDB, batch, acks, server, faults, history>>

\* Send returns an error although the batch may yet arrive: not connected,
\* the PUBACK or the ack came too late.
SendFails ==
  /\ pc \in {"sending", "waiting"} /\ Fault("send")
  /\ pc' = "failed"
  /\ UNCHANGED <<gatewayDB, batch, batchID, network, server, history>>

\* AckTimeout with nothing left that could produce the ack.
AckTimeout ==
  /\ pc = "waiting" /\ batchID \notin acks
  /\ \A m \in wire \cup handler : m.id # batchID
  /\ pc' = "failed"
  /\ UNCHANGED <<gatewayDB, batch, batchID, network, server, faults, history>>

\* Mutant: an ack ends Send whatever batch it answers.
HandleAnyAck(id) ==
  /\ id \in acks
  /\ acks' = acks \ {id}
  /\ pc' = IF pc = "waiting" THEN "acked" ELSE pc
  /\ UNCHANGED <<gatewayDB, batch, batchID, wire, server, faults, history>>

\* handleAck: the ack of the pending batch ends Send; any other is dropped.
HandleAck(id) ==
  /\ id \in acks
  /\ acks' = acks \ {id}
  /\ pc' = IF pc = "waiting" /\ id = batchID THEN "acked" ELSE pc
  /\ UNCHANGED <<gatewayDB, batch, batchID, wire, server, faults, history>>

\* dispatchOnce after a successful Send; an error of MarkSent is only logged.
FinishSent ==
  /\ pc = "acked"
  /\ pc' = "idle" /\ batch' = {}
  /\ \/ queue' = MarkSent(Seqs(batch)) /\ UNCHANGED faults
     \/ Fault("db") /\ UNCHANGED queue
  /\ UNCHANGED <<lastSequence, batchID, network, server, history>>

\* dispatchOnce after a failed Send; an error of MarkFailed is only logged.
FinishFailed ==
  /\ pc = "failed"
  /\ pc' = "idle" /\ batch' = {}
  /\ \/ queue' = MarkFailed(Seqs(batch)) /\ UNCHANGED faults
     \/ Fault("db") /\ UNCHANGED queue
  /\ UNCHANGED <<lastSequence, batchID, network, server, history>>

\* RunRetentionSweeper -> DeleteSentOlderThan.
SweepRetention ==
  /\ Up /\ Expired # {}
  /\ queue' = Delete(Expired)
  /\ UNCHANGED <<lastSequence, forwarder, network, server, faults, history>>

\* RunStoragePressureSweeper at FULL -> EvictOldestNonCritical, whatever the
\* status of the rows.
EvictOldestNonCritical(S) ==
  /\ Up /\ DiskFull /\ S # {}
  /\ queue' = Delete(S)
  /\ evicted' = evicted \cup S
  /\ UNCHANGED <<lastSequence, forwarder, network, server, faults, acquired>>

-----------------------------------------------------------------------------
(* The broker, the internal server and time.                               *)

\* handleMessage is entered; paho keeps the consumer's messages in order, so
\* one call at a time.  QoS 1 may deliver the message again later.
DeliverData(m) ==
  /\ m \in wire /\ handler = {}
  /\ handler' = {[id |-> m.id, entries |-> m.entries, todo |-> m.entries]}
  /\ \/ wire' = wire \ {m} /\ UNCHANGED faults
     \/ Fault("dup") /\ UNCHANGED wire
  /\ UNCHANGED <<gatewayDB, forwarder, acks, readings, history>>

\* A published batch, or an ack, never arrives.
LoseData(m) ==
  /\ m \in wire /\ Fault("lose")
  /\ wire' = wire \ {m}
  /\ UNCHANGED <<gatewayDB, forwarder, acks, server, history>>

LoseAck(id) ==
  /\ id \in acks /\ Fault("lose")
  /\ acks' = acks \ {id}
  /\ UNCHANGED <<gatewayDB, forwarder, wire, server, history>>

\* INSERT ... ON CONFLICT (gateway_id, sequence_id) DO NOTHING
Upsert(e) == IF e.seq \in Seqs(readings) THEN readings ELSE readings \cup {e}

\* One iteration of ingest's loop: each entry is a statement of its own.
IngestEntry(h) ==
  /\ h \in handler
  /\ \E e \in h.todo :
       /\ \A f \in h.todo \ {e} : DispatchBefore(e, f)
       /\ readings' = Upsert(e)
       /\ handler' = {[h EXCEPT !.todo = h.todo \ {e}]}
  /\ UNCHANGED <<gatewayDB, forwarder, network, faults, history>>

\* A statement fails (or the server dies): the rest is dropped, no ack.
IngestError(h) ==
  /\ h \in handler /\ Fault("ingest")
  /\ handler' = {}
  /\ UNCHANGED <<gatewayDB, forwarder, network, readings, history>>

\* Every entry is in: publish the ack.
SendAck(h) ==
  /\ h \in handler /\ h.todo = {}
  /\ handler' = {}
  /\ acks' = acks \cup {h.id}
  /\ UNCHANGED <<gatewayDB, forwarder, wire, readings, faults, history>>

\* One unit of time; ages saturate where Expired stops telling them apart.
Tick ==
  /\ queue' = [s \in DOMAIN queue |->
       [queue[s] EXCEPT
         !.wait = IF @ > 0 THEN @ - 1 ELSE 0,
         !.age  = IF queue[s].status = "SENT" /\ @ <= Retention THEN @ + 1 ELSE @]]
  /\ UNCHANGED <<lastSequence, forwarder, network, server, faults, history>>

-----------------------------------------------------------------------------
Next ==
  \/ Start \/ Recover \/ Crash
  \/ \E r \in Inputs : Insert(r)
  \/ FetchBatch \/ PollEmpty \/ Publish
  \/ SendFails \/ AckTimeout \/ FinishSent \/ FinishFailed
  \/ \E id \in acks : HandleAck(id) \/ LoseAck(id)
  \/ SweepRetention
  \/ \E S \in EvictionChoices : EvictOldestNonCritical(S)
  \/ \E m \in wire : DeliverData(m) \/ LoseData(m)
  \/ \E h \in handler : IngestEntry(h) \/ IngestError(h) \/ SendAck(h)
  \/ Tick

Spec == Init /\ [][Next]_vars

\* The loops of the code keep running: systemd restarts the process, the
\* forwarder's ticker fires, the broker and the server make progress, Send
\* times out.  Nothing is assumed of faults, pollers or sweepers.
Fairness ==
  /\ WF_vars(Start) /\ WF_vars(Recover) /\ WF_vars(FetchBatch) /\ WF_vars(Publish)
  /\ WF_vars(AckTimeout) /\ WF_vars(FinishSent) /\ WF_vars(FinishFailed)
  /\ WF_vars(\E id \in acks : HandleAck(id))
  /\ WF_vars(\E m \in wire : DeliverData(m))
  /\ WF_vars(\E h \in handler : IngestEntry(h) \/ SendAck(h))
  /\ WF_vars(Tick)

FairSpec == Spec /\ Fairness

-----------------------------------------------------------------------------
(* What the pipeline promises.                                             *)

\* The entry of row s is in the server's table.
Stored(s) == EntryOf(s) \in readings

\* A row is SENT only when the server has stored exactly that reading: acks
\* that are late, duplicated or answer an earlier batch never mark a row
\* (MQTTAdapter.Send, handleMessage, MarkSent; design rule 7).
SentIsStored == \A s \in DOMAIN queue : queue[s].status = "SENT" => Stored(s)

\* Rule 6/7: one key never stands for two readings, neither across restarts
\* of the gateway nor in the server's table, and the server invents nothing.
KeyIdentifiesReading ==
  /\ \A a, b \in acquired : a.seq = b.seq => a = b
  /\ readings \subseteq acquired

\* A committed reading is still queued, at the server, or was given up by the
\* storage-full policy, which spares CRITICAL: lost acks, failed sends, partial
\* ingests, crashes and the retention sweep lose nothing.
NothingLost ==
  \A a \in acquired : \/ a.seq \in DOMAIN queue
                      \/ a \in readings
                      \/ a.seq \in evicted /\ a.priority # "CRITICAL"

\* While the forwarder runs, a SENDING row belongs to the batch in its hands:
\* otherwise nothing but a restart would ever send it again.
NoOrphanSending ==
  pc \notin {"down", "starting"} =>
    \A s \in DOMAIN queue : queue[s].status = "SENDING" => s \in Seqs(batch)

\* The order is broken only by backoff: what a newer reading of its priority
\* overtook is a reading whose send failed (without DB errors and eviction).
OvertakenOnlyByBackoff ==
  \A a \in readings, b \in acquired :
    a.priority = b.priority /\ b.seq < a.seq /\ b \notin readings =>
      b.seq \in DOMAIN queue /\ queue[b.seq].retryCount > 0

\* Every queued reading is eventually at the server or given up (Scenario B:
\* the backlog drains once the server is back).
BacklogDrains ==
  \A s \in 1..MaxSeq :
    s \in DOMAIN queue ~> s \in Seqs(readings) \/ s \in evicted

-----------------------------------------------------------------------------
EntryFrom(s, r) == [seq |-> s, priority |-> PriorityOrDefault(r.priority),
                    eventTimestamp |-> r.eventTimestamp]

Delivery == INSTANCE ReadingDelivery
  WITH Entry <- {EntryFrom(s, r) : s \in 1..MaxSeq, r \in Inputs},
       accepted <- acquired, held <- {EntryOf(s) : s \in DOMAIN queue},
       delivered <- readings

\* The whole pipeline implements the delivery contract: accepted under a key
\* of its own, stored at most once, and kept until stored or given up.
ImplementsDelivery == Delivery!Spec
=============================================================================

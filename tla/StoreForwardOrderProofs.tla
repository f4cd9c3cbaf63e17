----------------------- MODULE StoreForwardOrderProofs -----------------------
(***************************************************************************)
(* Proofs about StoreForward where no database error is only logged and no *)
(* row is evicted: whose hands a SENDING row is in, and in which order     *)
(* readings reach the server.                                              *)
(***************************************************************************)
EXTENDS StoreForwardProofs, FiniteSetTheorems

\* The rows of the batch in the forwarder's hands are those that are SENDING.
HandsInv ==
  /\ NoOrphanSending
  /\ pc \in {"down", "starting", "idle"} => batch = {}
  /\ pc \in {"sending", "waiting", "acked", "failed"} =>
       \A e \in batch : e.seq \in DOMAIN queue /\ queue[e.seq].status = "SENDING"

\* Only a row whose send has failed waits; nothing is evicted.
WaitInv ==
  /\ \A s \in DOMAIN queue : queue[s].wait > 0 => queue[s].retryCount > 0
  /\ evicted = {}

\* A set of entries passes over no older reading of the same priority that is
\* not stored, but for one whose send has failed: acq, rd and q stand for
\* acquired, readings and queue.
InOrder(E, acq, rd, q) ==
  \A a \in E, b \in acq :
    a.priority = b.priority /\ b.seq < a.seq /\ b \notin rd =>
      b \in E \/ (b.seq \in DOMAIN q /\ q[b.seq].retryCount > 0)

\* Every batch under way, and the server's table, are in order.
OrderInv ==
  /\ InOrder(batch, acquired, readings, queue)
  /\ \A m \in wire : InOrder(m.entries, acquired, readings, queue)
  /\ \A h \in handler : InOrder(h.entries, acquired, readings, queue)
  /\ InOrder(readings, acquired, readings, queue)

\* What the properties below are about: every statement of the forwarder
\* succeeds, and the disk does not fill up.
Undisturbed == "db" \notin Hazards /\ DiskFull = FALSE

-----------------------------------------------------------------------------
(* The rows of the batch.                                                  *)

\* Steps that leave rows, batch and eviction alone, and the forwarder with or
\* without a batch as it was.
LEMMA HandsKept ==
  ASSUME HandsInv, WaitInv, UNCHANGED <<queue, batch, evicted>>,
         \/ pc' = pc
         \/ /\ pc \in {"sending", "waiting", "acked", "failed"}
            /\ pc' \in {"sending", "waiting", "acked", "failed"}
  PROVE  HandsInv' /\ WaitInv'
BY DEF HandsInv, WaitInv, NoOrphanSending

\* Steps of the queue that keep the status of every row
LEMMA StatusKept ==
  ASSUME HandsInv, UNCHANGED <<pc, batch>>, DOMAIN queue \subseteq DOMAIN queue',
         \A s \in DOMAIN queue : queue'[s].status = queue[s].status,
         \A s \in DOMAIN queue' \ DOMAIN queue : queue'[s].status = "PENDING"
  PROVE  HandsInv'
<1>1. NoOrphanSending'
  <2> SUFFICES ASSUME pc' \notin {"down", "starting"}, NEW s \in DOMAIN queue',
                      queue'[s].status = "SENDING"
               PROVE  s \in Seqs(batch)'
    BY DEF NoOrphanSending
  <2>1. s \in DOMAIN queue /\ queue[s].status = "SENDING"
    OBVIOUS
  <2> QED BY <2>1 DEF HandsInv, NoOrphanSending, Seqs
<1>2. pc \in {"sending", "waiting", "acked", "failed"} =>
        \A e \in batch : e.seq \in DOMAIN queue' /\ queue'[e.seq].status = "SENDING"
  BY DEF HandsInv
<1> QED BY <1>1, <1>2 DEF HandsInv

\* Each action keeps SENDING rows and the batch together.
LEMMA HandsInductive ==
  ASSUME Undisturbed, TypeOK, HandsInv, WaitInv, [Next]_vars
  PROVE  HandsInv' /\ WaitInv'
<1> USE DEF vars, gatewayDB, forwarder, network, server, history
<1>r. \A s \in DOMAIN queue : queue[s] \in Row
  BY DEF TypeOK
<1>0. CASE \/ UNCHANGED vars \/ PollEmpty \/ Publish \/ SendFails \/ AckTimeout
           \/ \E id \in acks : HandleAck(id) \/ LoseAck(id)
           \/ \E m \in wire : DeliverData(m) \/ LoseData(m)
           \/ \E h \in handler : IngestEntry(h) \/ IngestError(h) \/ SendAck(h)
  <2>1. UNCHANGED <<queue, batch, evicted>>
    BY <1>0 DEF PollEmpty, Publish, SendFails, AckTimeout, HandleAck, LoseAck, DeliverData,
                LoseData, IngestEntry, IngestError, SendAck
  <2>2. \/ pc' = pc
        \/ /\ pc \in {"sending", "waiting", "acked", "failed"}
           /\ pc' \in {"sending", "waiting", "acked", "failed"}
    BY <1>0 DEF PollEmpty, Publish, SendFails, AckTimeout, HandleAck, LoseAck, DeliverData,
                LoseData, IngestEntry, IngestError, SendAck
  <2> QED BY <2>1, <2>2, HandsKept
<1>1. CASE Start \/ Crash
  <2>1. UNCHANGED <<queue, evicted>> /\ pc' \in {"down", "starting"} /\ batch' = {}
    BY <1>1 DEF Start, Crash, HandsInv
  <2> QED BY <2>1 DEF HandsInv, WaitInv, NoOrphanSending
<1>2. CASE Recover
  <2>1. /\ queue' = RecoverSendingToPending /\ pc = "starting" /\ pc' = "idle"
        /\ UNCHANGED <<batch, evicted>>
    BY <1>2 DEF Recover, Fault, Undisturbed
  <2>2. ASSUME NEW s \in DOMAIN queue
        PROVE  /\ queue'[s].status # "SENDING"
               /\ queue'[s].wait = queue[s].wait /\ queue'[s].retryCount = queue[s].retryCount
    BY <1>r, <2>1 DEF RecoverSendingToPending, Row
  <2>3. DOMAIN queue' = DOMAIN queue
    BY <2>1 DEF RecoverSendingToPending
  <2>4. batch' = {}
    BY <2>1 DEF HandsInv
  <2> QED BY <2>1, <2>2, <2>3, <2>4 DEF HandsInv, WaitInv, NoOrphanSending
<1>3. ASSUME NEW r \in Inputs, Insert(r) PROVE HandsInv' /\ WaitInv'
  <2> DEFINE s == lastSequence + 1
  <2>1. /\ DOMAIN queue' = DOMAIN queue \cup {s} /\ s \notin DOMAIN queue
        /\ \A x \in DOMAIN queue : queue'[x] = queue[x]
        /\ queue'[s].status = "PENDING" /\ queue'[s].wait = 0
        /\ UNCHANGED <<pc, batch, evicted>>
    BY <1>3 DEF Insert
  <2> HIDE DEF s
  <2>2. HandsInv'
    BY <2>1, StatusKept
  <2>3. \A x \in DOMAIN queue' : queue'[x].wait > 0 => queue'[x].retryCount > 0
    BY <2>1 DEF WaitInv
  <2> QED BY <2>1, <2>2, <2>3 DEF WaitInv
<1>4. CASE FetchBatch
  <2>1. /\ queue' = MarkSending(SelectBatch) /\ batch' = {EntryOf(s) : s \in SelectBatch}
        /\ pc = "idle" /\ pc' = "sending" /\ evicted' = evicted
    BY <1>4 DEF FetchBatch
  <2>2. batch = {} /\ \A s \in DOMAIN queue : queue[s].status # "SENDING"
    BY <2>1 DEF HandsInv, NoOrphanSending, Seqs
  <2>3. SelectBatch \subseteq DOMAIN queue
    BY DEF SelectBatch, Eligible
  <2>4. DOMAIN queue' = DOMAIN queue
    BY <2>1 DEF MarkSending
  <2>5. ASSUME NEW s \in DOMAIN queue
        PROVE  /\ s \in SelectBatch => queue'[s].status = "SENDING"
               /\ s \notin SelectBatch => queue'[s].status # "SENDING"
               /\ queue'[s].wait = queue[s].wait /\ queue'[s].retryCount = queue[s].retryCount
    BY <1>r, <2>1, <2>2 DEF MarkSending, Row
  <2>6. \A s \in SelectBatch : s \in Seqs(batch')
    <3>1. \A s \in SelectBatch : EntryOf(s) \in batch' /\ EntryOf(s).seq = s
      BY <2>1 DEF EntryOf
    <3> QED BY <3>1 DEF Seqs
  <2>7. NoOrphanSending'
    BY <2>4, <2>5, <2>6 DEF NoOrphanSending, Seqs
  <2>8. \A e \in batch' : e.seq \in DOMAIN queue' /\ queue'[e.seq].status = "SENDING"
    BY <2>1, <2>3, <2>4, <2>5 DEF EntryOf
  <2> QED BY <2>1, <2>4, <2>5, <2>7, <2>8 DEF HandsInv, WaitInv
<1>5. CASE FinishSent
  <2>1. /\ queue' = MarkSent(Seqs(batch)) /\ batch' = {} /\ pc = "acked" /\ pc' = "idle"
        /\ evicted' = evicted
    BY <1>5 DEF FinishSent, Fault, Undisturbed
  <2>2. DOMAIN queue' = DOMAIN queue
    BY <2>1 DEF MarkSent
  <2>3. ASSUME NEW s \in DOMAIN queue
        PROVE  /\ queue'[s].status # "SENDING"
               /\ queue'[s].wait = queue[s].wait /\ queue'[s].retryCount = queue[s].retryCount
    <3>1. queue[s].status = "SENDING" => s \in Seqs(batch)
      BY <2>1 DEF HandsInv, NoOrphanSending
    <3> QED BY <1>r, <2>1, <3>1 DEF MarkSent, Row
  <2> QED BY <2>1, <2>2, <2>3 DEF HandsInv, WaitInv, NoOrphanSending
<1>6. CASE FinishFailed
  <2>1. /\ queue' = MarkFailed(Seqs(batch)) /\ batch' = {} /\ pc = "failed" /\ pc' = "idle"
        /\ evicted' = evicted
    BY <1>6 DEF FinishFailed, Fault, Undisturbed
  <2>2. Seqs(batch) \subseteq DOMAIN queue
    BY <2>1 DEF HandsInv, Seqs
  <2>3. queue' = [s \in DOMAIN queue |->
                    IF s \in Seqs(batch)
                    THEN [queue[s] EXCEPT !.status = "PENDING", !.retryCount = queue[s].retryCount + 1,
                                          !.wait = BackoffDuration(queue[s].retryCount + 1)]
                    ELSE queue[s]]
    BY <2>1, <2>2 DEF MarkFailed
  <2>4. ASSUME NEW s \in DOMAIN queue
        PROVE  /\ queue'[s].status # "SENDING"
               /\ queue'[s].wait > 0 => queue'[s].retryCount > 0
    <3>1. CASE s \in Seqs(batch)
      <4>1. queue'[s].status = "PENDING" /\ queue'[s].retryCount = queue[s].retryCount + 1
        BY <1>r, <2>3, <3>1 DEF Row
      <4>2. queue[s].retryCount \in Nat
        BY <1>r DEF Row
      <4> QED BY <4>1, <4>2
    <3>2. CASE s \notin Seqs(batch)
      <4>1. queue[s].status # "SENDING" /\ queue'[s] = queue[s]
        BY <2>1, <2>3, <3>2 DEF HandsInv, NoOrphanSending
      <4> QED BY <4>1 DEF WaitInv
    <3> QED BY <3>1, <3>2
  <2>5. DOMAIN queue' = DOMAIN queue
    BY <2>3
  <2> QED BY <2>1, <2>4, <2>5 DEF HandsInv, WaitInv, NoOrphanSending
<1>7. CASE SweepRetention
  <2>1. queue' = Delete(Expired) /\ UNCHANGED <<pc, batch, evicted>>
    BY <1>7 DEF SweepRetention
  <2>2. /\ DOMAIN queue' = DOMAIN queue \ Expired
        /\ \A s \in DOMAIN queue' : queue'[s] = queue[s]
    BY <2>1 DEF Delete
  <2>3. \A s \in DOMAIN queue : queue[s].status = "SENDING" => s \notin Expired
    BY DEF Expired
  <2> QED BY <2>1, <2>2, <2>3 DEF HandsInv, WaitInv, NoOrphanSending, Seqs
<1>8. CASE Tick
  <2>1. UNCHANGED <<pc, batch, evicted>> /\ DOMAIN queue' = DOMAIN queue
    BY <1>8 DEF Tick
  <2>2. ASSUME NEW s \in DOMAIN queue
        PROVE  /\ queue'[s].status = queue[s].status /\ queue'[s].retryCount = queue[s].retryCount
               /\ queue'[s].wait = IF queue[s].wait > 0 THEN queue[s].wait - 1 ELSE 0
    BY <1>r, <1>8 DEF Tick, Row
  <2>3. HandsInv'
    BY <2>1, <2>2, StatusKept
  <2>4. \A s \in DOMAIN queue' : queue'[s].wait > 0 => queue'[s].retryCount > 0
    BY <1>r, <2>1, <2>2 DEF WaitInv, Row
  <2> QED BY <2>1, <2>3, <2>4 DEF WaitInv
<1>9. ASSUME NEW S \in EvictionChoices, EvictOldestNonCritical(S) PROVE FALSE
  BY <1>9 DEF EvictOldestNonCritical, Undisturbed
<1> QED BY <1>0, <1>1, <1>2, <1>3, <1>4, <1>5, <1>6, <1>7, <1>8, <1>9 DEF Next

-----------------------------------------------------------------------------
(* The order.                                                              *)

\* Once a reading's send has failed its row says so, until the reading is
\* stored; and what is accepted is newer than everything before.
RetryRemembered ==
  /\ readings \subseteq readings'
  /\ \A b \in acquired \ readings' :
       b.seq \in DOMAIN queue /\ queue[b.seq].retryCount > 0 =>
         b.seq \in DOMAIN queue' /\ queue'[b.seq].retryCount > 0
  /\ \A b \in acquired' \ acquired : \A a \in acquired : ~ (b.seq < a.seq)

\* A set that is in order stays in order.
LEMMA OrderKept ==
  ASSUME RetryRemembered, NEW E, E \subseteq acquired, InOrder(E, acquired, readings, queue)
  PROVE  InOrder(E, acquired', readings', queue')
BY DEF RetryRemembered, InOrder

\* Every step remembers failed sends.
LEMMA Remembers ==
  ASSUME Undisturbed, IndInv, [Next]_vars
  PROVE  RetryRemembered
<1> USE DEF vars, gatewayDB, forwarder, network, server, history
<1>t. TypeOK /\ KeysInv /\ CopiesInv /\ SentIsStored
  BY DEF IndInv
<1>r. \A s \in DOMAIN queue : queue[s] \in Row /\ queue[s].retryCount \in Nat
  BY <1>t DEF TypeOK, Row
<1>q. ASSUME acquired' = acquired, readings \subseteq readings', DOMAIN queue' = DOMAIN queue,
             \A s \in DOMAIN queue : queue[s].retryCount > 0 => queue'[s].retryCount > 0
      PROVE  RetryRemembered
  BY <1>q DEF RetryRemembered
<1>0. CASE \/ UNCHANGED vars \/ PollEmpty \/ Publish \/ SendFails \/ AckTimeout \/ Start \/ Crash
           \/ \E id \in acks : HandleAck(id) \/ LoseAck(id)
           \/ \E m \in wire : DeliverData(m) \/ LoseData(m)
           \/ \E h \in handler : IngestEntry(h) \/ IngestError(h) \/ SendAck(h)
  <2>1. UNCHANGED <<queue, acquired>>
    BY <1>0 DEF PollEmpty, Publish, SendFails, AckTimeout, Start, Crash, HandleAck, LoseAck,
                DeliverData, LoseData, IngestEntry, IngestError, SendAck
  <2>2. readings \subseteq readings'
    BY <1>0 DEF PollEmpty, Publish, SendFails, AckTimeout, Start, Crash, HandleAck, LoseAck,
                DeliverData, LoseData, IngestEntry, IngestError, SendAck, Upsert
  <2> QED BY <1>q, <2>1, <2>2
<1>1. CASE Recover \/ FetchBatch \/ FinishSent \/ FinishFailed \/ Tick
  <2>1. UNCHANGED <<acquired, readings>>
    BY <1>1 DEF Recover, FetchBatch, FinishSent, FinishFailed, Tick
  <2>2. CASE queue' = queue
    BY <1>q, <2>1, <2>2
  <2>3. CASE queue' = RecoverSendingToPending
    <3>1. DOMAIN queue' = DOMAIN queue
      BY <2>3 DEF RecoverSendingToPending
    <3>2. \A s \in DOMAIN queue : queue'[s].retryCount = queue[s].retryCount
      BY <1>r, <2>3 DEF RecoverSendingToPending, Row
    <3> QED BY <1>q, <2>1, <3>1, <3>2
  <2>4. CASE queue' = MarkSending(SelectBatch)
    <3>1. DOMAIN queue' = DOMAIN queue
      BY <2>4 DEF MarkSending
    <3>2. \A s \in DOMAIN queue : queue'[s].retryCount = queue[s].retryCount
      BY <1>r, <2>4 DEF MarkSending, Row
    <3> QED BY <1>q, <2>1, <3>1, <3>2
  <2>5. CASE queue' = MarkSent(Seqs(batch))
    <3>1. DOMAIN queue' = DOMAIN queue
      BY <2>5 DEF MarkSent
    <3>2. \A s \in DOMAIN queue : queue'[s].retryCount = queue[s].retryCount
      BY <1>r, <2>5 DEF MarkSent, Row
    <3> QED BY <1>q, <2>1, <3>1, <3>2
  <2>6. CASE queue' = MarkFailed(Seqs(batch)) /\ Seqs(batch) \subseteq DOMAIN queue
    <3>0. queue' = [s \in DOMAIN queue |->
                    IF s \in Seqs(batch)
                    THEN [queue[s] EXCEPT !.status = "PENDING", !.retryCount = queue[s].retryCount + 1,
                                          !.wait = BackoffDuration(queue[s].retryCount + 1)]
                    ELSE queue[s]]
      BY <2>6 DEF MarkFailed
    <3>1. DOMAIN queue' = DOMAIN queue
      BY <3>0
    <3>2. ASSUME NEW s \in DOMAIN queue, queue[s].retryCount > 0 PROVE queue'[s].retryCount > 0
      <4>1. queue'[s].retryCount = queue[s].retryCount + 1 \/ queue'[s] = queue[s]
        BY <1>r, <3>0 DEF Row
      <4> QED BY <1>r, <3>2, <4>1
    <3> QED BY <1>q, <2>1, <3>1, <3>2
  <2>7. CASE Tick
    <3>1. DOMAIN queue' = DOMAIN queue
      BY <2>7 DEF Tick
    <3>2. \A s \in DOMAIN queue : queue'[s].retryCount = queue[s].retryCount
      BY <1>r, <2>7 DEF Tick, Row
    <3> QED BY <1>q, <2>1, <3>1, <3>2
  <2>8. MarkFailed(Seqs(batch)) = queue \/ Seqs(batch) \subseteq DOMAIN queue
    BY DEF MarkFailed
  <2>9. \/ queue' = queue \/ queue' = RecoverSendingToPending \/ queue' = MarkSending(SelectBatch)
        \/ queue' = MarkSent(Seqs(batch)) \/ queue' = MarkFailed(Seqs(batch)) \/ Tick
    BY <1>1 DEF Recover, FetchBatch, FinishSent, FinishFailed
  <2> QED BY <2>2, <2>3, <2>4, <2>5, <2>6, <2>7, <2>8, <2>9
<1>2. ASSUME NEW r \in Inputs, Insert(r) PROVE RetryRemembered
  <2> DEFINE s == lastSequence + 1
  <2>1. /\ DOMAIN queue \subseteq DOMAIN queue' /\ \A x \in DOMAIN queue : x # s => queue'[x] = queue[x]
        /\ s \notin DOMAIN queue /\ readings' = readings
        /\ \A b \in acquired' \ acquired : b.seq = s
    BY <1>2 DEF Insert
  <2>2. \A a \in acquired : a.seq \in Nat /\ a.seq <= lastSequence
    BY <1>t DEF KeysInv, TypeOK
  <2>3. \A a \in acquired : ~ (s < a.seq)
    BY <1>t, <2>2 DEF TypeOK
  <2> HIDE DEF s
  <2> QED BY <2>1, <2>3 DEF RetryRemembered
<1>3. CASE SweepRetention
  <2>1. queue' = Delete(Expired) /\ UNCHANGED <<acquired, readings>>
    BY <1>3 DEF SweepRetention
  <2>2. /\ DOMAIN queue' = DOMAIN queue \ Expired
        /\ \A s \in DOMAIN queue' : queue'[s] = queue[s]
    BY <2>1 DEF Delete
  <2>3. ASSUME NEW b \in acquired, b.seq \in Expired PROVE b \in readings
    <3>1. b.seq \in DOMAIN queue /\ EntryOf(b.seq) \in readings /\ EntryOf(b.seq) \in acquired
      BY <1>t, <2>3 DEF Expired, SentIsStored, Stored, CopiesInv
    <3>2. EntryOf(b.seq).seq = b.seq
      BY DEF EntryOf
    <3>3. EntryOf(b.seq) = b
      BY <1>t, <3>1, <3>2 DEF KeysInv
    <3> QED BY <3>1, <3>3
  <2> QED BY <2>1, <2>2, <2>3 DEF RetryRemembered
<1>4. ASSUME NEW S \in EvictionChoices, EvictOldestNonCritical(S) PROVE FALSE
  BY <1>4 DEF EvictOldestNonCritical, Undisturbed
<1> QED BY <1>0, <1>1, <1>2, <1>3, <1>4 DEF Next

\* Of two eligible rows of one priority, the older is selected if the newer is.
LEMMA OlderSelected ==
  ASSUME TypeOK, NEW s \in SelectBatch, NEW u \in Eligible,
         queue[u].priority = queue[s].priority, u < s
  PROVE  u \in SelectBatch
<1> DEFINE Ahead(x) == {t \in Eligible : DispatchBefore(EntryOf(t), EntryOf(x))}
<1>1. lastSequence \in Nat /\ Eligible \subseteq 1..lastSequence
  BY DEF TypeOK, Eligible
<1>2. IsFiniteSet(Eligible)
  <2>1. 1 \in Int /\ lastSequence \in Int
    BY <1>1
  <2>2. IsFiniteSet(1..lastSequence)
    BY <2>1, FS_Interval
  <2> QED BY <1>1, <2>2, FS_Subset
<1>3. s \in Eligible /\ s \in Nat /\ u \in Nat /\ s \in DOMAIN queue
  BY <1>1 DEF SelectBatch, Eligible
<1>4. ASSUME NEW t \in Ahead(u) PROVE t \in Ahead(s)
  <2>1. t \in Eligible /\ t \in Nat /\ DispatchBefore(EntryOf(t), EntryOf(u))
    BY <1>1
  <2>2. /\ EntryOf(u).priority = EntryOf(s).priority
        /\ EntryOf(t).seq = t /\ EntryOf(u).seq = u /\ EntryOf(s).seq = s
    BY DEF EntryOf
  <2>3. DispatchRank(EntryOf(u).priority) = DispatchRank(EntryOf(s).priority)
    BY <2>2
  <2>4. DispatchBefore(EntryOf(t), EntryOf(s))
    BY <1>3, <2>1, <2>2, <2>3 DEF DispatchBefore
  <2> QED BY <2>1, <2>4
<1>5. Ahead(u) \subseteq Ahead(s)
  BY <1>4
<1>6. Ahead(s) \subseteq Eligible
  OBVIOUS
<1>7. Cardinality(Ahead(s)) < BatchSize
  BY DEF SelectBatch
<1> HIDE DEF Ahead
<1>8. IsFiniteSet(Ahead(s))
  BY <1>2, <1>6, FS_Subset
<1>9. Cardinality(Ahead(u)) <= Cardinality(Ahead(s)) /\ IsFiniteSet(Ahead(u))
  BY <1>5, <1>8, FS_Subset
<1>10. Cardinality(Ahead(u)) \in Nat /\ Cardinality(Ahead(s)) \in Nat
  BY <1>8, <1>9, FS_CardinalityType
<1>11. Cardinality(Ahead(u)) < BatchSize
  BY <1>7, <1>9, <1>10, ConstantsAssumption
<1> QED BY <1>11 DEF SelectBatch, Ahead

\* FetchBatch passes over nothing but rows in backoff.
LEMMA FetchInOrder ==
  ASSUME IndInv, HandsInv, WaitInv, FetchBatch
  PROVE  InOrder(batch', acquired', readings', queue')
<1> USE DEF vars, gatewayDB, forwarder, network, server, history
<1>t. TypeOK /\ KeysInv /\ CopiesInv /\ SentIsStored /\ NothingLost
  BY DEF IndInv
<1>r. \A s \in DOMAIN queue : queue[s] \in Row
  BY <1>t DEF TypeOK
<1>1. /\ queue' = MarkSending(SelectBatch) /\ batch' = {EntryOf(s) : s \in SelectBatch}
      /\ pc = "idle" /\ acquired' = acquired /\ readings' = readings
  BY DEF FetchBatch
<1>2. DOMAIN queue' = DOMAIN queue
  BY <1>1 DEF MarkSending
<1>3. \A s \in DOMAIN queue : queue'[s].retryCount = queue[s].retryCount
  BY <1>r, <1>1 DEF MarkSending, Row
<1> SUFFICES ASSUME NEW a \in batch', NEW b \in acquired,
                    a.priority = b.priority, b.seq < a.seq, b \notin readings
             PROVE  b \in batch' \/ (b.seq \in DOMAIN queue /\ queue[b.seq].retryCount > 0)
  BY <1>1, <1>2, <1>3 DEF InOrder
<1>4. PICK s \in SelectBatch : a = EntryOf(s)
  BY <1>1
<1>5. b.seq \in DOMAIN queue
  BY <1>t DEF NothingLost, WaitInv
<1>6. EntryOf(b.seq) = b
  <2>1. EntryOf(b.seq) \in acquired /\ EntryOf(b.seq).seq = b.seq
    BY <1>t, <1>5 DEF CopiesInv, EntryOf
  <2> QED BY <1>t, <2>1 DEF KeysInv
<1>7. queue[b.seq].status # "SENT"
  BY <1>t, <1>5, <1>6 DEF SentIsStored, Stored
<1>8. queue[b.seq].status # "SENDING"
  BY <1>1, <1>5 DEF HandsInv, NoOrphanSending, Seqs
<1>9. queue[b.seq].status = "PENDING" /\ queue[b.seq].wait \in Nat
  BY <1>r, <1>5, <1>7, <1>8 DEF Row
<1>10. CASE queue[b.seq].wait > 0
  BY <1>5, <1>10 DEF WaitInv
<1>11. CASE ~ (queue[b.seq].wait > 0)
  <2>1. b.seq \in Eligible
    BY <1>5, <1>9, <1>11 DEF Eligible
  <2>2. queue[b.seq].priority = queue[s].priority /\ b.seq < s
    BY <1>4, <1>6 DEF EntryOf
  <2>3. b.seq \in SelectBatch
    BY <1>t, <2>1, <2>2, OlderSelected
  <2> QED BY <1>1, <1>6, <2>3
<1> QED BY <1>10, <1>11

\* ingest stores an entry only after the older ones of its batch.
LEMMA IngestInOrder ==
  ASSUME IndInv, OrderInv, NEW h \in handler, IngestEntry(h)
  PROVE  InOrder(readings', acquired', readings', queue')
<1> USE DEF vars, gatewayDB, forwarder, network, server, history
<1>t. TypeOK /\ KeysInv /\ CopiesInv /\ AckInv
  BY DEF IndInv
<1>1. PICK e \in h.todo : readings' = Upsert(e) /\ \A f \in h.todo \ {e} : DispatchBefore(e, f)
  BY DEF IngestEntry
<1>2. UNCHANGED <<queue, acquired>>
  BY DEF IngestEntry
<1>3. readings' \subseteq readings \cup {e} /\ readings \subseteq readings'
  BY <1>1 DEF Upsert
<1> SUFFICES ASSUME NEW a \in readings', NEW b \in acquired,
                    a.priority = b.priority, b.seq < a.seq, b \notin readings'
             PROVE  b.seq \in DOMAIN queue /\ queue[b.seq].retryCount > 0
  BY <1>2 DEF InOrder
<1>4. CASE a \in readings
  BY <1>3, <1>4 DEF OrderInv, InOrder
<1>5. CASE a = e
  <2>1. e \in h.entries
    BY <1>t DEF CopiesInv
  <2>2. b \in h.entries \/ (b.seq \in DOMAIN queue /\ queue[b.seq].retryCount > 0)
    BY <1>3, <1>5, <2>1 DEF OrderInv, InOrder
  <2>3. b \notin h.entries
    <3> SUFFICES ASSUME b \in h.entries PROVE FALSE
      OBVIOUS
    <3>1. b \in h.todo
      BY <1>t, <1>3 DEF AckInv
    <3>2. a.seq \in Nat /\ b.seq \in Nat
      BY <1>t, <1>5, <2>1 DEF KeysInv, CopiesInv
    <3>3. b # e
      BY <1>5, <3>2
    <3>4. DispatchBefore(e, b)
      BY <1>1, <3>1, <3>3
    <3>5. DispatchRank(e.priority) = DispatchRank(b.priority)
      BY <1>5
    <3>6. DispatchRank(e.priority) \in Nat
      BY DEF DispatchRank
    <3> QED BY <1>5, <3>2, <3>4, <3>5, <3>6 DEF DispatchBefore
  <2> QED BY <2>2, <2>3
<1> QED BY <1>3, <1>4, <1>5

\* Each action keeps the batches and the table in order.
LEMMA OrderInductive ==
  ASSUME Undisturbed, IndInv, HandsInv, WaitInv, OrderInv, [Next]_vars
  PROVE  OrderInv'
<1> USE DEF vars, gatewayDB, forwarder, network, server, history
<1>t. CopiesInv
  BY DEF IndInv
<1>k. RetryRemembered
  BY Remembers
<1> DEFINE Ok(E) == InOrder(E, acquired', readings', queue')
<1>1. /\ Ok(batch) /\ Ok({})
      /\ \A m \in wire : Ok(m.entries)
      /\ \A h \in handler : Ok(h.entries)
      /\ Ok(readings)
  <2>1. Ok(batch)
    BY <1>k, <1>t, OrderKept DEF OrderInv, CopiesInv
  <2>2. Ok({})
    BY DEF InOrder
  <2>3. \A m \in wire : Ok(m.entries)
    BY <1>k, <1>t, OrderKept DEF OrderInv, CopiesInv
  <2>4. \A h \in handler : Ok(h.entries)
    BY <1>k, <1>t, OrderKept DEF OrderInv, CopiesInv
  <2>5. Ok(readings)
    BY <1>k, <1>t, OrderKept DEF OrderInv, CopiesInv
  <2> QED BY <2>1, <2>2, <2>3, <2>4, <2>5
<1>2. Ok(batch')
  <2>1. CASE FetchBatch
    BY <2>1, FetchInOrder
  <2>2. CASE ~ FetchBatch
    <3>1. batch' = batch \/ batch' = {}
      BY <2>2 DEF Next, PollEmpty, Publish, SendFails, AckTimeout, Start, Crash, Recover, Insert,
           FinishSent, FinishFailed, SweepRetention, EvictOldestNonCritical, Tick, HandleAck,
           LoseAck, DeliverData, LoseData, IngestEntry, IngestError, SendAck
    <3> HIDE DEF Ok
    <3> QED BY <1>1, <3>1
  <2> QED BY <2>1, <2>2
<1>3. \A m \in wire' : Ok(m.entries)
  <2>1. wire' \subseteq wire \cup {[id |-> batchID + 1, entries |-> batch]}
    BY DEF Next, PollEmpty, Publish, SendFails, AckTimeout, Start, Crash, Recover, Insert, FetchBatch,
           FinishSent, FinishFailed, SweepRetention, EvictOldestNonCritical, Tick, HandleAck,
           LoseAck, DeliverData, LoseData, IngestEntry, IngestError, SendAck
  <2> HIDE DEF Ok
  <2> QED BY <1>1, <2>1
<1>4. \A h \in handler' : Ok(h.entries)
  <2>1. ASSUME NEW h \in handler', h \notin handler
        PROVE  (\E m \in wire : h.entries = m.entries) \/ (\E g \in handler : h.entries = g.entries)
    <3>1. CASE \E m \in wire : DeliverData(m)
      BY <2>1, <3>1 DEF DeliverData
    <3>2. CASE \E g \in handler : IngestEntry(g)
      <4>1. PICK g \in handler : IngestEntry(g)
        BY <3>2
      <4>2. g \in [id : Nat, entries : SUBSET Entry, todo : SUBSET Entry]
        BY DEF IndInv, TypeOK
      <4>3. PICK e \in g.todo : handler' = {[g EXCEPT !.todo = g.todo \ {e}]}
        BY <4>1 DEF IngestEntry
      <4>4. h.entries = g.entries
        BY <4>2, <4>3
      <4> QED BY <4>4
    <3>3. CASE ~ (\E m \in wire : DeliverData(m)) /\ ~ (\E g \in handler : IngestEntry(g))
      <4>1. handler' \subseteq handler
        BY <3>3 DEF Next, PollEmpty, Publish, SendFails, AckTimeout, Start, Crash, Recover, Insert,
           FetchBatch, FinishSent, FinishFailed, SweepRetention, EvictOldestNonCritical, Tick,
           HandleAck, LoseAck, LoseData, IngestError, SendAck
      <4> QED BY <2>1, <4>1
    <3> QED BY <3>1, <3>2, <3>3
  <2> HIDE DEF Ok
  <2> QED BY <1>1, <2>1
<1>5. Ok(readings')
  <2>1. CASE \E h \in handler : IngestEntry(h)
    BY <2>1, IngestInOrder
  <2>2. CASE ~ \E h \in handler : IngestEntry(h)
    <3>1. readings' = readings
      BY <2>2 DEF Next, PollEmpty, Publish, SendFails, AckTimeout, Start, Crash, Recover, Insert,
           FetchBatch, FinishSent, FinishFailed, SweepRetention, EvictOldestNonCritical, Tick,
           HandleAck, LoseAck, DeliverData, LoseData, IngestError, SendAck
    <3> HIDE DEF Ok
    <3> QED BY <1>1, <3>1
  <2> QED BY <2>1, <2>2
<1> QED BY <1>2, <1>3, <1>4, <1>5 DEF OrderInv

-----------------------------------------------------------------------------
(* The theorems.                                                           *)

\* Both invariants hold in every reachable state.
LEMMA OrderAlways == ASSUME Undisturbed PROVE Spec => [](IndInv /\ HandsInv /\ WaitInv /\ OrderInv)
<1> DEFINE Inv == IndInv /\ HandsInv /\ WaitInv /\ OrderInv
<1>1. Init => HandsInv /\ WaitInv /\ OrderInv
  BY DEF Init, HandsInv, WaitInv, OrderInv, InOrder, NoOrphanSending
<1>2. IndInv /\ (HandsInv /\ WaitInv /\ OrderInv) /\ [Next]_vars => (HandsInv /\ WaitInv /\ OrderInv)'
  BY HandsInductive, OrderInductive DEF IndInv
<1> QED BY <1>1, <1>2, IndInvAlways, PTL DEF Spec

\* While the forwarder runs, every SENDING row is in the batch it holds: a
\* crash, a failed Send or a late ack leaves none behind.
THEOREM NoOrphans == ASSUME Undisturbed PROVE Spec => []NoOrphanSending
<1>1. HandsInv => NoOrphanSending
  BY DEF HandsInv
<1> QED BY <1>1, OrderAlways, PTL

\* Readings of one priority reach the server in the order of their keys,
\* except that one whose send failed may be overtaken while it backs off: for
\* any batch size, and however batches are lost, repeated or cut short.
THEOREM OnlyBackoffOvertakes == ASSUME Undisturbed PROVE Spec => []OvertakenOnlyByBackoff
<1>1. OrderInv => OvertakenOnlyByBackoff
  BY DEF OrderInv, InOrder, OvertakenOnlyByBackoff
<1> QED BY <1>1, OrderAlways, PTL
=============================================================================

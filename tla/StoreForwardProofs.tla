------------------------- MODULE StoreForwardProofs -------------------------
(***************************************************************************)
(* Proofs about StoreForward, for every value of its constants.  The       *)
(* inductive invariant says who may still produce an ack for the batch the *)
(* forwarder waits on, and that such an ack means the batch is stored.     *)
(***************************************************************************)
EXTENDS StoreForward, TLAPS

\* Everything that travels is a copy of a committed entry.
CopiesInv ==
  /\ \A s \in DOMAIN queue : EntryOf(s) \in acquired
  /\ batch \subseteq acquired
  /\ \A m \in wire : m.entries \subseteq acquired
  /\ \A h \in handler : h.entries \subseteq acquired /\ h.todo \subseteq h.entries
  /\ readings \subseteq acquired

\* The sequence counter has passed every key, and keys are unique.
KeysInv ==
  /\ \A a \in acquired : a.seq \in 1..lastSequence
  /\ \A a, b \in acquired : a.seq = b.seq => a = b

\* Batch ids in the network are not newer than the latest Send's.
IdsInv ==
  /\ \A m \in wire : m.id <= batchID
  /\ \A h \in handler : h.id <= batchID
  /\ \A id \in acks : id <= batchID

\* What the server did of a batch, and what an ack says.
AckInv ==
  /\ \A h \in handler : h.entries \ h.todo \subseteq readings
  /\ pc = "waiting" =>
       /\ \A m \in wire : m.id = batchID => batch \subseteq m.entries
       /\ \A h \in handler : h.id = batchID => batch \subseteq h.entries
       /\ batchID \in acks => batch \subseteq readings
  /\ pc = "acked" => batch \subseteq readings

IndInv == TypeOK /\ KeysInv /\ CopiesInv /\ IdsInv /\ AckInv /\ SentIsStored /\ NothingLost

-----------------------------------------------------------------------------
(* Facts about the state functions of data_queue.                          *)

\* BackoffDuration is a number of seconds for every retry count.
LEMMA BackoffType == ASSUME NEW n \in Nat PROVE BackoffDuration(n) \in Nat
<1> DEFINE shift == IF n < 1 THEN 0 ELSE n - 1
           pow == <<1, 2, 4, 8, 16, 32, 64>>
<1>1. shift \in Nat
  OBVIOUS
<1>2. CASE shift > 6
  BY <1>2 DEF BackoffDuration
<1>3. CASE ~(shift > 6)
  <2>1. shift + 1 \in 1..7
    BY <1>1, <1>3
  <2>2. pow \in [1..7 -> Nat]
    OBVIOUS
  <2>3. pow[shift + 1] \in Nat
    BY <2>1, <2>2
  <2> QED BY <1>3, <2>3 DEF BackoffDuration
<1> QED BY <1>2, <1>3

\* The default fills in one of the known priorities.
LEMMA DefaultType ==
  ASSUME NEW p \in Priorities \cup {""} PROVE PriorityOrDefault(p) \in Priorities
  BY DEF PriorityOrDefault, Priorities

\* q is a table of rows over no new keys.
SubTable(q) == DOMAIN q \subseteq DOMAIN queue /\ q \in [DOMAIN q -> Row]

\* The row updates of MarkFailed and of the clock keep a row a row.
LEMMA RowUpdates ==
  ASSUME NEW r \in Row, NEW n \in Nat, NEW k \in Nat
  PROVE  /\ [r EXCEPT !.status = "PENDING", !.retryCount = n, !.wait = k] \in Row
         /\ [r EXCEPT !.wait = n, !.age = k] \in Row
  BY DEF Row

\* Every UPDATE and DELETE of the repository yields such a table.
LEMMA QueueOpsType ==
  ASSUME TypeOK, NEW S
  PROVE  /\ SubTable(MarkSending(S)) /\ SubTable(MarkSent(S)) /\ SubTable(MarkFailed(S))
         /\ SubTable(RecoverSendingToPending) /\ SubTable(Delete(S))
<1>0. \A s \in DOMAIN queue : queue[s] \in Row
  BY DEF TypeOK
<1>1. SubTable(MarkSending(S))
  <2>1. \A s \in DOMAIN queue : [queue[s] EXCEPT !.status = "SENDING"] \in Row
    BY <1>0 DEF Row
  <2> QED BY <1>0, <2>1 DEF MarkSending, SubTable
<1>2. SubTable(MarkSent(S))
  <2>1. \A s \in DOMAIN queue : [queue[s] EXCEPT !.status = "SENT", !.age = 0] \in Row
    BY <1>0 DEF Row
  <2> QED BY <1>0, <2>1 DEF MarkSent, SubTable
<1>3. SubTable(MarkFailed(S))
  <2>1. \A s \in DOMAIN queue :
          [queue[s] EXCEPT !.status = "PENDING", !.retryCount = @ + 1,
                           !.wait = BackoffDuration(queue[s].retryCount + 1)] \in Row
    <3> TAKE s \in DOMAIN queue
    <3>1. queue[s].retryCount \in Nat
      BY <1>0 DEF Row
    <3>2. BackoffDuration(queue[s].retryCount + 1) \in Nat
      BY <3>1, BackoffType
    <3>3. queue[s].retryCount + 1 \in Nat
      BY <3>1
    <3> QED BY <1>0, <3>2, <3>3, RowUpdates
  <2>2. SubTable(queue)
    BY DEF SubTable, TypeOK
  <2> QED BY <1>0, <2>1, <2>2 DEF MarkFailed, SubTable
<1>4. SubTable(RecoverSendingToPending)
  <2>1. \A s \in DOMAIN queue : [queue[s] EXCEPT !.status = "PENDING"] \in Row
    BY <1>0 DEF Row
  <2> QED BY <1>0, <2>1 DEF RecoverSendingToPending, SubTable
<1>5. SubTable(Delete(S))
  BY <1>0 DEF Delete, SubTable
<1> QED BY <1>1, <1>2, <1>3, <1>4, <1>5

-----------------------------------------------------------------------------
(* Type correctness.                                                       *)

\* Every action keeps the state well typed.
LEMMA TypeInductive == TypeOK /\ [Next]_vars => TypeOK'
<1> SUFFICES ASSUME TypeOK, [Next]_vars PROVE TypeOK'
  OBVIOUS
<1> USE DEF vars, gatewayDB, forwarder, network, server, history
<1>0. CASE UNCHANGED vars
  BY <1>0 DEF TypeOK
<1>1. CASE Start
  BY <1>1 DEF TypeOK, Start, EnsureGateway
<1>2. CASE Recover
  <2>1. SubTable(queue')
    BY <1>2, QueueOpsType DEF TypeOK, Recover, SubTable
  <2> QED BY <1>2, <2>1 DEF TypeOK, Recover, Fault, SubTable
<1>3. CASE Crash
  BY <1>3 DEF TypeOK, Crash, Fault
<1>4. ASSUME NEW r \in Inputs, Insert(r) PROVE TypeOK'
  <2> DEFINE s == lastSequence + 1
             row == [status |-> "PENDING", priority |-> PriorityOrDefault(r.priority),
                     eventTimestamp |-> r.eventTimestamp, retryCount |-> 0,
                     wait |-> 0, age |-> 0]
  <2>0. r.priority \in Priorities \cup {""} /\ r.eventTimestamp \in Nat
    BY ConstantsAssumption DEF Reading
  <2>1. PriorityOrDefault(r.priority) \in Priorities /\ r.eventTimestamp \in Nat
    BY <2>0, DefaultType
  <2>2. row \in Row
    BY <2>1 DEF Row
  <2>a. /\ queue' = [t \in DOMAIN queue \cup {s} |-> IF t = s THEN row ELSE queue[t]]
        /\ lastSequence' = s
        /\ acquired' = acquired \cup
             {[seq |-> s, priority |-> row.priority, eventTimestamp |-> row.eventTimestamp]}
    BY <1>4 DEF Insert
  <2>b. \A t \in DOMAIN queue : queue[t] \in Row
    BY DEF TypeOK
  <2>c. DOMAIN queue' = DOMAIN queue \cup {s}
    BY <2>a
  <2>d. \A t \in DOMAIN queue' : queue'[t] \in Row
    <3> HIDE DEF row, s
    <3> QED BY <2>a, <2>b, <2>c, <2>2
  <2>3. queue' \in [DOMAIN queue' -> Row] /\ DOMAIN queue' \subseteq 1..lastSequence'
    <3>1. DOMAIN queue' \subseteq 1..lastSequence'
      BY <2>a, <2>c DEF TypeOK
    <3>2. queue' = [t \in DOMAIN queue' |-> queue'[t]]
      BY <2>a
    <3> QED BY <2>d, <3>1, <3>2
  <2>4. acquired' \subseteq Entry
    BY <2>a, <2>1 DEF TypeOK, Entry
  <2>5. lastSequence' \in Nat
    BY <2>a DEF TypeOK
  <2>6. UNCHANGED <<forwarder, network, server, faults, evicted>>
    BY <1>4 DEF Insert
  <2> QED BY <2>3, <2>4, <2>5, <2>6 DEF TypeOK
<1>5. CASE FetchBatch
  <2>1. \A t \in DOMAIN queue : EntryOf(t) \in Entry
    BY DEF TypeOK, EntryOf, Entry, Row
  <2>2. SelectBatch \subseteq DOMAIN queue
    BY DEF SelectBatch, Eligible
  <2>3. batch' \in SUBSET Entry
    BY <1>5, <2>1, <2>2 DEF FetchBatch
  <2>4. SubTable(queue')
    BY <1>5, QueueOpsType DEF FetchBatch
  <2> QED BY <1>5, <2>3, <2>4 DEF TypeOK, FetchBatch, SubTable
<1>6. CASE PollEmpty
  BY <1>6 DEF TypeOK, PollEmpty
<1>7. CASE Publish
  BY <1>7 DEF TypeOK, Publish, Batch
<1>8. CASE SendFails
  BY <1>8 DEF TypeOK, SendFails, Fault
<1>9. CASE AckTimeout
  BY <1>9 DEF TypeOK, AckTimeout
<1>10. CASE FinishSent
  <2>1. SubTable(queue')
    BY <1>10, QueueOpsType DEF TypeOK, FinishSent, SubTable
  <2> QED BY <1>10, <2>1 DEF TypeOK, FinishSent, Fault, SubTable
<1>11. CASE FinishFailed
  <2>1. SubTable(queue')
    BY <1>11, QueueOpsType DEF TypeOK, FinishFailed, SubTable
  <2> QED BY <1>11, <2>1 DEF TypeOK, FinishFailed, Fault, SubTable
<1>12. ASSUME NEW id \in acks, HandleAck(id) \/ LoseAck(id) PROVE TypeOK'
  BY <1>12 DEF TypeOK, HandleAck, LoseAck, Fault
<1>13. CASE SweepRetention
  <2>1. SubTable(queue')
    BY <1>13, QueueOpsType DEF SweepRetention
  <2> QED BY <1>13, <2>1 DEF TypeOK, SweepRetention, SubTable
<1>14. ASSUME NEW S \in EvictionChoices, EvictOldestNonCritical(S) PROVE TypeOK'
  <2>1. SubTable(queue')
    BY <1>14, QueueOpsType DEF EvictOldestNonCritical
  <2>2. S \subseteq Nat
    BY DEF TypeOK, EvictionChoices, NonCritical
  <2> QED BY <1>14, <2>1, <2>2 DEF TypeOK, EvictOldestNonCritical, SubTable
<1>15. ASSUME NEW m \in wire, DeliverData(m) \/ LoseData(m) PROVE TypeOK'
  BY <1>15 DEF TypeOK, DeliverData, LoseData, Fault, Batch
<1>16. ASSUME NEW h \in handler, IngestEntry(h) \/ IngestError(h) \/ SendAck(h) PROVE TypeOK'
  <2>1. CASE IngestEntry(h)
    <3>1. PICK e \in h.todo : /\ readings' = Upsert(e)
                              /\ handler' = {[h EXCEPT !.todo = h.todo \ {e}]}
      BY <2>1 DEF IngestEntry
    <3>2. h \in [id : Nat, entries : SUBSET Entry, todo : SUBSET Entry] /\ e \in Entry
      BY DEF TypeOK
    <3>3. readings' \subseteq Entry
      BY <3>1, <3>2 DEF Upsert, TypeOK
    <3>4. handler' \subseteq [id : Nat, entries : SUBSET Entry, todo : SUBSET Entry]
      BY <3>1, <3>2
    <3> QED BY <2>1, <3>3, <3>4 DEF TypeOK, IngestEntry
  <2>2. CASE IngestError(h)
    BY <2>2 DEF TypeOK, IngestError, Fault
  <2>3. CASE SendAck(h)
    BY <2>3 DEF TypeOK, SendAck
  <2> QED BY <1>16, <2>1, <2>2, <2>3
<1>17. CASE Tick
  <2> DEFINE w(s) == IF queue[s].wait > 0 THEN queue[s].wait - 1 ELSE 0
             a(s) == IF queue[s].status = "SENT" /\ queue[s].age <= Retention
                     THEN queue[s].age + 1 ELSE queue[s].age
  <2>1. \A s \in DOMAIN queue : queue[s] \in Row
    BY DEF TypeOK
  <2>2. \A s \in DOMAIN queue : w(s) \in Nat /\ a(s) \in Nat
    BY <2>1, ConstantsAssumption DEF Row
  <2>3. queue' = [s \in DOMAIN queue |-> [queue[s] EXCEPT !.wait = w(s), !.age = a(s)]]
    BY <1>17 DEF Tick
  <2> HIDE DEF w, a
  <2>4. \A s \in DOMAIN queue : [queue[s] EXCEPT !.wait = w(s), !.age = a(s)] \in Row
    BY <2>1, <2>2, RowUpdates
  <2>5. SubTable(queue')
    BY <2>3, <2>4 DEF SubTable
  <2> QED BY <1>17, <2>5 DEF TypeOK, Tick, SubTable
<1> QED
  BY <1>0, <1>1, <1>2, <1>3, <1>4, <1>5, <1>6, <1>7, <1>8, <1>9, <1>10, <1>11, <1>12,
     <1>13, <1>14, <1>15, <1>16, <1>17 DEF Next

\* Every reachable state is well typed: the tables, the forwarder's batch, the
\* messages and the server's table keep their shapes under every action.
THEOREM TypeCorrect == Spec => []TypeOK
<1>1. Init => TypeOK
  BY DEF Init, TypeOK
<1> QED BY <1>1, TypeInductive, PTL DEF Spec

-----------------------------------------------------------------------------
(* The safety invariant.  Steps differ in what they do to data_queue: most *)
(* leave it alone, the updates keep every payload, Insert adds one row.    *)

\* No row is new, and the rows that stay keep what they say.
KeepsPayload ==
  /\ DOMAIN queue' \subseteq DOMAIN queue
  /\ \A s \in DOMAIN queue' : /\ queue'[s].priority = queue[s].priority
                              /\ queue'[s].eventTimestamp = queue[s].eventTimestamp

\* No row becomes SENT.
NoNewSent ==
  \A s \in DOMAIN queue' : queue'[s].status = "SENT" => queue[s].status = "SENT"

\* Each UPDATE keeps keys and payloads; only MarkSent makes a row SENT.
LEMMA UpdatesKeep ==
  ASSUME TypeOK, NEW S,
         \/ queue' = queue \/ queue' = MarkSending(S) \/ queue' = MarkFailed(S)
         \/ queue' = RecoverSendingToPending \/ Tick
  PROVE  KeepsPayload /\ NoNewSent /\ DOMAIN queue' = DOMAIN queue
<1>0. \A s \in DOMAIN queue : queue[s] \in Row
  BY DEF TypeOK
<1>1. CASE queue' = queue
  BY <1>1 DEF KeepsPayload, NoNewSent
<1>2. CASE queue' = MarkSending(S)
  BY <1>0, <1>2 DEF KeepsPayload, NoNewSent, MarkSending, Row
<1>3. CASE queue' = MarkFailed(S)
  BY <1>0, <1>1, <1>3 DEF KeepsPayload, NoNewSent, MarkFailed, Row
<1>4. CASE queue' = RecoverSendingToPending
  BY <1>0, <1>4 DEF KeepsPayload, NoNewSent, RecoverSendingToPending, Row
<1>5. CASE Tick
  BY <1>0, <1>5 DEF KeepsPayload, NoNewSent, Tick, Row
<1> QED BY <1>1, <1>2, <1>3, <1>4, <1>5

\* MarkSent keeps keys and payloads, and rows that are not in S as they are.
LEMMA MarkSentKeeps ==
  ASSUME TypeOK, NEW S, queue' = MarkSent(S)
  PROVE  /\ KeepsPayload /\ DOMAIN queue' = DOMAIN queue
         /\ \A s \in DOMAIN queue' \ S : queue'[s] = queue[s]
<1>0. \A s \in DOMAIN queue : queue[s] \in Row
  BY DEF TypeOK
<1> QED BY <1>0 DEF KeepsPayload, MarkSent, Row

\* Deleting keeps the rows that stay.
LEMMA DeleteKeeps ==
  ASSUME NEW S, queue' = Delete(S)
  PROVE  KeepsPayload /\ NoNewSent /\ DOMAIN queue' = DOMAIN queue \ S
  BY DEF KeepsPayload, NoNewSent, Delete

\* Where payloads are kept, rows still copy what was acquired and rows that
\* were SENT are still stored.
LEMMA PayloadKept ==
  ASSUME KeepsPayload
  PROVE  \A s \in DOMAIN queue' : EntryOf(s)' = EntryOf(s)
  BY DEF KeepsPayload, EntryOf

\* A row and an acquired entry under one key are the same reading.
LEMMA SameKeySameEntry ==
  ASSUME KeysInv, CopiesInv, NEW s \in DOMAIN queue, NEW a \in acquired, a.seq = s
  PROVE  a = EntryOf(s)
  BY DEF KeysInv, CopiesInv, EntryOf

\* After ingesting an acquired entry the server has exactly that entry.
LEMMA UpsertStores ==
  ASSUME KeysInv, CopiesInv, NEW e \in acquired
  PROVE  e \in Upsert(e) /\ readings \subseteq Upsert(e) /\ Upsert(e) \subseteq acquired
<1>1. CASE e.seq \in Seqs(readings)
  <2>1. PICK r \in readings : r.seq = e.seq
    BY <1>1 DEF Seqs
  <2>2. r = e
    BY <2>1 DEF KeysInv, CopiesInv
  <2> QED BY <1>1, <2>2 DEF Upsert, CopiesInv
<1>2. CASE e.seq \notin Seqs(readings)
  BY <1>2 DEF Upsert, CopiesInv
<1> QED BY <1>1, <1>2

-----------------------------------------------------------------------------
\* Steps that keep keys, payloads, acquired and statuses keep the parts of the
\* invariant that speak of the queue; readings may grow.
LEMMA QueuePart ==
  ASSUME TypeOK, KeysInv, CopiesInv, SentIsStored, NothingLost,
         KeepsPayload, NoNewSent, DOMAIN queue' = DOMAIN queue,
         UNCHANGED <<lastSequence, acquired, evicted>>, readings \subseteq readings'
  PROVE  /\ \A s \in DOMAIN queue' : EntryOf(s)' \in acquired'
         /\ KeysInv' /\ SentIsStored' /\ NothingLost'
<1>1. \A s \in DOMAIN queue' : EntryOf(s)' = EntryOf(s)
  BY PayloadKept
<1>2. \A s \in DOMAIN queue' : EntryOf(s)' \in acquired'
  BY <1>1 DEF CopiesInv
<1>3. KeysInv'
  BY DEF KeysInv
<1>4. SentIsStored'
  BY <1>1 DEF SentIsStored, Stored, NoNewSent
<1>5. NothingLost'
  BY DEF NothingLost
<1> QED BY <1>2, <1>3, <1>4, <1>5

\* Every step preserves the inductive invariant.
LEMMA IndInvInductive == IndInv /\ [Next]_vars => IndInv'
<1> SUFFICES ASSUME IndInv, [Next]_vars PROVE IndInv'
  OBVIOUS
<1> USE DEF vars, gatewayDB, forwarder, network, server, history
<1>t. /\ TypeOK /\ KeysInv /\ CopiesInv /\ IdsInv /\ AckInv /\ SentIsStored /\ NothingLost
      /\ TypeOK'
  BY TypeInductive DEF IndInv
<1>u. ASSUME UNCHANGED queue, UNCHANGED <<lastSequence, acquired, evicted>>,
             readings \subseteq readings'
      PROVE  /\ \A s \in DOMAIN queue' : EntryOf(s)' \in acquired'
             /\ KeysInv' /\ SentIsStored' /\ NothingLost'
  BY <1>t, <1>u, UpdatesKeep, QueuePart
<1>0. CASE UNCHANGED vars
  BY <1>0, <1>t, <1>u DEF IndInv, CopiesInv, IdsInv, AckInv
<1>1. CASE Start
  BY <1>1, <1>t, <1>u DEF IndInv, Start, EnsureGateway, CopiesInv, IdsInv, AckInv
<1>2. CASE Recover
  <2>1. KeepsPayload /\ NoNewSent /\ DOMAIN queue' = DOMAIN queue
    BY <1>2, <1>t, UpdatesKeep DEF Recover
  <2> QED BY <1>2, <1>t, <2>1, QueuePart DEF IndInv, Recover, CopiesInv, IdsInv, AckInv
<1>3. CASE Crash
  BY <1>3, <1>t, <1>u DEF IndInv, Crash, CopiesInv, IdsInv, AckInv
<1>4. ASSUME NEW r \in Inputs, Insert(r) PROVE IndInv'
  <2> DEFINE s == lastSequence + 1
             e == [seq |-> s, priority |-> PriorityOrDefault(r.priority),
                   eventTimestamp |-> r.eventTimestamp]
  <2>1. /\ lastSequence' = s /\ acquired' = acquired \cup {e}
        /\ DOMAIN queue' = DOMAIN queue \cup {s} /\ s \notin DOMAIN queue
        /\ \A t \in DOMAIN queue : queue'[t] = queue[t]
        /\ queue'[s].priority = e.priority /\ queue'[s].eventTimestamp = e.eventTimestamp
        /\ queue'[s].status = "PENDING"
        /\ UNCHANGED <<forwarder, network, server, faults, evicted>>
    BY <1>4 DEF Insert
  <2>2. e.seq = s /\ lastSequence \in Nat /\ \A a \in acquired : a.seq # s
    BY <1>t DEF KeysInv, TypeOK
  <2>3. \A t \in DOMAIN queue' : EntryOf(t)' = IF t = s THEN e ELSE EntryOf(t)
    BY <2>1 DEF EntryOf
  <2> HIDE DEF e
  <2>4. KeysInv'
    BY <1>t, <2>1, <2>2 DEF KeysInv
  <2>5. CopiesInv'
    BY <1>t, <2>1, <2>3 DEF CopiesInv
  <2>6. SentIsStored'
    BY <1>t, <2>1, <2>3 DEF SentIsStored, Stored
  <2>7. NothingLost'
    BY <1>t, <2>1, <2>2 DEF NothingLost
  <2>8. IdsInv' /\ AckInv'
    BY <1>t, <2>1 DEF IdsInv, AckInv
  <2> QED BY <1>t, <2>4, <2>5, <2>6, <2>7, <2>8 DEF IndInv
<1>5. CASE FetchBatch
  <2>1. KeepsPayload /\ NoNewSent /\ DOMAIN queue' = DOMAIN queue
    BY <1>5, <1>t, UpdatesKeep DEF FetchBatch
  <2>2. batch' \subseteq acquired
    BY <1>5, <1>t DEF FetchBatch, SelectBatch, Eligible, CopiesInv
  <2>3. \A t \in DOMAIN queue' : EntryOf(t)' \in acquired'
    BY <1>5, <1>t, <2>1, QueuePart DEF FetchBatch
  <2>4. KeysInv' /\ SentIsStored' /\ NothingLost'
    BY <1>5, <1>t, <2>1, QueuePart DEF FetchBatch
  <2>5. CopiesInv'
    BY <1>5, <1>t, <2>2, <2>3 DEF FetchBatch, CopiesInv
  <2>6. IdsInv' /\ AckInv'
    BY <1>5, <1>t DEF FetchBatch, IdsInv, AckInv
  <2> QED BY <1>t, <2>4, <2>5, <2>6 DEF IndInv
<1>6. CASE PollEmpty
  BY <1>6, <1>0 DEF PollEmpty
<1>7. CASE Publish
  <2>1. KeysInv' /\ SentIsStored' /\ NothingLost'
    BY <1>7, <1>u DEF Publish
  <2>2. CopiesInv'
    BY <1>7, <1>t, <1>u DEF Publish, CopiesInv
  <2>3. batchID \in Nat /\ batchID' = batchID + 1
    BY <1>7, <1>t DEF Publish, TypeOK
  <2>4. /\ \A m \in wire : m.id \in Nat /\ m.id <= batchID
        /\ \A h \in handler : h.id \in Nat /\ h.id <= batchID
        /\ \A id \in acks : id \in Nat /\ id <= batchID
    BY <1>t DEF TypeOK, Batch, IdsInv
  <2>5. IdsInv'
    BY <1>7, <2>3, <2>4 DEF Publish, IdsInv
  <2>6. AckInv'
    BY <1>7, <1>t, <2>3, <2>4 DEF Publish, AckInv
  <2> QED BY <1>t, <2>1, <2>2, <2>5, <2>6 DEF IndInv
<1>8. CASE SendFails
  BY <1>8, <1>t, <1>u DEF IndInv, SendFails, CopiesInv, IdsInv, AckInv
<1>9. CASE AckTimeout
  BY <1>9, <1>t, <1>u DEF IndInv, AckTimeout, CopiesInv, IdsInv, AckInv
<1>10. CASE FinishSent
  <2>1. CASE queue' = queue
    BY <1>10, <1>t, <1>u, <2>1 DEF IndInv, FinishSent, CopiesInv, IdsInv, AckInv
  <2>2. CASE queue' = MarkSent(Seqs(batch))
    <3>1. KeepsPayload /\ DOMAIN queue' = DOMAIN queue
      BY <1>t, <2>2, MarkSentKeeps
    <3>2. \A t \in DOMAIN queue' \ Seqs(batch) : queue'[t] = queue[t]
      BY <1>t, <2>2, MarkSentKeeps
    <3>3. \A t \in DOMAIN queue' : EntryOf(t)' = EntryOf(t)
      BY <3>1, PayloadKept
    <3>4. \A t \in DOMAIN queue \cap Seqs(batch) : EntryOf(t) \in readings
      <4> TAKE t \in DOMAIN queue \cap Seqs(batch)
      <4>1. PICK e \in batch : e.seq = t
        BY DEF Seqs
      <4>2. e \in acquired /\ e \in readings
        BY <1>10, <1>t DEF FinishSent, AckInv, CopiesInv
      <4> QED BY <1>t, <4>1, <4>2, SameKeySameEntry
    <3>5. SentIsStored'
      BY <1>10, <1>t, <3>1, <3>2, <3>3, <3>4 DEF FinishSent, SentIsStored, Stored
    <3>6. NothingLost' /\ KeysInv'
      BY <1>10, <1>t, <3>1 DEF FinishSent, NothingLost, KeysInv
    <3>7. CopiesInv' /\ IdsInv' /\ AckInv'
      BY <1>10, <1>t, <3>1, <3>3 DEF FinishSent, CopiesInv, IdsInv, AckInv
    <3> QED BY <1>t, <3>5, <3>6, <3>7 DEF IndInv
  <2> QED BY <1>10, <2>1, <2>2 DEF FinishSent
<1>11. CASE FinishFailed
  <2>1. KeepsPayload /\ NoNewSent /\ DOMAIN queue' = DOMAIN queue
    BY <1>11, <1>t, UpdatesKeep DEF FinishFailed
  <2> QED BY <1>11, <1>t, <2>1, QueuePart DEF IndInv, FinishFailed, CopiesInv, IdsInv, AckInv
<1>12. ASSUME NEW id \in acks, HandleAck(id) \/ LoseAck(id) PROVE IndInv'
  BY <1>12, <1>t, <1>u DEF IndInv, HandleAck, LoseAck, CopiesInv, IdsInv, AckInv
<1>13. CASE SweepRetention
  <2>1. KeepsPayload /\ NoNewSent /\ DOMAIN queue' = DOMAIN queue \ Expired
    BY <1>13, DeleteKeeps DEF SweepRetention
  <2>2. \A t \in DOMAIN queue' : EntryOf(t)' = EntryOf(t)
    BY <2>1, PayloadKept
  <2>3. NothingLost'
    <3> SUFFICES ASSUME NEW a \in acquired, a.seq \in Expired PROVE a \in readings
      BY <1>13, <1>t, <2>1 DEF SweepRetention, NothingLost
    <3>1. a = EntryOf(a.seq)
      BY <1>t, SameKeySameEntry DEF Expired
    <3> QED BY <1>t, <3>1 DEF Expired, SentIsStored, Stored
  <2>4. KeysInv' /\ CopiesInv' /\ SentIsStored'
    BY <1>13, <1>t, <2>1, <2>2
    DEF SweepRetention, KeysInv, CopiesInv, SentIsStored, Stored, NoNewSent
  <2>5. IdsInv' /\ AckInv'
    BY <1>13, <1>t DEF SweepRetention, IdsInv, AckInv
  <2> QED BY <1>t, <2>3, <2>4, <2>5 DEF IndInv
<1>14. ASSUME NEW S \in EvictionChoices, EvictOldestNonCritical(S) PROVE IndInv'
  <2>1. KeepsPayload /\ NoNewSent /\ DOMAIN queue' = DOMAIN queue \ S
    BY <1>14, DeleteKeeps DEF EvictOldestNonCritical
  <2>2. \A t \in DOMAIN queue' : EntryOf(t)' = EntryOf(t)
    BY <2>1, PayloadKept
  <2>3. NothingLost'
    <3> SUFFICES ASSUME NEW a \in acquired, a.seq \in S PROVE a.priority # "CRITICAL"
      BY <1>14, <1>t, <2>1 DEF EvictOldestNonCritical, NothingLost
    <3>1. a.seq \in DOMAIN queue /\ queue[a.seq].priority # "CRITICAL"
      BY DEF EvictionChoices, NonCritical
    <3>2. a = EntryOf(a.seq)
      BY <1>t, <3>1, SameKeySameEntry
    <3>3. EntryOf(a.seq).priority = queue[a.seq].priority
      BY DEF EntryOf
    <3> QED BY <3>1, <3>2, <3>3
  <2>4. KeysInv' /\ CopiesInv' /\ SentIsStored'
    BY <1>14, <1>t, <2>1, <2>2
    DEF EvictOldestNonCritical, KeysInv, CopiesInv, SentIsStored, Stored, NoNewSent
  <2>5. IdsInv' /\ AckInv'
    BY <1>14, <1>t DEF EvictOldestNonCritical, IdsInv, AckInv
  <2> QED BY <1>t, <2>3, <2>4, <2>5 DEF IndInv
<1>15. ASSUME NEW m \in wire, DeliverData(m) \/ LoseData(m) PROVE IndInv'
  <2>1. KeysInv' /\ SentIsStored' /\ NothingLost'
    BY <1>15, <1>u DEF DeliverData, LoseData
  <2>2. CopiesInv'
    BY <1>15, <1>t, <1>u DEF DeliverData, LoseData, CopiesInv
  <2>3. IdsInv' /\ AckInv'
    BY <1>15, <1>t DEF DeliverData, LoseData, IdsInv, AckInv
  <2> QED BY <1>t, <2>1, <2>2, <2>3 DEF IndInv
<1>16. ASSUME NEW h \in handler, IngestEntry(h) \/ IngestError(h) \/ SendAck(h) PROVE IndInv'
  <2>0. handler \subseteq [id : Nat, entries : SUBSET Entry, todo : SUBSET Entry]
    BY <1>t DEF TypeOK
  <2>1. CASE IngestEntry(h)
    <3>1. PICK e \in h.todo : /\ readings' = Upsert(e)
                              /\ handler' = {[h EXCEPT !.todo = h.todo \ {e}]}
      BY <2>1 DEF IngestEntry
    <3>2. UNCHANGED <<gatewayDB, forwarder, network, faults, history>>
      BY <2>1 DEF IngestEntry
    <3>3. h.todo \subseteq h.entries /\ h.entries \subseteq acquired
      BY <1>t DEF CopiesInv
    <3>4. e \in readings' /\ readings \subseteq readings' /\ readings' \subseteq acquired
      BY <1>t, <3>1, <3>3, UpsertStores
    <3>5. \A k \in handler' : k.id = h.id /\ k.entries = h.entries /\ k.todo = h.todo \ {e}
      BY <2>0, <3>1
    <3>6. /\ \A s \in DOMAIN queue' : EntryOf(s)' \in acquired'
          /\ KeysInv' /\ SentIsStored' /\ NothingLost'
      BY <1>u, <3>2, <3>4
    <3>7. CopiesInv'
      BY <1>t, <3>2, <3>3, <3>4, <3>5, <3>6 DEF CopiesInv
    <3>8. IdsInv'
      BY <1>t, <3>2, <3>5 DEF IdsInv
    <3>9. AckInv'
      BY <1>t, <3>2, <3>4, <3>5 DEF AckInv
    <3> QED BY <1>t, <3>6, <3>7, <3>8, <3>9 DEF IndInv
  <2>2. CASE IngestError(h)
    BY <2>2, <1>t, <1>u DEF IndInv, IngestError, CopiesInv, IdsInv, AckInv
  <2>3. CASE SendAck(h)
    <3>1. h.entries \subseteq readings
      BY <2>3, <1>t DEF SendAck, AckInv
    <3>2. KeysInv' /\ SentIsStored' /\ NothingLost' /\ CopiesInv'
      BY <2>3, <1>t, <1>u DEF SendAck, CopiesInv
    <3>3. IdsInv'
      BY <2>3, <1>t DEF SendAck, IdsInv
    <3>4. AckInv'
      BY <2>3, <1>t, <3>1 DEF SendAck, AckInv
    <3> QED BY <1>t, <3>2, <3>3, <3>4 DEF IndInv
  <2> QED BY <1>16, <2>1, <2>2, <2>3
<1>17. CASE Tick
  <2>1. KeepsPayload /\ NoNewSent /\ DOMAIN queue' = DOMAIN queue
    BY <1>17, <1>t, UpdatesKeep
  <2> QED BY <1>17, <1>t, <2>1, QueuePart DEF IndInv, Tick, CopiesInv, IdsInv, AckInv
<1> QED
  BY <1>0, <1>1, <1>2, <1>3, <1>4, <1>5, <1>6, <1>7, <1>8, <1>9, <1>10, <1>11, <1>12,
     <1>13, <1>14, <1>15, <1>16, <1>17 DEF Next

-----------------------------------------------------------------------------
(* What follows for every behaviour.                                       *)

\* The inductive invariant holds in every reachable state.
LEMMA IndInvAlways == Spec => []IndInv
<1>1. Init => IndInv
  BY DEF Init, IndInv, TypeOK, KeysInv, CopiesInv, IdsInv, AckInv, SentIsStored, NothingLost
<1> QED BY <1>1, IndInvInductive, PTL DEF Spec

\* A row is SENT only when the server stored that very reading, for any number
\* of readings, faults, batch sizes and any mix of late, lost, duplicated
\* messages, partial ingests, crashes, evictions and database errors.
THEOREM SentMeansStored == Spec => []SentIsStored
<1>1. IndInv => SentIsStored
  BY DEF IndInv
<1> QED BY <1>1, IndInvAlways, PTL

\* gateway_id + sequence_id identifies one reading, in the gateway's history
\* and in the server's table, across restarts.
THEOREM KeysIdentify == Spec => []KeyIdentifiesReading
<1>1. IndInv => KeyIdentifiesReading
  BY DEF IndInv, KeysInv, CopiesInv, KeyIdentifiesReading
<1> QED BY <1>1, IndInvAlways, PTL

\* No committed reading is lost except by the storage-full policy, which never
\* takes a CRITICAL one.
THEOREM NoReadingLost == Spec => []NothingLost
<1>1. IndInv => NothingLost
  BY DEF IndInv
<1> QED BY <1>1, IndInvAlways, PTL

-----------------------------------------------------------------------------
(* The pipeline implements the delivery contract.                          *)

\* The abstract held set.
Held == {EntryOf(s) : s \in DOMAIN queue}

\* A step that keeps keys and payloads, acquired and readings is a stutter.
LEMMA MappedStutter ==
  ASSUME KeepsPayload, DOMAIN queue' = DOMAIN queue, UNCHANGED <<acquired, readings>>
  PROVE  UNCHANGED Delivery!vars
<1>1. \A s \in DOMAIN queue' : EntryOf(s)' = EntryOf(s)
  BY PayloadKept
<1>2. {EntryOf(s) : s \in DOMAIN queue}' = {EntryOf(s) : s \in DOMAIN queue}
  BY <1>1
<1> QED BY <1>2 DEF Delivery!vars

\* Deleting rows that are stored or not CRITICAL is the abstract Forget.
LEMMA MappedForget ==
  ASSUME NEW S \in SUBSET DOMAIN queue, queue' = Delete(S), UNCHANGED <<acquired, readings>>,
         \A s \in S : EntryOf(s) \in readings \/ queue[s].priority # "CRITICAL"
  PROVE  Delivery!Next
<1> DEFINE E == {EntryOf(s) : s \in S}
<1>1. KeepsPayload /\ DOMAIN queue' = DOMAIN queue \ S
  BY DeleteKeeps
<1>2. \A s \in DOMAIN queue' : EntryOf(s)' = EntryOf(s)
  BY <1>1, PayloadKept
<1>3. \A s, t : EntryOf(s) = EntryOf(t) => s = t
  BY DEF EntryOf
<1>4. Held' = Held \ E
  BY <1>1, <1>2, <1>3 DEF Held
<1>5. E \in SUBSET Held
  BY DEF Held
<1>6. \A e \in E : e \in readings \/ e.priority # "CRITICAL"
  BY DEF EntryOf
<1>7. Delivery!Forget(E)
  BY <1>4, <1>5, <1>6 DEF Delivery!Forget, Held
<1> QED BY <1>5, <1>7 DEF Delivery!Next, Held

\* Each step of the pipeline is a step of the contract or leaves it unchanged.
LEMMA MappedStep == IndInv /\ [Next]_vars => [Delivery!Next]_(Delivery!vars)
<1> SUFFICES ASSUME IndInv, [Next]_vars PROVE Delivery!Next \/ UNCHANGED Delivery!vars
  OBVIOUS
<1> USE DEF vars, gatewayDB, forwarder, network, server, history
<1>t. TypeOK /\ KeysInv /\ CopiesInv /\ SentIsStored
  BY DEF IndInv
<1>q. ASSUME UNCHANGED <<queue, acquired, readings>> PROVE UNCHANGED Delivery!vars
  BY <1>q, <1>t, UpdatesKeep, MappedStutter
<1>0. CASE \/ UNCHANGED vars \/ Start \/ Crash \/ PollEmpty \/ Publish \/ SendFails \/ AckTimeout
  BY <1>0, <1>q DEF Start, Crash, PollEmpty, Publish, SendFails, AckTimeout
<1>1. CASE \/ \E id \in acks : HandleAck(id) \/ LoseAck(id)
           \/ \E m \in wire : DeliverData(m) \/ LoseData(m)
           \/ \E h \in handler : IngestError(h) \/ SendAck(h)
  BY <1>1, <1>q DEF HandleAck, LoseAck, DeliverData, LoseData, IngestError, SendAck
<1>2. CASE Recover \/ FetchBatch \/ FinishFailed \/ Tick
  <2>1. KeepsPayload /\ DOMAIN queue' = DOMAIN queue
    BY <1>2, <1>t, UpdatesKeep DEF Recover, FetchBatch, FinishFailed
  <2>2. UNCHANGED <<acquired, readings>>
    BY <1>2 DEF Recover, FetchBatch, FinishFailed, Tick
  <2> QED BY <2>1, <2>2, MappedStutter
<1>3. CASE FinishSent
  <2>1. KeepsPayload /\ DOMAIN queue' = DOMAIN queue
    BY <1>3, <1>t, UpdatesKeep, MarkSentKeeps DEF FinishSent
  <2> QED BY <1>3, <2>1, MappedStutter DEF FinishSent
<1>4. ASSUME NEW r \in Inputs, Insert(r) PROVE Delivery!Next
  <2>1. PICK s : s = lastSequence + 1
    OBVIOUS
  <2>2. PICK e : e = EntryFrom(s, r)
    OBVIOUS
  <2>3. /\ lastSequence < MaxSeq /\ acquired' = acquired \cup {e}
        /\ DOMAIN queue' = DOMAIN queue \cup {s} /\ s \notin DOMAIN queue
        /\ \A t \in DOMAIN queue : queue'[t] = queue[t]
        /\ queue'[s].priority = e.priority /\ queue'[s].eventTimestamp = e.eventTimestamp
        /\ UNCHANGED readings
    BY <1>4, <2>1, <2>2 DEF Insert, EntryFrom
  <2>4. \A t \in DOMAIN queue' : EntryOf(t)' = IF t = s THEN e ELSE EntryOf(t)
    BY <2>2, <2>3 DEF EntryOf, EntryFrom
  <2>5. Held' = Held \cup {e}
    BY <2>3, <2>4 DEF Held
  <2>6. s \in 1..MaxSeq
    BY <1>t, <2>1, <2>3, ConstantsAssumption DEF TypeOK
  <2>7. e.seq = s /\ \A a \in acquired : a.seq # e.seq
    BY <1>t, <2>1, <2>2 DEF KeysInv, EntryFrom, TypeOK
  <2>8. Delivery!Accept(e)
    BY <2>3, <2>5, <2>7 DEF Delivery!Accept, Held
  <2> QED BY <2>2, <2>6, <2>8 DEF Delivery!Next
<1>5. CASE SweepRetention
  <2>1. Expired \in SUBSET DOMAIN queue /\ \A s \in Expired : EntryOf(s) \in readings
    BY <1>t DEF Expired, SentIsStored, Stored
  <2> QED BY <1>5, <2>1, MappedForget DEF SweepRetention
<1>6. ASSUME NEW S \in EvictionChoices, EvictOldestNonCritical(S) PROVE Delivery!Next
  <2>1. S \in SUBSET DOMAIN queue /\ \A s \in S : queue[s].priority # "CRITICAL"
    BY DEF EvictionChoices, NonCritical
  <2> QED BY <1>6, <2>1, MappedForget DEF EvictOldestNonCritical
<1>7. ASSUME NEW h \in handler, IngestEntry(h) PROVE Delivery!Next \/ UNCHANGED Delivery!vars
  <2>1. PICK e \in h.todo : readings' = Upsert(e)
    BY <1>7 DEF IngestEntry
  <2>2. e \in acquired
    BY <1>t DEF CopiesInv
  <2>3. UNCHANGED <<queue, acquired>>
    BY <1>7 DEF IngestEntry
  <2>4. CASE e \in readings
    <3>1. readings' = readings
      BY <2>1, <2>4 DEF Upsert, Seqs
    <3> QED BY <1>q, <2>3, <3>1
  <2>5. CASE e \notin readings
    <3>1. readings' = readings \cup {e}
      BY <1>t, <2>1, <2>2, UpsertStores DEF Upsert
    <3>2. Held' = Held
      BY <2>3 DEF Held, EntryOf
    <3>3. Delivery!Deliver(e)
      BY <2>2, <2>3, <2>5, <3>1, <3>2 DEF Delivery!Deliver, Held
    <3> QED BY <2>2, <3>3 DEF Delivery!Next
  <2> QED BY <2>4, <2>5
<1> QED BY <1>0, <1>1, <1>2, <1>3, <1>4, <1>5, <1>6, <1>7 DEF Next

\* The queue, the forwarder, MQTT and the server together implement the
\* delivery contract: every step accepts, delivers once, forgets or stutters.
THEOREM Implements == Spec => ImplementsDelivery
<1>1. Init => Delivery!Init
  BY DEF Init, Delivery!Init
<1> QED BY <1>1, MappedStep, IndInvAlways, PTL DEF Spec, ImplementsDelivery, Delivery!Spec
=============================================================================

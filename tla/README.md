# nxIIoT Gateway: TLA+ models, checks and proofs

This directory specifies the core of the gateway in TLA+. Small instances are
checked with TLC; every safety property of a passing run is also proved with
TLAPS, for every value of the constants. `PROJECT.json` lists the components,
the runs, the source lines behind each definition, the hazards the properties
are aimed at, and the findings.

## The system

A gateway polls Modbus devices, stores every reading in SQLite, and forwards
batches over MQTT to an internal server that writes them to Postgres. A web UI
and a REST API configure it.

| Part | State | Operations | Hard parts |
|---|---|---|---|
| Queue (`gateway/internal/queue`) | `data_queue` rows (status, priority, retry count, next attempt), `gateway.last_sequence` | Insert, FetchBatch, MarkSent, MarkFailed, recovery at startup, retention sweep, eviction when the disk is full | sweepers run beside the forwarder; rows survive crashes in any status |
| Forwarder (`forwarder.go`) | the batch being sent | recover, fetch, send, mark | crash between two steps; errors that are only logged |
| MQTT adapter (`mqttadapter.go`) | connection state, `disconnectedAt`, pending acks with their channels | Connect, onConnect, onConnectionLost, subscribeWithRetry, the reconnect watchdog, Send, handleAck | callbacks run on goroutines of their own, late and concurrently; late, lost and repeated acks |
| Internal server (`internal-server`) | `readings` | handleMessage, ingest, ack | a batch is ingested statement by statement |
| Acquisition manager (`acquisition/manager.go`) | `Manager.running`, poller goroutines | Reload | concurrent reloads; cancelled pollers still on the wire |
| Poller (`acquisition/poller.go`, `blockplan.go`, `modbus`) | the connection, whose turn it is, blocks to read | connect, plan, read, decode, emit | merged reads in 16-bit arithmetic; a block that fails among others |
| Configuration API and repositories (`api`, `connection`, `device`, `datapoint`) | tables connection, device, datapoint | create/update/delete, export, import | statements of several requests interleave; ids of another gateway or another time |
| Network configuration (`netconfig`) | `Service.timer`, NetworkManager's profile and live settings | Apply, ApplyDHCP, Confirm, revert | the timer races requests; failing nmcli; restart in the window |
| Settings (`api/settings.go`, `config`) | the shared configuration, `config.yaml` | save, exit, load at start | unlocked concurrent saves; a crash or a full disk while the file is written; text expanded before it is parsed |
| Time Service (`time`) | status, the hardware clock | syncOnce | what is known goes stale; NTP seconds wrap |
| Status, diagnostics, logs, test endpoints, simulators, web UI | displays, tools | | not modelled, see below |

Pollers call the processor, which inserts into the queue; the forwarder shares
the table with the two sweepers; gateway and server meet only through MQTT
topics; the API calls the Manager and the network Service from one goroutine
per request; saving settings ends the process, and a supervisor starts it
again.

What makes the parts correct: a row is marked sent only if the server has it;
a key never names two readings; nothing is lost but what eviction may take;
the backlog drains; a lost MQTT connection comes back, with its subscription;
a reload makes the running pollers those configured; every data point is
reported once a round with the value a read of its own would have brought; a
cancelled poller goes away; a confirmed network change stays and an
unconfirmed one goes; saved settings come into force; a backup restores what
was backed up; references between rows hold; the time quality tells the truth.

## Modules

| Module | Models | Composed from / used by |
|---|---|---|
| `StoreForward` | queue, sweepers, forwarder, MQTT round trip, consumer and `ingest`, process crash and restart | refines `ReadingDelivery` |
| `ReadingDelivery` | the delivery contract: accept under a new key, deliver once, forget only what is delivered or not CRITICAL | abstract specification |
| `StoreForwardProofs` | theorems about `StoreForward`: what is stored, lost and named, and the refinement | extends it |
| `StoreForwardOrderProofs` | theorems about `StoreForward`: rows in flight and their order | extends `StoreForwardProofs` |
| `MqttAdapter` | connection, subscription, watchdog, Send and acks below `StoreForward`'s round trip | |
| `NetConfig` | confirm-or-revert over nmcli | |
| `Acquisition` | configuration edits, `Manager.Reload`, pollers coming and going | |
| `BlockPlan` | the turns of `planBlockReads`, decoding, and the references they are compared with; no state | used by `Poller` |
| `Poller` | one connection's goroutine | extends `BlockPlan` |
| `Settings` | `saveSettings`, `config.Save` and `Load`, exit and start | composed in `GatewayProcess` |
| `TimeService` | `syncOnce`, the NTP exchange, the hardware clock | composed in `GatewayProcess` |
| `GatewayProcess` | settings and Time Service in one process: the NTP server in force is the one that was loaded | extends both |
| `ConfigImport` | export, import and the handlers that write, over the repositories | |
| `MqttAdapterProofs`, `NetConfigProofs`, `AcquisitionProofs`, `PollerProofs`, `GatewayProcessProofs`, `ConfigImportProofs` | theorems about these modules | each extends its module |
| `MC*` | inputs, initial tables and symmetry for TLC | extend the above |

### StoreForward

A row is named by its `sequence_id` (the primary key is assigned in the same
transaction). Times are distances from now, in seconds of `BackoffDuration`:
`wait` until `next_attempt_at`, `age` since `sent_at`; `Tick` lets a second
pass. `pc` follows the process: `down`, `starting` (sweepers and pollers run,
the forwarder not yet), `idle`, `sending`, `waiting`, `acked`, `failed`. The
steps between are the points where `dispatchOnce` has committed one thing and
not the next, so a `Crash`, an eviction or a late ack may fall there. The
repository's UPDATEs and DELETEs are state functions of the table. `wire` and
`acks` are sets: messages are reordered, lost (`LoseData`, `LoseAck`) and
repeated (`DeliverData` may keep the message). The consumer keeps paho's
default ordering, so one `handleMessage` runs at a time; each entry is a
statement of its own, and `IngestError` drops the rest.

`MarkFailed` is one transaction whose SELECT fails on a row that is gone; the
model keeps that. `EvictionChoices` leaves ties on `event_timestamp` open, as
SQL does. `FinishSent`, `FinishFailed` and `Recover` may fail with a database
error, which the code only logs. A failed `Insert` rolls back and is no step.

### NetConfig

Every HTTP request is a client; `applyAndArm` is four steps (snapshot, con mod,
con up, arm), since only the last holds the lock. `Current` takes the method
from the saved profile and the rest from the device. A revert is fire, con mod,
con up, then the lock. `Stop` has no effect on a timer that has fired. Nothing
keeps requests and reverts apart: an nmcli call takes seconds, and in that time
others apply, confirm and revert. `ConfirmIsPermanent`, which Confirm's comment
promises, does not survive that; it has a violation run. The passing run shows
what the code does keep, by naming the calls that got away:
`escaped` are the timers that were already reverting when Confirm was called
or that a revert unlinked when it ended, `mixed` the running reverts another
nmcli command has cut into. `settled` are the timers armed before the last
successful Confirm. All three are history variables.

### Acquisition

Settings are revisions that are only compared. A request commits one row (or,
for an import, several) and then runs `Reload` as the code does: devices,
connections, points device by device, and the reconciliation under the lock.
`Unchanged` is the code's DeepEqual. Pollers are goroutines of their own,
numbered by the reload that started them; a poller in a read does not look at
its context. `fresh` is a history variable: the last reconciliation started
reading after the last edit. `runConnection` returns at once if `BuildClient`
fails; that is in `Poller` and not here, since `Connection.Validate`, which the
API and the import call before every write, refuses the same settings. Within
one pass the devices come in any order; a failed read takes the same steps as a
good one, since both emit readings.

The read itself is one step here; what happens in it is `Poller`.

### MqttAdapter

`conn` is paho's status. Losing or making a connection queues a callback
(`lostCalls`, `connectCalls`), which runs at any later time, so the two kinds
may overtake each other. `OnConnect` starts a subscriber, counted in
`subscribers` by the attempt it is at. `WatchdogStep` is one pass of
`checkAndForceReconnect`, split where it reads or writes shared state: the
check, the read of `disconnectedAt`, the forced Connect, the second check and
the late write. `Stall` is the incident the watchdog was written for. Send has
three places to be; `handleAck` is the lookup under the lock and the channel
send after it, so both may fall on either side of Send's return. `down`,
`failsHere` and `overtaken` are history variables.

### BlockPlan and Poller

A byte is named by the register and half it comes from, so that a value shows
where it was cut out of. All sums of addresses are taken modulo `W`, as uint16
does. `Orders` are the orders in which the planner may come by the points: map
order of function codes and ties of the sort are left open, registers come
sorted, bits as they are listed. `Merge` is one turn of the planner's loop.
`Poller` takes an order when a device's turn comes, plans one point per step
and then reads one block per step; planning in steps needs no recursion, which
is what makes it provable. `Dedicated` and `FewestRequests` are the references.
When a block is read, the device may answer, refuse it (a register it lacks, or
one beyond the range) or fail. A context that is done turns any failure INVALID,
and is looked at only between devices and waits.

### Settings, TimeService, GatewayProcess

One field stands for each way `saveSettings` and `Load` treat a field. Each
assignment to the shared configuration is a step, and so is each field
`yaml.Marshal` reads, and the truncation of `config.yaml`. The write is one
step or two: `WritePart` leaves some part of the text, which may lack fields,
end in the middle of a value or not parse, and a crash or a full disk may keep
it so. A file is the record its text stands for. `Load` expands `$` in that
text before it parses it; `Expansion` says of each value with a `$` what its
expanded text is read as, `Unparsable` included, and `Loads` whether the whole
parses. `Load` then fills in defaults and yields to the environment. `whole`
(the last write finished a save), `cutShort`, `overlap`, `want` and `loaded`
are history variables. An expanded value with line breaks, which could change
other fields, and a power failure that loses written pages are not modelled;
the mix two overlapping saves leave is either of their texts or `Garbled`.

The Time Service's steps are `syncOnce`'s: read the hardware clock, query,
publish, write. Clocks are given by their distance from true time; the exchange
keeps the two delays and the wrapping of NTP seconds, and the offset is the
Mills formula with Go's division (not the limit of a Duration, some 290 years,
in the intermediate sum). Setting the hardware clock fails without a device,
for a time before 1970, which Linux refuses, and at any time on a faulty one;
the error changes nothing.

### ConfigImport

Every SQL statement is a step. A row is its id, a revision standing for its
settings, and its parent's id. `NewId` gives ids as the schema does: connection
and datapoint are AUTOINCREMENT, device lost it in migration 0004. The file is
the exported rows in order: connections, then each device followed by its
points. Import takes a row at a time through Get, Update or Create, with
`connIDMap` and the errors that skip a device's points. Another request may
commit edits between any two statements; deleting a connection is the count
and then the delete, adding a point the lookup and then the insert. `clean`,
`clash`, `newer` and `home` are history variables the properties are stated
with.

## Runs

| Run | Instance | Shows |
|---|---|---|
| `store_forward_safety` | 2 readings (CRITICAL / no priority), batch 2, 3 faults of any kind, eviction, retention; 1.9 M states | TypeOK, SentIsStored, KeyIdentifiesReading, NothingLost, ImplementsDelivery |
| `store_forward_liveness` | 3 readings of one priority, 2 faults, no database errors, disk not full, fairness | NoOrphanSending, OvertakenOnlyByBackoff, BacklogDrains |
| `store_forward_evicted` | violation | eviction of a row in flight strands its batch in SENDING |
| `netconfig` | 2 clients, 2 calls, nmcli failures, restarts, requests and reverts in any order; fairness; 49 k states | TypeOK, ConfirmCancels, PendingSeesArmed, RevertRestores, UnconfirmedEnds |
| `netconfig_confirm` | violation (3 calls) | a late Confirm returns success and the revert goes on |
| `acquisition` | 2 connections, 2 devices, 2 requests, 2 edits, failing queries; symmetry in all three | TypeOK, FreshReloadInSync, LivePollersAreRunning |
| `acquisition_in_sync` | violation | overlapping reloads leave an enabled connection without a poller |
| `mqtt_adapter` | 2 losses, a stall and 3 refused subscriptions, or 2 batches (one rejected, 2 copies of each ack) and a loss; fairness; 171 k states | TypeOK, AgeIsHonest, OkMeansAccepted, StallRecovers, AckTopicSubscribed, LoneAckNeverBlocks |
| `poller` | 16 addresses, 6 registers to a block, gaps of 1: all pairs of points, triples, and two devices with faults; fairness | TypeOK, OneReadingPerPoint, AsDedicatedBelowTop, PlanIsLegalAndSmallest, CancelledReturns, NoDeviceStarves |
| `settings` | 2 saves, written in parts, with a crash or a write error; or 1 save, an outage and the Time Service with a good, faulty or absent hardware clock; fairness; 1.1 M states | TypeOK, AcceptedTakesEffect, IdentityKept, GarbledOnlyByTear, RTCDisciplined, QualityFollowsServer |
| `config_import` | 2 configurations, 2 edits, 1 failing statement, hand edits, new hardware; 1.8 M states | TypeOK, ReferencesHold, ImportRestores, ClashesOnlyByReuse, KeepsNewerRows |
| `config_import_restore` | violation | restoring onto an empty gateway loses a point |

Each property of a passing run has a mutant: a plausible bug in a modelled
operation under which TLC finds that property violated.

### Bounds

`MaxSeq`, `MaxFaults`, `MaxApplies` and `MaxEdits` bound histories. Two
readings and a batch of two give full and partial batches, partial ingests, a
row evicted out of a batch, and a key that could be used twice; three faults
allow a late ack of one batch during the retry, after a crash. Order needs
three readings of one priority. Two network calls let one replace the other, or
be armed while the other's revert runs; the first three properties were also
checked with three calls and no nmcli failures (2.5 M states), and are proved
for any number. Two static configurations differ in address and DNS servers,
one without any. Two edits are the least with which two reloads overlap.
Initial settings in `MCAcquisition` are fixed because settings are only
compared; edits disable and change them.

`Budgets` (MQTT) and `Mixes` (settings) bound what may happen together, in
mixes that keep the parts which do not touch apart. Two losses are the least
with which a callback is overtaken by a later loss, three refusals the least
with which a subscriber gives up, two batches with two copies of each ack let a
late and a repeated ack meet the next Send. `StuckAfter` = 2 tells fresh,
waiting and stuck apart. With `W` = 16, `MaxRegisters` = 6 and `MaxGap` = 1 a
block can be full, a gap too wide, and a sum can wrap; the planner compares
addresses only with these bounds, and a point is 1, 2 or 4 registers as in the
code. `Era` = 100 and `Epoch` = 51 with queries at 60, 110 and 170 put one
query before the wrap, one after it that is read as before 1970, and one that
is read as after. Two saves are the least that overlap; the submitted passwords
have no `$`, one that expands, and one that breaks the text. A configuration is
exported once and imported once, and others edit only from the export to the
end of the import: earlier edits are initial tables. Two edits delete a row and
add another in its place; three points on two devices are the least that is out
of order.

The theorems below do away with these bounds for the safety properties.

### Fairness

`StoreForward`: systemd restarts the process, the forwarder's ticker fires,
Send times out when no ack can come any more, the broker delivers what it does
not lose, the consumer finishes its handler, time passes. Nothing is assumed of
pollers, sweepers or faults, and faults are finite in number: with endless
failures nothing drains. `NetConfig`: started requests and reverts finish, an
armed timer fires. `MqttAdapter`: goroutines run on, time passes, and a broker
paho keeps trying is reachable again some day; nothing is assumed of Send, of
the server, or of the broker once auto-reconnect has stalled. `Poller`: its
steps end (Modbus operations have timeouts, waits are finite); nothing is
assumed of Reload. `GatewayProcess`: the supervisor restarts the process, the
goroutine that exits it runs, and so does the Time Service; nothing is assumed
of requests, and a config.yaml that does not parse keeps the process down.
`Acquisition` and `ConfigImport` are checked for safety only.

`CHECK_DEADLOCK FALSE` is used for all but `StoreForward`: their bounded
histories end (a poller also returns when it is cancelled). `StoreForward`
never stops, since the forwarder polls.

## Proofs

Each theorem holds for every value of the constants that satisfies the named
assumption of its module (`ConstantsAssumption`, `NetAssumption`, ...), which
TLC evaluates on each run; a theorem with a further hypothesis states it in an
`ASSUME` of its own. The invariants were also checked with
TLC on the module's instance, but for conjuncts over all sequences of rows or
all numbers.

| Module | Theorem | Property | Hypothesis |
|---|---|---|---|
| `StoreForwardProofs` | `TypeCorrect` | `TypeOK` | |
| | `SentMeansStored` | `SentIsStored` | |
| | `KeysIdentify` | `KeyIdentifiesReading` | |
| | `NoReadingLost` | `NothingLost` | |
| | `Implements` | `ImplementsDelivery` | |
| `StoreForwardOrderProofs` | `NoOrphans` | `NoOrphanSending` | `Undisturbed` |
| | `OnlyBackoffOvertakes` | `OvertakenOnlyByBackoff` | `Undisturbed` |
| `MqttAdapterProofs` | `TypeCorrect` | `TypeOK` | |
| | `AgeHonest` | `AgeIsHonest` | |
| | `OkAccepted` | `OkMeansAccepted` | |
| | `LoneAckRoom` | safety behind `LoneAckNeverBlocks` | |
| `NetConfigProofs` | `TypeCorrect` | `TypeOK` | |
| | `ConfirmFinal` | `ConfirmCancels` | |
| | `ArmedPending` | `PendingSeesArmed` | |
| | `RevertsRestore` | `RevertRestores` | |
| | `EndsAreFinal` | `EndIsFinal` (in the proofs) | |
| `AcquisitionProofs` | `TypeCorrect` | `TypeOK` | |
| | `LivePollers` | `LivePollersAreRunning` | |
| | `FreshInSync` | `FreshReloadInSync` | |
| `PollerProofs` | `TypeCorrect` | `TypeOK` | |
| | `OneReading` | `OneReadingPerPoint` | |
| | `AsDedicated` | `AsDedicatedBelowTop` | |
| | `PlanLegalSmallest` | `PlanIsLegalAndSmallest` | |
| `GatewayProcessProofs` | `TypeCorrect` | `TypeOK` | |
| | `RTCRight` | `RTCDisciplined` | |
| | `GarbledByTear` | `GarbledOnlyByTear` | |
| | `IdentityStays` | `IdentityKept` | |
| | `SaveTakesEffect` | `AcceptedTakesEffect` | |
| `ConfigImportProofs` | `TypeCorrect` | `TypeOK` | |
| | `ReferencesStay` | `ReferencesHold` | |
| | `ClashesByReuse` | `ClashesOnlyByReuse` | |
| | `NewerRowsKept` | `KeepsNewerRows` | |
| | `Restores` | `ImportRestores` | |

### Store and forward

`SentIsStored` is not inductive: an ack that waits on the network must already
mean that the whole batch is stored. `IndInv` adds

- `KeysInv`: acquired keys are positive, at most `lastSequence`, and unique;
- `CopiesInv`: rows, the batch, messages, the handler and the server's table
  hold copies of acquired entries only;
- `IdsInv`: batch ids in flight are at most the current one, and the message
  with the current id carries the current batch as long as Send waits;
- `AckInv`: an ack of the current batch, or a Send it ended, means all its
  entries are stored, and what the handler has worked off is stored.

Each action preserves `IndInv`; most by the lemma `QueuePart` (steps that keep
keys and payloads), the rest case by case. Refinement maps `held` to the
entries of the rows: `Insert` is Accept, `IngestEntry` is Deliver or a stutter,
the deletions are Forget, everything else stutters.

`Undisturbed` (no database error that is only logged, no eviction) is needed
for the other two: the code breaks both otherwise (finding 1 for eviction; a
`MarkFailed` or recovery that fails leaves SENDING rows behind until the next
start). `HandsInv` says that a batch under way consists of SENDING rows of the
table and that nobody else's row is SENDING. `OrderInv` says of the batch, of
every message, of the handler and of the server's table that they pass over no
older reading of the same priority that is not stored, unless its send has
failed. It rests on `OlderSelected`: what FetchBatch selects, whatever the
batch size, is closed downward in the order of dispatch; the proof counts the
rows before a selected one. `WaitInv` ties the wait of a row to a failed send.
Repeated messages keep the order because what is stored stays stored.

### MQTT adapter

`OkMeansAccepted` needs `AcksAccounted`: acks on their way, in callbacks and in
channels together are at most the copies the server has published for the
batch, which covers an ack looked up under the lock and sent after Send has
returned. From it also follows that a lone ack finds room in its channel
(`LoneAckRoom`); that its callback then runs on is liveness. `AgeIsHonest` is
inductive together with the types.

### Network configuration

The three promises are proved of every interleaving, with their exceptions
named in the statement. `CallsInv` says that a request in progress owns its
call's timer, which is unused; so arming never touches a timer that is in use.
`LinkInv`, the first two properties together, is then inductive: a timer comes
to be armed beside `Service.timer` only where a revert clears that field, which
is where it enters `escaped`. `UndoInv` adds `ProfileInv` to `RevertRestores`:
half way through a revert that met no other command the saved profile is what
the revert asked for. `EndsAreFinal`: a timer that was stopped, lost or has
reverted never fires again.

### Acquisition

`ReadInv`: a reload that reads points has read, or still has on its list, those
of every device it will poll. `CleanInv`: what a reload that started after the
last edit has read is what the tables hold; that makes `FreshReloadInSync`
inductive. `LivePollersAreRunning` is inductive with the types and `ReadInv`,
since a reconciliation cancels, starts and records under one lock.

### Poller and block planner

The constants are any with `MaxRegisters` at least 4, the widest point, and
`MaxRegisters + MaxGap + 3` at most `W`: in the code 125 + 8 + 3 and 65536. The
number of points and devices is any. `IndInv` of `PollerProofs` says where a
point is while its device has its turn:

- `TakenInv`: while the plan is made, the points come by so far are those in a
  block; `LeftInv`: while it is read, every point is in a block yet to be read
  or among the readings, never both; `Distinct`: no point is in two places of
  the blocks; `CompleteInv` and `OnceInv`: a finished turn has reported every
  point once;
- `BlockInv`: a block is the read of a single point, or it holds every point
  it serves that ends below the top of the address range, and it has at most
  `MaxRegisters` registers.

`OneReadingPerPoint` follows by counting. `AsDedicatedBelowTop` takes, besides
`BlockInv`, what decoding does with a reply: `HeldDecode` says that a block
which holds a point yields the bytes a read of the point's own would, and
`WrappingDecode` what happens where the sum has wrapped, which is why the point
that ends with the last register is the exception.

That the plan is smallest is a statement about every way to divide the points
among requests, so it needs a reason that speaks of no division. `PlanInv`
supplies it: a block of registers is `Snug` (it ends with one of its points and
has no gap wider than `MaxGap`), so the plan is itself a division; and the
first points of two blocks of a function code are `Apart`: no one request may
cover both, because the second ends too far behind or because more than
`MaxGap` registers between them are used by no point. Each request of a
division therefore covers the first point of at most one block, and `PlanSize`
counts. `PendingInv` and `FarInv` are what the planner relies on when it opens
a block: the pending block is of the same function code, and no earlier block
of the code reaches beyond it. Both steps use that the points come sorted.

### Settings and Time Service

`RTCDisciplined` is arithmetic: in the first era a time stamp on the wire is
the time itself (`WireTime`), and the offset is then off by half the difference
of the delays, rounded by Go's division. `MeasuredInv` carries it from the
query to the write, and that the kernel takes the time, which gives the other
half: a sync sets a clock that works (`SetBySync`). It is proved for any `Era`,
`Epoch`, delays and system clock, queries after 1970, and an exchange that does
not straddle the wrap.
For `GarbledOnlyByTear`, `OverlapInv`: two requests in progress are an overlap,
and only an overlap changes the file between two steps of one that writes it;
`NameInv`: nothing that parses looks like `Garbled`. For `IdentityKept`,
`IdInv`: until a save is cut short every configuration, file and copy of them
has an id somebody gave, but for a file a running process is writing.
For `AcceptedTakesEffect`, `ExpectInv`: what a save with no other beside it is
expected to write is what the configuration holds for the fields assigned and
the request for the others, then what was marshalled; and `EffectInv`: what was
written is in the file, and in force once loaded.

### Configuration import

`IndInv` of `ConfigImportProofs` is nine conjuncts:

- `TablesInv`: ids are positive and not above the AUTOINCREMENT counters, rows
  are well typed, references hold;
- `FileInv`, `FlagsInv`, `PhaseInv`: what is left to import is the end of the
  file; the other request and the history variables are where they can be;
- `AgeInv`: at home no id of a connection or point in the file is above its
  counter, so what is created later is not in the file (`NewerInv`), nor can a
  row the import creates take an id the file still needs;
- `SortInv`: connections and devices are in the file in ascending order of
  their ids; `FreshInv`: so on new hardware, where ids start at 1, the import
  stays ahead of the ids it gives out, for all tables but that of the points,
  which are in the order of their devices;
- `ClashesOnlyByReuse` itself.

That exports are in order rests on `OrderExists`: a finite set of ids has an
ascending enumeration. The library's induction theorems cannot be used for it,
but its least-counterexample form, `WFMin` over `NatLessThanWellFounded`, takes
no operator, and serves for `MinExists`, `MaxInSet` and `OrderExists`. `List`
is therefore defined as the ascending enumeration of a set of ids rather than
with a recursive sort.

`ImportRestores` compares the tables at the end of an import with the whole
file, so its invariant, `RestInv`, follows every row of the file:

- `HomeInv`: on the gateway it was exported from, and until the import begins,
  a point of the file that is still in the tables is below the device it was
  exported with: point ids are not used again, and an update keeps a point's
  device;
- `LandInv`: as long as nobody else edits, no statement fails and no ids clash,
  the rows of the file dealt with so far are in the tables, each with its
  settings and below what its parent became (`LandedOK`); they are different
  rows, and none is named by the rest of the file, so none is overwritten
  (`ApartOK`); `connIDMap` and the device id the import has at hand say where
  parents have landed (`MemoryOK`); and points that are still to come and
  already there are below what their device became or will become (`AheadOK`).
  The last needs an argument for a device that has to be created: by
  `ReferencesHold` nothing is below its old id, so no point of it is found;
- `DoneInv`: the same of the whole file when the import has ended.

`LandsAs` says what a row's Update or Create does, and `LandRest` that it takes
the invariant one row on.

### Only model-checked

- Every liveness property: `BacklogDrains`, `UnconfirmedEnds`,
  `StallRecovers`, `AckTopicSubscribed`, `LoneAckNeverBlocks`,
  `CancelledReturns`, `NoDeviceStarves`, `QualityFollowsServer`. Fairness and
  ENABLED are beyond the prover.
- The runs that expect a violation: what they show is a counterexample.

## Findings

1. Evicting a SENDING row makes `MarkFailed` roll back for its whole batch,
   which stays SENDING until a restart (`store_forward_evicted`).
2. `Confirm` during a running revert reports success (`netconfig_confirm`).
3. Overlapping `Reload`s may leave an outdated configuration running, or an
   enabled connection without a poller (`acquisition_in_sync`).
4. Importing onto an empty gateway may overwrite a point it has just created
   and leave it on the wrong device, without an error
   (`config_import_restore`).

Behaviour that the passing properties state as their exceptions:

- backoff lets newer readings of a priority overtake (`OvertakenOnlyByBackoff`);
  idempotency does not depend on the order: the proofs assume none;
- a change armed while an earlier one's revert runs is not pending when that
  ends, against Pending's comment: it cannot be confirmed and is rolled back
  (`PendingSeesArmed`);
- a restart within the confirm window, which saving settings causes, keeps an
  unconfirmed network change for good, against Service's comment
  (`UnconfirmedEnds`);
- a revert to a configuration without DNS servers keeps those of the change,
  and a revert another nmcli command cuts into may leave a mix
  (`RevertRestores`);
- old and new poller of a connection share the wire until the old one's read
  ends (`CancelledReturns`);
- a point that ends with register 65535 may be merged into a block that does
  not hold it (`AsDedicatedBelowTop`);
- an onConnect that runs after a later loss hides that loss from the watchdog
  (`StallRecovers`); a second copy of an ack may block its callback for ever
  (`LoneAckNeverBlocks`); three refused subscriptions leave the ack topic
  unsubscribed (`AckTopicSubscribed`);
- a refused NTP server leaves the other submitted fields in the shared
  configuration, and a later save with a blank password writes them; the
  environment wins over saved settings, and a `$` in one is expanded
  (`AcceptedTakesEffect`); a crash before `config.yaml` is written to its end
  may start a gateway without an identity or with half of one (`IdentityKept`),
  or leave a text that does not parse (`GarbledOnlyByTear`);
- a saved value whose `$` expands to something YAML refuses (the password
  `$y@p` with `y` unset) leaves a file `Load` rejects: the process does not
  start again, against saveSettings' comment (`Loads`, the guard of `Start`;
  `AcceptedTakesEffect` speaks of processes that start);
- from 2036 on the kernel refuses the time a sync gives the hardware clock, from
  2106 on it is set an era back, against syncOnce's comment (`RTCDisciplined`);
- device ids are used again, so an import may overwrite a newer device
  (`ClashesOnlyByReuse`, `KeepsNewerRows`).

## Not modelled

- HTTP adapter and simulators: development tools. Read-only API handlers,
  status, diagnostics, dashboard and logs: views of counters, each behind one
  mutex. System information: reads the host.
- Test endpoints: they keep no state; what a second client does to frames on a
  bus is not in the code.
- Migrations: one transaction each, run once; what the schema they leave
  enforces is in `ConfigImport`.
- Number formats and scaling of decoded values: one arithmetic expression each.
- paho, goburrow, NetworkManager and SQLite beyond what the code relies on.
- The web UI: forms over the REST API.

## Plan

1. Done: `StoreForward` with its contract and proofs, `NetConfig`,
   `Acquisition`, `MqttAdapter`, `BlockPlan` and `Poller`, `Settings`,
   `TimeService` and `GatewayProcess`, `ConfigImport`.
2. Done: every safety property that a passing run checks is proved. What is
   left to TLC is liveness.
3. If a use for them arises: the test endpoints as actors of `Acquisition`, the
   storage bands (they are only logged), the log ring buffer.

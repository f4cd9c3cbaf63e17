---------------------------- MODULE Acquisition -----------------------------
(***************************************************************************)
(* Live reconfiguration of acquisition: the API handlers that edit         *)
(* connections, devices and data points (gateway/internal/api), the        *)
(* Manager.Reload each of them calls, and the connection pollers Reload    *)
(* cancels and starts (gateway/internal/acquisition).                      *)
(*                                                                         *)
(* Handlers run concurrently.  Reload reads the repositories query by      *)
(* query without a lock and takes the lock only to reconcile.  A deleted   *)
(* connection or device reads like a disabled one; a revision stands for   *)
(* the settings of a connection, or the enabled data points of a device.   *)
(***************************************************************************)
EXTENDS Naturals

CONSTANTS
  Conns, Devices,  \* ids
  Revs,            \* the settings an edit may choose from
  Requests,        \* concurrent API requests
  MaxEdits,        \* bound: how many edits are committed
  QueriesFail      \* TRUE iff a query of Reload may fail

ASSUME AcquisitionAssumption ==
  Revs # {} /\ Conns # {} /\ MaxEdits \in Nat /\ QueriesFail \in BOOLEAN

VARIABLES
  conns,    \* table connection: id -> settings
  devices,  \* table device: id -> settings
  points,   \* table datapoint: device -> its enabled data points
  edits,    \* edits so far
  req,      \* per request: how far it got and what its Reload has read
  running,  \* Manager.running: connection -> what its poller was started with
  reloads,  \* reconciliations so far: they number the pollers
  pollers,  \* the poller goroutines that have not returned
  fresh     \* history: the last reconciliation read every edit

tables == <<conns, devices, points>>
vars == <<tables, edits, req, running, reloads, pollers, fresh>>

Connection == [enabled : BOOLEAN, rev : Revs]
Device     == [conn : Conns, enabled : BOOLEAN]

\* What a poller is started with: its connection and its devices' points.
Setup == [conn : Connection, points : UNION {[D -> Revs] : D \in SUBSET Devices}]

Poller == [setup : Setup, pc : {"connect", "offline", "scan", "read"},
           cancelled : BOOLEAN, left : SUBSET Devices]

\* Functions from part of S to T.
Partial(S, T) == UNION {[D -> T] : D \in SUBSET S}

TypeOK ==
  /\ conns \in [Conns -> Connection]
  /\ devices \in [Devices -> Device]
  /\ points \in [Devices -> Revs]
  /\ edits \in 0..MaxEdits /\ reloads \in Nat /\ fresh \in BOOLEAN
  /\ req \in [Requests -> [pc : {"idle", "edit", "devices", "conns", "points"},
                           clean : BOOLEAN, todo : SUBSET Devices,
                           devices : Partial(Devices, Conns),
                           conns : Partial(Conns, Connection),
                           points : Partial(Devices, Revs)]]
  /\ DOMAIN running \subseteq Conns
  /\ \A c \in DOMAIN running : running[c].setup \in Setup /\ running[c].id \in 0..reloads
  /\ DOMAIN pollers \subseteq (0..reloads) \X Conns
  /\ \A p \in DOMAIN pollers : /\ pollers[p] \in Poller
                                /\ pollers[p].left \subseteq DOMAIN pollers[p].setup.points

-----------------------------------------------------------------------------
\* A table without rows.
Empty == [x \in {} |-> {}]

\* Reload's `wanted`: the enabled devices ds (device -> connection), as far as
\* their connection is among the enabled ones cs, grouped by connection.
Wanted(ds, cs, ps) ==
  LET polled == {d \in DOMAIN ds : ds[d] \in DOMAIN cs}
  IN  [c \in {ds[d] : d \in polled} |->
         [conn |-> cs[c], points |-> [d \in {x \in polled : ds[x] = c} |-> ps[d]]]]

\* deviceRepo.ListEnabled and connRepo.ListEnabled
EnabledDevices == [d \in {x \in Devices : devices[x].enabled} |-> devices[d].conn]
EnabledConns   == [c \in {x \in Conns : conns[x].enabled} |-> conns[c]]

\* What the tables ask for now.
WantedNow == Wanted(EnabledDevices, EnabledConns, points)

NewPoller(setup) ==
  [setup |-> setup, pc |-> "connect", cancelled |-> FALSE, left |-> {}]

NoRequest == [pc |-> "idle", clean |-> FALSE, todo |-> {},
              devices |-> Empty, conns |-> Empty, points |-> Empty]

\* The API server starts to listen: main's own Reload has succeeded, or has
\* failed, which is only logged.
Init ==
  /\ conns \in [Conns -> Connection]
  /\ devices \in [Devices -> Device]
  /\ points \in [Devices -> Revs]
  /\ edits = 0 /\ reloads = 0
  /\ req = [r \in Requests |-> NoRequest]
  /\ fresh \in BOOLEAN
  /\ running = IF fresh THEN [c \in DOMAIN WantedNow |-> [setup |-> WantedNow[c], id |-> 0]]
               ELSE Empty
  /\ pollers = [p \in {0} \X DOMAIN running |-> NewPoller(running[p[2]].setup)]

-----------------------------------------------------------------------------
(* The API handlers.                                                       *)

\* A row is written.  A handler goes on to reload; importConfig may write more
\* rows first.
Commit(r) ==
  /\ req[r].pc \in {"idle", "edit"} /\ edits < MaxEdits
  /\ edits' = edits + 1
  /\ \E pc \in {"edit", "devices"} :
       req' = [q \in Requests |-> IF q = r THEN [NoRequest EXCEPT !.pc = pc, !.clean = TRUE]
                                  ELSE [req[q] EXCEPT !.clean = FALSE]]
  /\ fresh' = FALSE
  /\ UNCHANGED <<running, reloads, pollers>>

UpdateConnection(r, c, new) ==
  Commit(r) /\ conns' = [conns EXCEPT ![c] = new] /\ UNCHANGED <<devices, points>>

UpdateDevice(r, d, new) ==
  Commit(r) /\ devices' = [devices EXCEPT ![d] = new] /\ UNCHANGED <<conns, points>>

UpdateDataPoints(r, d, new) ==
  Commit(r) /\ points' = [points EXCEPT ![d] = new] /\ UNCHANGED <<conns, devices>>

\* importConfig has written its last row.
ImportDone(r) ==
  /\ req[r].pc = "edit"
  /\ req' = [req EXCEPT ![r].pc = "devices"]
  /\ UNCHANGED <<tables, edits, running, reloads, pollers, fresh>>

-----------------------------------------------------------------------------
(* Manager.Reload: three kinds of query, then the reconciliation.          *)

ListDevices(r) ==
  /\ req[r].pc = "devices"
  /\ req' = [req EXCEPT ![r].pc = "conns", ![r].devices = EnabledDevices]
  /\ UNCHANGED <<tables, edits, running, reloads, pollers, fresh>>

ListConns(r) ==
  /\ req[r].pc = "conns"
  /\ req' = [req EXCEPT ![r].pc = "points", ![r].conns = EnabledConns,
                        ![r].todo = {d \in DOMAIN req[r].devices :
                                       req[r].devices[d] \in DOMAIN EnabledConns}]
  /\ UNCHANGED <<tables, edits, running, reloads, pollers, fresh>>

\* ListEnabledByDevice, one query per device.
ListPoints(r, d) ==
  /\ req[r].pc = "points" /\ d \in req[r].todo
  /\ req' = [req EXCEPT ![r].todo = @ \ {d},
                        ![r].points = [x \in DOMAIN @ \cup {d} |->
                                         IF x = d THEN points[d] ELSE @[x]]]
  /\ UNCHANGED <<tables, edits, running, reloads, pollers, fresh>>

\* A query fails, or the client went away and r.Context() is cancelled: the
\* error is logged, the edit stays.
ReloadError(r) ==
  /\ QueriesFail /\ req[r].pc \in {"devices", "conns", "points"}
  /\ req' = [req EXCEPT ![r] = NoRequest]
  /\ UNCHANGED <<tables, edits, running, reloads, pollers, fresh>>

\* Mutant: only the connection's own row is compared.
SameConnection(c, wanted) ==
  c \in DOMAIN wanted /\ running[c].setup.conn = wanted[c].conn

\* reflect.DeepEqual of the connection and of its devices with their points
Unchanged(c, wanted) == c \in DOMAIN wanted /\ running[c].setup = wanted[c]

\* Mutant: entries leave the map, their pollers are not cancelled.
ForgetRunning(stopped) == pollers

\* rc.cancel() for every entry that goes
Cancel(stopped) ==
  [p \in DOMAIN pollers |->
     IF p[2] \in stopped /\ running[p[2]].id = p[1]
     THEN [pollers[p] EXCEPT !.cancelled = TRUE] ELSE pollers[p]]

\* Under the lock: cancel what is not wanted any more or changed, start what
\* is wanted and not running.
Reconcile(r) ==
  /\ req[r].pc = "points" /\ req[r].todo = {}
  /\ LET wanted  == Wanted(req[r].devices, req[r].conns, req[r].points)
         stopped == {c \in DOMAIN running : ~ Unchanged(c, wanted)}
         started == DOMAIN wanted \ (DOMAIN running \ stopped)
         old     == Cancel(stopped)
         new     == {reloads + 1} \X started
     IN  /\ running' = [c \in DOMAIN wanted |->
                          IF c \in started THEN [setup |-> wanted[c], id |-> reloads + 1]
                          ELSE running[c]]
         /\ pollers' = [p \in DOMAIN old \cup new |->
                          IF p \in new THEN NewPoller(wanted[p[2]]) ELSE old[p]]
  /\ reloads' = reloads + 1
  /\ fresh' = req[r].clean
  /\ req' = [req EXCEPT ![r] = NoRequest]
  /\ UNCHANGED <<tables, edits>>

-----------------------------------------------------------------------------
(* Poller.runConnectionWithClient                                          *)

\* client.Close() and return
Return(p) == pollers' = [q \in DOMAIN pollers \ {p} |-> pollers[q]]

GoTo(p, pc) == pollers' = [pollers EXCEPT ![p].pc = pc]

\* ctx.Err() # nil at the head of a loop, or wait is cut short.
Stop(p) ==
  /\ pollers[p].cancelled /\ pollers[p].pc # "read"
  /\ Return(p)
  /\ UNCHANGED <<tables, edits, req, running, reloads, fresh>>

\* client.Connect(): a failure reports every device offline and waits.
Connect(p) ==
  /\ ~ pollers[p].cancelled /\ pollers[p].pc = "connect"
  /\ \/ pollers' = [pollers EXCEPT ![p].pc = "scan",
                                   ![p].left = DOMAIN pollers[p].setup.points]
     \/ GoTo(p, "offline")
  /\ UNCHANGED <<tables, edits, req, running, reloads, fresh>>

\* reconnectFloorDelay has passed.
Retry(p) ==
  /\ ~ pollers[p].cancelled /\ pollers[p].pc = "offline"
  /\ GoTo(p, "connect")
  /\ UNCHANGED <<tables, edits, req, running, reloads, fresh>>

\* SetUnitID and the first block read of a device: from here on the poller is
\* on the wire, and its client does not look at ctx.
ReadDevice(p) ==
  /\ ~ pollers[p].cancelled /\ pollers[p].pc = "scan" /\ pollers[p].left # {}
  /\ GoTo(p, "read")
  /\ UNCHANGED <<tables, edits, req, running, reloads, fresh>>

\* The device's last block was read, or failed: readings are emitted for all
\* its points, and the next device's turn comes.
ReadDone(p) ==
  /\ pollers[p].pc = "read"
  /\ \E d \in pollers[p].left :
       pollers' = [pollers EXCEPT ![p].pc = "scan", ![p].left = @ \ {d}]
  /\ UNCHANGED <<tables, edits, req, running, reloads, fresh>>

\* Mutant: the next round takes in the devices of other connections.
NextRoundOfAll(p) ==
  /\ ~ pollers[p].cancelled /\ pollers[p].pc = "scan" /\ pollers[p].left = {}
  /\ pollers' = [pollers EXCEPT ![p].left = Devices]
  /\ UNCHANGED <<tables, edits, req, running, reloads, fresh>>

\* cycleYieldDelay after a round, then the next one.
NextRound(p) ==
  /\ ~ pollers[p].cancelled /\ pollers[p].pc = "scan" /\ pollers[p].left = {}
  /\ pollers' = [pollers EXCEPT ![p].left = DOMAIN pollers[p].setup.points]
  /\ UNCHANGED <<tables, edits, req, running, reloads, fresh>>

\* BuildClient, before all this, fails only for settings Connection.Validate
\* refuses (no address, no interface, an unknown protocol); the API validates a
\* connection whenever it writes one.  Module Poller has that return.
PollerStep(p) == \/ Stop(p) \/ Connect(p) \/ Retry(p)
                 \/ ReadDevice(p) \/ ReadDone(p) \/ NextRound(p)

-----------------------------------------------------------------------------
Next ==
  \/ \E r \in Requests :
       \/ \E c \in Conns, new \in Connection : UpdateConnection(r, c, new)
       \/ \E d \in Devices, new \in Device : UpdateDevice(r, d, new)
       \/ \E d \in Devices, new \in Revs : UpdateDataPoints(r, d, new)
       \/ ImportDone(r) \/ ListDevices(r) \/ ListConns(r)
       \/ \E d \in Devices : ListPoints(r, d)
       \/ ReloadError(r) \/ Reconcile(r)
  \/ \E p \in DOMAIN pollers : PollerStep(p)

Spec == Init /\ [][Next]_vars

-----------------------------------------------------------------------------
\* A Reload that started after the last committed edit leaves exactly the
\* configured pollers running, whatever older Reloads, failed Reloads or torn
\* reads went before: it compares with what runs, not with what was read.
FreshReloadInSync ==
  fresh => /\ DOMAIN running = DOMAIN WantedNow
           /\ \A c \in DOMAIN running : running[c].setup = WantedNow[c]

\* Reload "starts, stops, or restarts connection pollers so the running set
\* matches configuration" (manager.go): once every request has reloaded, what
\* runs is what the tables ask for (where no query fails).
InSync ==
  edits > 0 /\ (\A r \in Requests : req[r].pc = "idle") =>
    [c \in DOMAIN running |-> running[c].setup] = WantedNow

\* The pollers that go on are those of Manager.running, one per connection
\* and with the settings recorded there; all others have been told to stop.
LivePollersAreRunning ==
  /\ \A p \in DOMAIN pollers :
       ~ pollers[p].cancelled <=> p[2] \in DOMAIN running /\ running[p[2]].id = p[1]
  /\ \A c \in DOMAIN running :
       LET p == <<running[c].id, c>>
       IN  p \in DOMAIN pollers /\ pollers[p].setup = running[c].setup
=============================================================================

-------------------------- MODULE AcquisitionProofs --------------------------
(***************************************************************************)
(* Proofs about Acquisition, for any connections, devices, settings and    *)
(* number of concurrent requests: what Reload leaves running, however the  *)
(* edits, queries and reconciliations of several requests interleave.      *)
(***************************************************************************)
EXTENDS Acquisition, TLAPS

Request == [pc : {"idle", "edit", "devices", "conns", "points"},
            clean : BOOLEAN, todo : SUBSET Devices,
            devices : Partial(Devices, Conns),
            conns : Partial(Conns, Connection),
            points : Partial(Devices, Revs)]

TablesOK ==
  conns \in [Conns -> Connection] /\ devices \in [Devices -> Device] /\ points \in [Devices -> Revs]

\* The parts of TypeOK about what runs.
RunningOK ==
  /\ DOMAIN running \subseteq Conns
  /\ \A c \in DOMAIN running : running[c].setup \in Setup /\ running[c].id \in 0..reloads

PollersOK ==
  /\ DOMAIN pollers \subseteq (0..reloads) \X Conns
  /\ \A p \in DOMAIN pollers : /\ pollers[p] \in Poller
                                /\ pollers[p].left \subseteq DOMAIN pollers[p].setup.points

\* The devices whose points a Reload has to read.
Polled(r) == {d \in DOMAIN req[r].devices : req[r].devices[d] \in DOMAIN req[r].conns}

\* A Reload that reads points has read, or will read, those of every device
\* it goes on to poll.
ReadInv ==
  \A r \in Requests : req[r].pc = "points" => Polled(r) \subseteq req[r].todo \cup DOMAIN req[r].points

\* A Reload that started after the last edit has read what the tables hold.
CleanInv ==
  \A r \in Requests : req[r].clean =>
    /\ req[r].pc \in {"conns", "points"} => req[r].devices = EnabledDevices
    /\ req[r].pc = "points" =>
         /\ req[r].conns = EnabledConns
         /\ \A d \in Polled(r) \ req[r].todo : req[r].points[d] = points[d]

-----------------------------------------------------------------------------
(* Partial functions and Wanted.                                           *)

\* A partial function is a function from some of the set.
LEMMA PartialIff ==
  ASSUME NEW S, NEW T, NEW f
  PROVE  f \in Partial(S, T) <=> DOMAIN f \subseteq S /\ f \in [DOMAIN f -> T]
BY DEF Partial

\* Setup spells the same out for the points of a poller.
LEMMA SetupIff ==
  ASSUME NEW c \in Connection, NEW f \in Partial(Devices, Revs)
  PROVE  [conn |-> c, points |-> f] \in Setup
BY DEF Partial, Setup

\* What Reload wants running from enabled devices ds and connections cs, and
\* points ps of at least the devices it polls.
LEMMA WantedType ==
  ASSUME NEW ds \in Partial(Devices, Conns), NEW cs \in Partial(Conns, Connection), NEW ps,
         \A d \in DOMAIN ds : ds[d] \in DOMAIN cs => ps[d] \in Revs
  PROVE  /\ DOMAIN Wanted(ds, cs, ps) \subseteq Conns
         /\ \A c \in DOMAIN Wanted(ds, cs, ps) : Wanted(ds, cs, ps)[c] \in Setup
<1> DEFINE polled == {d \in DOMAIN ds : ds[d] \in DOMAIN cs}
           pts(c) == [d \in {x \in polled : ds[x] = c} |-> ps[d]]
<1>0. /\ DOMAIN ds \subseteq Devices /\ ds \in [DOMAIN ds -> Conns]
      /\ DOMAIN cs \subseteq Conns /\ cs \in [DOMAIN cs -> Connection]
  BY PartialIff
<1>1. DOMAIN Wanted(ds, cs, ps) = {ds[d] : d \in polled}
  BY DEF Wanted
<1>2. {ds[d] : d \in polled} \subseteq DOMAIN cs
  OBVIOUS
<1>3. ASSUME NEW c \in {ds[d] : d \in polled} PROVE Wanted(ds, cs, ps)[c] \in Setup
  <2>1. Wanted(ds, cs, ps)[c] = [conn |-> cs[c], points |-> pts(c)]
    BY DEF Wanted
  <2>2. pts(c) \in Partial(Devices, Revs)
    <3>1. DOMAIN pts(c) \subseteq Devices /\ pts(c) \in [DOMAIN pts(c) -> Revs]
      BY <1>0
    <3> HIDE DEF pts
    <3> QED BY <3>1, PartialIff
  <2>3. cs[c] \in Connection
    BY <1>0, <1>2
  <2> QED BY <2>1, <2>2, <2>3, SetupIff
<1> QED BY <1>0, <1>1, <1>2, <1>3

\* Wanted looks at the points of the devices it polls only.
LEMMA WantedSame ==
  ASSUME NEW ds, NEW cs, NEW ps, NEW qs,
         \A d \in DOMAIN ds : ds[d] \in DOMAIN cs => ps[d] = qs[d]
  PROVE  Wanted(ds, cs, ps) = Wanted(ds, cs, qs)
BY DEF Wanted

\* The enabled rows are partial functions.
LEMMA EnabledType ==
  ASSUME TablesOK
  PROVE  EnabledDevices \in Partial(Devices, Conns) /\ EnabledConns \in Partial(Conns, Connection)
<1>1. /\ DOMAIN EnabledDevices \subseteq Devices
      /\ EnabledDevices \in [DOMAIN EnabledDevices -> Conns]
  BY DEF TablesOK, EnabledDevices, Device
<1>2. /\ DOMAIN EnabledConns \subseteq Conns
      /\ EnabledConns \in [DOMAIN EnabledConns -> Connection]
  BY DEF TablesOK, EnabledConns
<1> QED BY <1>1, <1>2, PartialIff

\* What the tables ask for can be run.
LEMMA WantedNowType ==
  ASSUME TablesOK
  PROVE  DOMAIN WantedNow \subseteq Conns /\ \A c \in DOMAIN WantedNow : WantedNow[c] \in Setup
<1>1. \A d \in DOMAIN EnabledDevices : points[d] \in Revs
  BY DEF TablesOK, EnabledDevices
<1> QED BY <1>1, EnabledType, WantedType DEF WantedNow

-----------------------------------------------------------------------------
(* Type correctness.                                                       *)

\* TypeOK by its parts.
LEMMA TypeParts ==
  TypeOK <=> /\ TablesOK /\ RunningOK /\ PollersOK /\ req \in [Requests -> Request]
             /\ edits \in 0..MaxEdits /\ reloads \in Nat /\ fresh \in BOOLEAN
BY DEF TypeOK, TablesOK, RunningOK, PollersOK, Request

\* A request that reads nothing yet.
LEMMA NoRequestType == NoRequest \in Request
<1>1. \A S, T : Empty \in Partial(S, T)
  <2> SUFFICES ASSUME NEW S, NEW T PROVE Empty \in Partial(S, T)
    OBVIOUS
  <2>1. DOMAIN Empty \subseteq S /\ Empty \in [DOMAIN Empty -> T]
    BY DEF Empty
  <2> QED BY <2>1, PartialIff
<1> QED BY <1>1 DEF NoRequest, Request

\* A fresh poller has no device left to read.
LEMMA NewPollerType ==
  ASSUME NEW s \in Setup
  PROVE  NewPoller(s) \in Poller /\ NewPoller(s).left = {} /\ NewPoller(s).setup = s
         /\ ~ NewPoller(s).cancelled
BY DEF NewPoller, Poller

\* What Reconcile starts with, once the points of all its devices are read.
LEMMA ReconcileWanted ==
  ASSUME TypeOK, ReadInv, NEW r \in Requests, req[r].pc = "points", req[r].todo = {}
  PROVE  LET w == Wanted(req[r].devices, req[r].conns, req[r].points)
         IN  DOMAIN w \subseteq Conns /\ \A c \in DOMAIN w : w[c] \in Setup
<1>1. /\ req[r].devices \in Partial(Devices, Conns) /\ req[r].conns \in Partial(Conns, Connection)
      /\ req[r].points \in Partial(Devices, Revs)
  BY TypeParts DEF Request
<1>2. req[r].points \in [DOMAIN req[r].points -> Revs]
  BY <1>1, PartialIff
<1>3. Polled(r) \subseteq DOMAIN req[r].points
  BY DEF ReadInv
<1>4. \A d \in DOMAIN req[r].devices :
        req[r].devices[d] \in DOMAIN req[r].conns => req[r].points[d] \in Revs
  BY <1>2, <1>3 DEF Polled
<1> HIDE DEF Polled
<1> QED BY <1>1, <1>4, WantedType

\* Requests stay requests.
LEMMA RequestsInductive == TypeOK /\ [Next]_vars => req' \in [Requests -> Request]
<1> SUFFICES ASSUME TypeOK, [Next]_vars PROVE req' \in [Requests -> Request]
  OBVIOUS
<1>a. req \in [Requests -> Request] /\ TablesOK /\ \A r \in Requests : req[r] \in Request
  BY TypeParts
<1>0. CASE UNCHANGED vars
  BY <1>0, <1>a DEF vars
<1>1. ASSUME NEW r \in Requests, Commit(r) PROVE req' \in [Requests -> Request]
  <2>1. \A pc \in {"edit", "devices"} : [NoRequest EXCEPT !.pc = pc, !.clean = TRUE] \in Request
    BY NoRequestType DEF Request
  <2>2. \A q \in Requests : [req[q] EXCEPT !.clean = FALSE] \in Request
    BY <1>a DEF Request
  <2> QED BY <1>1, <2>1, <2>2 DEF Commit
<1>2. ASSUME NEW r \in Requests, ImportDone(r) PROVE req' \in [Requests -> Request]
  BY <1>2, <1>a DEF ImportDone, Request
<1>3. ASSUME NEW r \in Requests, ListDevices(r) PROVE req' \in [Requests -> Request]
  BY <1>3, <1>a, EnabledType DEF ListDevices, Request
<1>4. ASSUME NEW r \in Requests, ListConns(r) PROVE req' \in [Requests -> Request]
  <2>1. DOMAIN req[r].devices \subseteq Devices
    BY <1>a, PartialIff DEF Request
  <2> QED BY <1>4, <1>a, <2>1, EnabledType DEF ListConns, Request
<1>5. ASSUME NEW r \in Requests, NEW d \in Devices, ListPoints(r, d)
      PROVE  req' \in [Requests -> Request]
  <2> DEFINE old == req[r].points
             new == [x \in DOMAIN old \cup {d} |-> IF x = d THEN points[d] ELSE old[x]]
  <2>1. DOMAIN old \subseteq Devices /\ old \in [DOMAIN old -> Revs]
    BY <1>a, PartialIff DEF Request
  <2>2. DOMAIN new \subseteq Devices /\ new \in [DOMAIN new -> Revs]
    BY <1>a, <2>1 DEF TablesOK
  <2>3. new \in Partial(Devices, Revs)
    <3> HIDE DEF new
    <3> QED BY <2>2, PartialIff
  <2>4. req' = [req EXCEPT ![r].todo = req[r].todo \ {d}, ![r].points = new]
    BY <1>5, <1>a DEF ListPoints
  <2> HIDE DEF new
  <2> QED BY <1>a, <2>3, <2>4 DEF Request
<1>6. ASSUME NEW r \in Requests, ReloadError(r) PROVE req' \in [Requests -> Request]
  BY <1>6, <1>a, NoRequestType DEF ReloadError
<1>7. ASSUME NEW r \in Requests, Reconcile(r) PROVE req' \in [Requests -> Request]
  BY <1>7, <1>a, NoRequestType DEF Reconcile
<1>8. ASSUME NEW p \in DOMAIN pollers, PollerStep(p) PROVE req' \in [Requests -> Request]
  BY <1>8, <1>a DEF PollerStep, Stop, Connect, Retry, ReadDevice, ReadDone, NextRound
<1> QED BY <1>0, <1>1, <1>2, <1>3, <1>4, <1>5, <1>6, <1>7, <1>8
        DEF Next, UpdateConnection, UpdateDevice, UpdateDataPoints

\* What a poller does by itself: it moves on, or returns if it was cancelled.
LEMMA PollerStepEffect ==
  ASSUME TypeOK, NEW p \in DOMAIN pollers, PollerStep(p)
  PROVE  /\ UNCHANGED <<tables, edits, req, running, reloads, fresh>>
         /\ DOMAIN pollers' \subseteq DOMAIN pollers
         /\ \A q \in DOMAIN pollers \ DOMAIN pollers' : pollers[q].cancelled
         /\ \A q \in DOMAIN pollers' :
              /\ pollers'[q].cancelled = pollers[q].cancelled
              /\ pollers'[q].setup = pollers[q].setup
              /\ pollers'[q] \in Poller
              /\ pollers'[q].left \subseteq DOMAIN pollers'[q].setup.points
<1>a. \A q \in DOMAIN pollers : /\ pollers[q] \in Poller
                                 /\ pollers[q].left \subseteq DOMAIN pollers[q].setup.points
  BY DEF TypeOK
<1>b. DOMAIN pollers[p].setup.points \subseteq Devices
  <2>1. pollers[p].setup \in Setup
    BY <1>a DEF Poller
  <2> QED BY <2>1 DEF Setup
<1>1. UNCHANGED <<tables, edits, req, running, reloads, fresh>>
  BY DEF PollerStep, Stop, Connect, Retry, ReadDevice, ReadDone, NextRound
<1>2. CASE Stop(p)
  BY <1>a, <1>1, <1>2 DEF Stop, Return
<1>3. CASE Connect(p) \/ Retry(p) \/ ReadDevice(p)
  BY <1>a, <1>b, <1>1, <1>3 DEF Connect, Retry, ReadDevice, GoTo, Poller
<1>4. CASE ReadDone(p)
  BY <1>a, <1>b, <1>1, <1>4 DEF ReadDone, Poller
<1>5. CASE NextRound(p)
  BY <1>a, <1>b, <1>1, <1>5 DEF NextRound, Poller
<1> QED BY <1>2, <1>3, <1>4, <1>5 DEF PollerStep

\* What a reconciliation leaves: the wanted connections run, those that were
\* not running with the wanted setup under a new number and with a new
\* poller; a poller is cancelled iff it was, or its connection's entry goes.
LEMMA ReconcileEffect ==
  ASSUME TypeOK, ReadInv, NEW r \in Requests, Reconcile(r),
         NEW w, w = Wanted(req[r].devices, req[r].conns, req[r].points)
  PROVE  LET kept == {c \in DOMAIN running : c \in DOMAIN w /\ running[c].setup = w[c]}
         IN  /\ DOMAIN running' = DOMAIN w
             /\ DOMAIN w \subseteq Conns /\ \A c \in DOMAIN w : w[c] \in Setup
             /\ \A c \in DOMAIN w : /\ running'[c].setup = w[c]
                                    /\ running'[c].id = IF c \in kept THEN running[c].id
                                                       ELSE reloads + 1
             /\ DOMAIN pollers' = DOMAIN pollers \cup ({reloads + 1} \X (DOMAIN w \ kept))
             /\ \A c \in DOMAIN w \ kept : pollers'[<<reloads + 1, c>>] = NewPoller(w[c])
             /\ \A p \in DOMAIN pollers :
                  pollers'[p] = IF p[2] \in DOMAIN running \ kept /\ running[p[2]].id = p[1]
                                THEN [pollers[p] EXCEPT !.cancelled = TRUE] ELSE pollers[p]
<1> DEFINE kept == {c \in DOMAIN running : c \in DOMAIN w /\ running[c].setup = w[c]}
           stopped == {c \in DOMAIN running : ~ Unchanged(c, w)}
           started == DOMAIN w \ (DOMAIN running \ stopped)
           old == Cancel(stopped)
           new == {reloads + 1} \X started
<1>1. /\ req[r].pc = "points" /\ req[r].todo = {}
      /\ running' = [c \in DOMAIN w |->
                       IF c \in started THEN [setup |-> w[c], id |-> reloads + 1] ELSE running[c]]
      /\ pollers' = [p \in DOMAIN old \cup new |->
                       IF p \in new THEN NewPoller(w[p[2]]) ELSE old[p]]
  BY DEF Reconcile
<1>2. stopped = DOMAIN running \ kept /\ started = DOMAIN w \ kept
  BY DEF Unchanged
<1>3. DOMAIN w \subseteq Conns /\ \A c \in DOMAIN w : w[c] \in Setup
  BY <1>1, ReconcileWanted
<1>4. /\ DOMAIN running' = DOMAIN w
      /\ \A c \in DOMAIN w : /\ running'[c].setup = w[c]
                             /\ running'[c].id = IF c \in kept THEN running[c].id ELSE reloads + 1
  <2> HIDE DEF started, stopped
  <2> QED BY <1>1, <1>2
<1>5. /\ DOMAIN old = DOMAIN pollers
      /\ \A p \in DOMAIN pollers :
           old[p] = IF p[2] \in stopped /\ running[p[2]].id = p[1]
                    THEN [pollers[p] EXCEPT !.cancelled = TRUE] ELSE pollers[p]
  <2> HIDE DEF stopped
  <2> QED BY DEF Cancel
<1>6. \A p \in DOMAIN pollers : p \notin new
  <2>1. DOMAIN pollers \subseteq (0..reloads) \X Conns /\ reloads \in Nat
    BY DEF TypeOK
  <2>2. reloads + 1 \notin 0..reloads
    BY <2>1
  <2> HIDE DEF started
  <2> QED BY <2>1, <2>2
<1> HIDE DEF old, started, stopped, kept
<1>7. DOMAIN pollers' = DOMAIN pollers \cup ({reloads + 1} \X (DOMAIN w \ kept))
  BY <1>1, <1>2, <1>5
<1>8. ASSUME NEW c \in DOMAIN w \ kept PROVE pollers'[<<reloads + 1, c>>] = NewPoller(w[c])
  <2>1. <<reloads + 1, c>> \in new
    BY <1>2
  <2> HIDE DEF new
  <2> QED BY <1>1, <2>1
<1>9. ASSUME NEW p \in DOMAIN pollers
      PROVE  pollers'[p] = IF p[2] \in DOMAIN running \ kept /\ running[p[2]].id = p[1]
                           THEN [pollers[p] EXCEPT !.cancelled = TRUE] ELSE pollers[p]
  <2> HIDE DEF new
  <2> QED BY <1>1, <1>2, <1>5, <1>6
<1> QED BY <1>3, <1>4, <1>7, <1>8, <1>9 DEF kept

\* An edit, or a step of a Reload before its reconciliation.
Query(r) == \/ ImportDone(r) \/ ListDevices(r) \/ ListConns(r)
            \/ \E d \in Devices : ListPoints(r, d)
            \/ ReloadError(r)

Edit(r) == \/ \E c \in Conns, new \in Connection : UpdateConnection(r, c, new)
           \/ \E d \in Devices, new \in Device : UpdateDevice(r, d, new)
           \/ \E d \in Devices, new \in Revs : UpdateDataPoints(r, d, new)

\* The steps there are, by what they leave alone.
LEMMA StepKinds ==
  ASSUME [Next]_vars
  PROVE  \/ UNCHANGED vars
         \/ \E r \in Requests : Edit(r) \/ Query(r) \/ Reconcile(r)
         \/ \E p \in DOMAIN pollers : PollerStep(p)
BY DEF Next, Edit, Query

(* A query of Reload changes only what its own request has read.           *)
LEMMA QueryEffect ==
  ASSUME NEW r \in Requests, Query(r)
  PROVE  UNCHANGED <<tables, edits, running, reloads, pollers, fresh>>
BY DEF Query, ImportDone, ListDevices, ListConns, ListPoints, ReloadError

(* An edit commits to the tables and makes every earlier read stale; what  *)
(* runs is left alone.                                                     *)
LEMMA EditEffect ==
  ASSUME NEW r \in Requests, Edit(r), TypeOK
  PROVE  /\ Commit(r) /\ fresh' = FALSE /\ TablesOK' /\ edits' \in 0..MaxEdits
         /\ UNCHANGED <<running, reloads, pollers>>
<1>1. Commit(r)
  BY DEF Edit, UpdateConnection, UpdateDevice, UpdateDataPoints
<1>2. TablesOK'
  BY TypeParts DEF Edit, UpdateConnection, UpdateDevice, UpdateDataPoints, TablesOK
<1>3. edits' \in 0..MaxEdits
  BY <1>1, TypeParts, AcquisitionAssumption DEF Commit
<1> QED BY <1>1, <1>2, <1>3 DEF Commit

(* Every step of the acquisition manager keeps the types.                  *)
LEMMA TypeInductive == TypeOK /\ ReadInv /\ [Next]_vars => TypeOK'
<1> SUFFICES ASSUME TypeOK, ReadInv, [Next]_vars PROVE TypeOK'
  OBVIOUS
<1>r. req' \in [Requests -> Request]
  BY RequestsInductive
<1>a. /\ TablesOK /\ RunningOK /\ PollersOK /\ edits \in 0..MaxEdits
      /\ reloads \in Nat /\ fresh \in BOOLEAN /\ req \in [Requests -> Request]
  BY TypeParts
<1>q. SUFFICES /\ TablesOK' /\ RunningOK' /\ PollersOK' /\ edits' \in 0..MaxEdits
               /\ reloads' \in Nat /\ fresh' \in BOOLEAN
  BY <1>r, TypeParts DEF TypeOK, TablesOK, RunningOK, PollersOK, Request
<1>0. CASE UNCHANGED vars
  BY <1>0, <1>a DEF vars, tables, TablesOK, RunningOK, PollersOK
<1>1. ASSUME NEW r \in Requests, Edit(r)
      PROVE  /\ TablesOK' /\ RunningOK' /\ PollersOK' /\ edits' \in 0..MaxEdits
             /\ reloads' \in Nat /\ fresh' \in BOOLEAN
  BY <1>1, <1>a, EditEffect DEF RunningOK, PollersOK
<1>2. ASSUME NEW r \in Requests, Query(r)
      PROVE  /\ TablesOK' /\ RunningOK' /\ PollersOK' /\ edits' \in 0..MaxEdits
             /\ reloads' \in Nat /\ fresh' \in BOOLEAN
  BY <1>2, <1>a, QueryEffect DEF tables, TablesOK, RunningOK, PollersOK
<1>3. ASSUME NEW r \in Requests, Reconcile(r)
      PROVE  /\ TablesOK' /\ RunningOK' /\ PollersOK' /\ edits' \in 0..MaxEdits
             /\ reloads' \in Nat /\ fresh' \in BOOLEAN
  <2> DEFINE w == Wanted(req[r].devices, req[r].conns, req[r].points)
             kept == {c \in DOMAIN running : c \in DOMAIN w /\ running[c].setup = w[c]}
  <2>1. /\ DOMAIN running' = DOMAIN w
        /\ DOMAIN w \subseteq Conns /\ \A c \in DOMAIN w : w[c] \in Setup
        /\ \A c \in DOMAIN w : /\ running'[c].setup = w[c]
                               /\ running'[c].id = IF c \in kept THEN running[c].id ELSE reloads + 1
        /\ DOMAIN pollers' = DOMAIN pollers \cup ({reloads + 1} \X (DOMAIN w \ kept))
        /\ \A c \in DOMAIN w \ kept : pollers'[<<reloads + 1, c>>] = NewPoller(w[c])
        /\ \A p \in DOMAIN pollers :
             pollers'[p] = IF p[2] \in DOMAIN running \ kept /\ running[p[2]].id = p[1]
                           THEN [pollers[p] EXCEPT !.cancelled = TRUE] ELSE pollers[p]
    <3> HIDE DEF w
    <3> QED BY <1>3, ReconcileEffect DEF w
  <2>k. kept \subseteq DOMAIN running
    OBVIOUS
  <2> HIDE DEF w, kept
  <2>2. /\ UNCHANGED <<tables, edits>> /\ reloads' = reloads + 1 /\ fresh' = req[r].clean
    BY <1>3 DEF Reconcile
  <2>3. /\ reloads' \in Nat /\ reloads + 1 \in 0..reloads' /\ 0..reloads \subseteq 0..reloads'
    BY <1>a, <2>2
  <2>4. TablesOK' /\ edits' \in 0..MaxEdits /\ fresh' \in BOOLEAN
    BY <1>a, <2>2 DEF TablesOK, tables, Request
  <2>5. RunningOK'
    BY <1>a, <2>1, <2>k, <2>3 DEF RunningOK
  <2>6. DOMAIN pollers' \subseteq (0..reloads') \X Conns
    BY <1>a, <2>1, <2>3 DEF PollersOK
  <2>7. ASSUME NEW p \in DOMAIN pollers'
        PROVE  pollers'[p] \in Poller /\ pollers'[p].left \subseteq DOMAIN pollers'[p].setup.points
    <3>1. CASE p \in DOMAIN pollers
      <4>1. pollers[p] \in Poller /\ pollers[p].left \subseteq DOMAIN pollers[p].setup.points
        BY <1>a, <3>1 DEF PollersOK
      <4>2. pollers'[p] \in {pollers[p], [pollers[p] EXCEPT !.cancelled = TRUE]}
        BY <2>1, <3>1
      <4> QED BY <4>1, <4>2 DEF Poller
    <3>2. CASE p \in {reloads + 1} \X (DOMAIN w \ kept)
      <4>1. PICK c \in DOMAIN w \ kept : p = <<reloads + 1, c>>
        BY <3>2
      <4>2. pollers'[p] = NewPoller(w[c]) /\ w[c] \in Setup
        BY <2>1, <4>1
      <4> QED BY <4>2, NewPollerType
    <3> QED BY <2>1, <3>1, <3>2
  <2>8. PollersOK'
    BY <2>6, <2>7 DEF PollersOK
  <2> QED BY <2>3, <2>4, <2>5, <2>8
<1>4. ASSUME NEW p \in DOMAIN pollers, PollerStep(p)
      PROVE  /\ TablesOK' /\ RunningOK' /\ PollersOK' /\ edits' \in 0..MaxEdits
             /\ reloads' \in Nat /\ fresh' \in BOOLEAN
  BY <1>4, <1>a, PollerStepEffect DEF tables, TablesOK, RunningOK, PollersOK
<1> QED BY <1>0, <1>1, <1>2, <1>3, <1>4, StepKinds

\* No Reload gets to its reconciliation with a device's points unread.
LEMMA ReadInductive == TypeOK /\ ReadInv /\ [Next]_vars => ReadInv'
<1> SUFFICES ASSUME TypeOK, ReadInv, [Next]_vars, NEW q \in Requests, req'[q].pc = "points"
             PROVE  Polled(q)' \subseteq req'[q].todo \cup DOMAIN req'[q].points
  BY DEF ReadInv
<1>a. req \in [Requests -> Request] /\ \A r \in Requests : req[r] \in Request
  BY TypeParts
<1>b. ASSUME req'[q].pc = req[q].pc, req'[q].todo = req[q].todo, req'[q].devices = req[q].devices,
             req'[q].conns = req[q].conns, req'[q].points = req[q].points
      PROVE  Polled(q)' \subseteq req'[q].todo \cup DOMAIN req'[q].points
  BY <1>b DEF ReadInv, Polled
<1>0. CASE req' = req
  BY <1>0, <1>b
<1>1. ASSUME NEW r \in Requests, Edit(r)
      PROVE  Polled(q)' \subseteq req'[q].todo \cup DOMAIN req'[q].points
  <2>1. Commit(r)
    BY <1>1, EditEffect
  <2>2. q # r
    BY <2>1, NoRequestType DEF Commit, NoRequest
  <2>3. req'[q] = [req[q] EXCEPT !.clean = FALSE]
    BY <2>1, <2>2 DEF Commit
  <2> QED BY <1>a, <1>b, <2>3 DEF Request
<1>2. ASSUME NEW r \in Requests, ImportDone(r) \/ ListDevices(r) \/ ReloadError(r) \/ Reconcile(r)
      PROVE  Polled(q)' \subseteq req'[q].todo \cup DOMAIN req'[q].points
  <2>1. q # r
    BY <1>a, <1>2 DEF ImportDone, ListDevices, ReloadError, Reconcile, NoRequest, Request
  <2>2. req'[q] = req[q]
    BY <1>a, <1>2, <2>1 DEF ImportDone, ListDevices, ReloadError, Reconcile
  <2> QED BY <1>b, <2>2
<1>3. ASSUME NEW r \in Requests, ListConns(r)
      PROVE  Polled(q)' \subseteq req'[q].todo \cup DOMAIN req'[q].points
  <2>1. CASE q # r
    BY <1>a, <1>b, <1>3, <2>1 DEF ListConns
  <2>2. CASE q = r
    BY <1>a, <1>3, <2>2 DEF ListConns, Polled, Request
  <2> QED BY <2>1, <2>2
<1>4. ASSUME NEW r \in Requests, NEW d \in Devices, ListPoints(r, d)
      PROVE  Polled(q)' \subseteq req'[q].todo \cup DOMAIN req'[q].points
  <2>1. CASE q # r
    BY <1>a, <1>b, <1>4, <2>1 DEF ListPoints
  <2>2. CASE q = r
    <3>1. /\ req'[q].todo = req[q].todo \ {d}
          /\ DOMAIN req'[q].points = DOMAIN req[q].points \cup {d}
          /\ req'[q].devices = req[q].devices /\ req'[q].conns = req[q].conns
          /\ req[q].pc = "points"
      BY <1>a, <1>4, <2>2 DEF ListPoints, Request
    <3> QED BY <3>1 DEF ReadInv, Polled
  <2> QED BY <2>1, <2>2
<1>5. ASSUME NEW p \in DOMAIN pollers, PollerStep(p) PROVE req' = req
  BY <1>5, PollerStepEffect
<1> QED BY <1>0, <1>1, <1>2, <1>3, <1>4, <1>5, StepKinds DEF vars, Query

(* The types and the invariants hold when the gateway starts.              *)
LEMMA InitInvs == Init => TypeOK /\ ReadInv /\ CleanInv
<1> SUFFICES ASSUME Init PROVE TypeOK /\ ReadInv /\ CleanInv
  OBVIOUS
<1>1. TablesOK /\ edits \in 0..MaxEdits /\ reloads \in Nat /\ fresh \in BOOLEAN
  BY AcquisitionAssumption DEF Init, TablesOK
<1>2. req \in [Requests -> Request]
  BY NoRequestType DEF Init
<1>3. RunningOK
  <2>1. CASE fresh
    BY <1>1, <2>1, WantedNowType DEF Init, RunningOK
  <2>2. CASE ~ fresh
    BY <2>2 DEF Init, RunningOK, Empty
  <2> QED BY <2>1, <2>2
<1>4. PollersOK
  <2>1. DOMAIN pollers \subseteq (0..reloads) \X Conns
    BY <1>3 DEF Init, RunningOK
  <2>2. ASSUME NEW p \in DOMAIN pollers
        PROVE  pollers[p] \in Poller /\ pollers[p].left \subseteq DOMAIN pollers[p].setup.points
    <3>1. p[2] \in DOMAIN running /\ pollers[p] = NewPoller(running[p[2]].setup)
      BY DEF Init
    <3> QED BY <1>3, <3>1, NewPollerType DEF RunningOK
  <2> QED BY <2>1, <2>2 DEF PollersOK
<1>5. \A r \in Requests : req[r].pc = "idle" /\ ~ req[r].clean
  BY DEF Init, NoRequest
<1> QED BY <1>1, <1>2, <1>3, <1>4, <1>5, TypeParts DEF ReadInv, CleanInv

(***************************************************************************)
(* Whatever the requests and pollers do, the state stays well typed; in    *)
(* particular Reload never starts a poller with a device whose points it   *)
(* has not read, and the numbers of pollers are never used twice.          *)
(***************************************************************************)
THEOREM TypeCorrect == Spec => []TypeOK
<1>1. Init => TypeOK /\ ReadInv
  BY InitInvs
<1>2. TypeOK /\ ReadInv /\ [Next]_vars => (TypeOK /\ ReadInv)'
  BY TypeInductive, ReadInductive
<1> QED BY <1>1, <1>2, PTL DEF Spec

-----------------------------------------------------------------------------
(* The pollers that go on are those recorded as running.                   *)

LEMMA LiveInit == Init => LivePollersAreRunning
<1> SUFFICES ASSUME Init PROVE LivePollersAreRunning
  OBVIOUS
<1>1. RunningOK
  BY InitInvs, TypeParts
<1>2. \A c \in DOMAIN running : running[c].id = 0 /\ running[c].setup \in Setup
  BY <1>1 DEF Init, Empty, RunningOK
<1>3. DOMAIN pollers = {0} \X DOMAIN running
  BY DEF Init
<1>4. ASSUME NEW p \in DOMAIN pollers
      PROVE  ~ pollers[p].cancelled /\ p[2] \in DOMAIN running /\ running[p[2]].id = p[1]
  <2>1. p[2] \in DOMAIN running /\ p[1] = 0 /\ pollers[p] = NewPoller(running[p[2]].setup)
    BY DEF Init
  <2> QED BY <1>2, <2>1, NewPollerType
<1>5. ASSUME NEW c \in DOMAIN running
      PROVE  /\ <<running[c].id, c>> \in DOMAIN pollers
             /\ pollers[<<running[c].id, c>>].setup = running[c].setup
  <2>1. <<0, c>> \in DOMAIN pollers
    BY <1>3
  <2>2. pollers[<<0, c>>] = NewPoller(running[c].setup)
    BY <2>1 DEF Init
  <2> QED BY <1>2, <2>1, <2>2, NewPollerType
<1> QED BY <1>4, <1>5 DEF LivePollersAreRunning

(* A poller is cancelled in the step that takes it out of Manager.running, *)
(* so none is ever live beside the map.                                    *)
LEMMA LiveInductive ==
  TypeOK /\ ReadInv /\ LivePollersAreRunning /\ [Next]_vars => LivePollersAreRunning'
<1> SUFFICES ASSUME TypeOK, ReadInv, LivePollersAreRunning, [Next]_vars
             PROVE  LivePollersAreRunning'
  OBVIOUS
<1>1. CASE UNCHANGED <<running, pollers>>
  BY <1>1 DEF LivePollersAreRunning
<1>2. ASSUME NEW r \in Requests, Edit(r) \/ Query(r) PROVE UNCHANGED <<running, pollers>>
  BY <1>2, EditEffect, QueryEffect
<1>3. ASSUME NEW p \in DOMAIN pollers, PollerStep(p) PROVE LivePollersAreRunning'
  BY <1>3, PollerStepEffect DEF LivePollersAreRunning
<1>4. ASSUME NEW r \in Requests, Reconcile(r) PROVE LivePollersAreRunning'
  <2> DEFINE w == Wanted(req[r].devices, req[r].conns, req[r].points)
             kept == {c \in DOMAIN running : c \in DOMAIN w /\ running[c].setup = w[c]}
  <2>1. /\ DOMAIN running' = DOMAIN w
        /\ DOMAIN w \subseteq Conns /\ \A c \in DOMAIN w : w[c] \in Setup
        /\ \A c \in DOMAIN w : /\ running'[c].setup = w[c]
                               /\ running'[c].id = IF c \in kept THEN running[c].id ELSE reloads + 1
        /\ DOMAIN pollers' = DOMAIN pollers \cup ({reloads + 1} \X (DOMAIN w \ kept))
        /\ \A c \in DOMAIN w \ kept : pollers'[<<reloads + 1, c>>] = NewPoller(w[c])
        /\ \A p \in DOMAIN pollers :
             pollers'[p] = IF p[2] \in DOMAIN running \ kept /\ running[p[2]].id = p[1]
                           THEN [pollers[p] EXCEPT !.cancelled = TRUE] ELSE pollers[p]
    <3> HIDE DEF w
    <3> QED BY <1>4, ReconcileEffect DEF w
  <2>k. kept \subseteq DOMAIN running /\ kept \subseteq DOMAIN w
        /\ \A c \in kept : running[c].setup = w[c]
    OBVIOUS
  <2> HIDE DEF w, kept
  \* The new pollers have a number of their own.
  <2>n. \A p \in DOMAIN pollers : p = <<p[1], p[2]>> /\ p[1] # reloads + 1
    <3>1. DOMAIN pollers \subseteq (0..reloads) \X Conns /\ reloads \in Nat
      BY DEF TypeOK
    <3> QED BY <3>1
  <2>2. ASSUME NEW p \in DOMAIN pollers
        PROVE  ~ pollers'[p].cancelled <=> p[2] \in DOMAIN w /\ running'[p[2]].id = p[1]
    <3>0. pollers[p] \in Poller
      BY DEF TypeOK
    <3>1. CASE p[2] \in DOMAIN running \ kept /\ running[p[2]].id = p[1]
      <4>1. pollers'[p].cancelled
        BY <2>1, <3>0, <3>1 DEF Poller
      <4> QED BY <2>1, <2>n, <3>1, <4>1
    <3>2. CASE ~ (p[2] \in DOMAIN running \ kept /\ running[p[2]].id = p[1])
      <4>1. pollers'[p] = pollers[p]
        BY <2>1, <3>2
      <4>2. ~ pollers[p].cancelled <=> p[2] \in DOMAIN running /\ running[p[2]].id = p[1]
        BY DEF LivePollersAreRunning
      <4> QED BY <2>1, <2>k, <2>n, <3>2, <4>1, <4>2
    <3> QED BY <3>1, <3>2
  <2>3. ASSUME NEW c \in DOMAIN w \ kept
        PROVE  LET p == <<reloads + 1, c>>
               IN  ~ pollers'[p].cancelled /\ pollers'[p].setup = w[c] /\ p \in DOMAIN pollers'
    BY <2>1, NewPollerType
  <2>4. ASSUME NEW p \in DOMAIN pollers'
        PROVE  ~ pollers'[p].cancelled <=> p[2] \in DOMAIN running' /\ running'[p[2]].id = p[1]
    <3>1. CASE p \in DOMAIN pollers
      BY <2>1, <2>2, <3>1
    <3>2. CASE p \in {reloads + 1} \X (DOMAIN w \ kept)
      <4>1. PICK c \in DOMAIN w \ kept : p = <<reloads + 1, c>>
        BY <3>2
      <4> QED BY <2>1, <2>3, <4>1
    <3> QED BY <2>1, <3>1, <3>2
  <2>5. ASSUME NEW c \in DOMAIN running'
        PROVE  /\ <<running'[c].id, c>> \in DOMAIN pollers'
               /\ pollers'[<<running'[c].id, c>>].setup = running'[c].setup
    <3>1. CASE c \in kept
      <4> DEFINE p == <<running[c].id, c>>
      <4>1. p \in DOMAIN pollers /\ pollers[p].setup = running[c].setup /\ pollers[p] \in Poller
        BY <2>k, <3>1 DEF LivePollersAreRunning, TypeOK
      <4>2. pollers'[p] = pollers[p]
        BY <2>1, <3>1, <4>1
      <4> QED BY <2>1, <2>k, <3>1, <4>1, <4>2
    <3>2. CASE c \notin kept
      BY <2>1, <2>3, <3>2
    <3> QED BY <3>1, <3>2
  <2> QED BY <2>4, <2>5 DEF LivePollersAreRunning
<1> QED BY <1>1, <1>2, <1>3, <1>4, StepKinds DEF vars

(***************************************************************************)
(* However Reloads of several requests interleave, fail or read torn       *)
(* tables: a poller goroutine that was not told to stop is the one         *)
(* Manager.running names for its connection, with the settings recorded    *)
(* there, and every entry of Manager.running has its goroutine.            *)
(***************************************************************************)
THEOREM LivePollers == Spec => []LivePollersAreRunning
<1>1. Init => TypeOK /\ ReadInv /\ LivePollersAreRunning
  BY InitInvs, LiveInit
<1>2. TypeOK /\ ReadInv /\ LivePollersAreRunning /\ [Next]_vars
        => (TypeOK /\ ReadInv /\ LivePollersAreRunning)'
  BY TypeInductive, ReadInductive, LiveInductive
<1> QED BY <1>1, <1>2, PTL DEF Spec

-----------------------------------------------------------------------------
(* A Reload that started after the last edit leaves what is configured.    *)

\* What the tables ask for depends on the tables only.
LEMMA SameTables ==
  ASSUME UNCHANGED tables
  PROVE  UNCHANGED <<EnabledDevices, EnabledConns, WantedNow>>
BY DEF tables, EnabledDevices, EnabledConns, WantedNow, Wanted

(* What a request read after the last edit stays what the tables hold,     *)
(* until the next edit.                                                    *)
LEMMA CleanInductive == TypeOK /\ ReadInv /\ CleanInv /\ [Next]_vars => CleanInv'
<1> DEFINE OK(q) == /\ req[q].pc \in {"conns", "points"} => req[q].devices = EnabledDevices
                    /\ req[q].pc = "points" =>
                         /\ req[q].conns = EnabledConns
                         /\ \A d \in Polled(q) \ req[q].todo : req[q].points[d] = points[d]
<1> SUFFICES ASSUME TypeOK, ReadInv, CleanInv, [Next]_vars, NEW q \in Requests, req'[q].clean
             PROVE  OK(q)'
  BY DEF CleanInv
<1>a. req \in [Requests -> Request] /\ \A r \in Requests : req[r] \in Request
  BY TypeParts
<1>c. req[q].clean => OK(q)
  BY DEF CleanInv
<1>b. ASSUME UNCHANGED tables, req'[q] = req[q] PROVE OK(q)'
  BY <1>b, <1>c, SameTables DEF tables, Polled
<1>1. ASSUME NEW r \in Requests, Edit(r) PROVE OK(q)'
  <2>1. Commit(r)
    BY <1>1, EditEffect
  <2>2. CASE q = r
    <3>1. req'[q].pc \in {"edit", "devices"}
      BY <2>1, <2>2 DEF Commit, NoRequest
    <3> QED BY <3>1
  <2>3. CASE q # r
    <3>1. ~ req'[q].clean
      BY <1>a, <2>1, <2>3 DEF Commit, Request
    <3> QED BY <3>1
  <2> QED BY <2>2, <2>3
<1>2. ASSUME NEW r \in Requests, ImportDone(r) \/ ReloadError(r) \/ Reconcile(r) PROVE OK(q)'
  <2>1. UNCHANGED tables
    BY <1>2 DEF ImportDone, ReloadError, Reconcile
  <2>2. CASE q # r
    BY <1>a, <1>b, <1>2, <2>1, <2>2 DEF ImportDone, ReloadError, Reconcile
  <2>3. CASE q = r
    <3>1. req'[q].pc \in {"idle", "devices"}
      BY <1>a, <1>2, <2>3 DEF ImportDone, ReloadError, Reconcile, NoRequest, Request
    <3> QED BY <3>1
  <2> QED BY <2>2, <2>3
<1>3. ASSUME NEW r \in Requests, ListDevices(r) PROVE OK(q)'
  <2>1. UNCHANGED tables
    BY <1>3 DEF ListDevices
  <2>2. CASE q # r
    BY <1>a, <1>b, <1>3, <2>1, <2>2 DEF ListDevices
  <2>3. CASE q = r
    <3>1. req'[q].pc = "conns" /\ req'[q].devices = EnabledDevices
      BY <1>a, <1>3, <2>3 DEF ListDevices, Request
    <3> QED BY <2>1, <3>1, SameTables
  <2> QED BY <2>2, <2>3
<1>4. ASSUME NEW r \in Requests, ListConns(r) PROVE OK(q)'
  <2>1. UNCHANGED tables
    BY <1>4 DEF ListConns
  <2>2. CASE q # r
    BY <1>a, <1>b, <1>4, <2>1, <2>2 DEF ListConns
  <2>3. CASE q = r
    <3>1. /\ req[q].pc = "conns" /\ req'[q].pc = "points" /\ req[q].clean
          /\ req'[q].devices = req[q].devices /\ req'[q].conns = EnabledConns
          /\ req'[q].todo = {d \in DOMAIN req[q].devices : req[q].devices[d] \in DOMAIN EnabledConns}
      BY <1>a, <1>4, <2>3 DEF ListConns, Request
    <3>2. Polled(q)' \ req'[q].todo = {}
      BY <3>1 DEF Polled
    <3> QED BY <1>c, <2>1, <3>1, <3>2, SameTables
  <2> QED BY <2>2, <2>3
<1>5. ASSUME NEW r \in Requests, NEW d \in Devices, ListPoints(r, d) PROVE OK(q)'
  <2>1. UNCHANGED tables
    BY <1>5 DEF ListPoints
  <2>2. CASE q # r
    BY <1>a, <1>b, <1>5, <2>1, <2>2 DEF ListPoints
  <2>3. CASE q = r
    <3>1. /\ req[q].pc = "points" /\ req'[q].pc = "points" /\ req[q].clean
          /\ req'[q].devices = req[q].devices /\ req'[q].conns = req[q].conns
          /\ req'[q].todo = req[q].todo \ {d}
          /\ req'[q].points = [x \in DOMAIN req[q].points \cup {d} |->
                                 IF x = d THEN points[d] ELSE req[q].points[x]]
      BY <1>a, <1>5, <2>3 DEF ListPoints, Request
    <3>2. Polled(q)' = Polled(q)
      BY <3>1 DEF Polled
    <3>3. ASSUME NEW x \in Polled(q) \ req'[q].todo PROVE req'[q].points[x] = points[x]
      BY <1>c, <3>1, <3>3 DEF ReadInv
    <3> QED BY <1>c, <2>1, <3>1, <3>2, <3>3, SameTables DEF tables
  <2> QED BY <2>2, <2>3
<1>6. ASSUME NEW p \in DOMAIN pollers, PollerStep(p) PROVE OK(q)'
  BY <1>6, <1>b, PollerStepEffect
<1>7. CASE UNCHANGED vars
  BY <1>7, <1>b DEF vars
<1> HIDE DEF OK
<1> QED BY <1>1, <1>2, <1>3, <1>4, <1>5, <1>6, <1>7, StepKinds DEF Query

(* A reconciliation on a fresh read makes the running pollers those        *)
(* configured, and only an edit or another reconciliation ends that.       *)
LEMMA FreshInductive ==
  TypeOK /\ ReadInv /\ CleanInv /\ FreshReloadInSync /\ [Next]_vars => FreshReloadInSync'
<1> SUFFICES ASSUME TypeOK, ReadInv, CleanInv, FreshReloadInSync, [Next]_vars, fresh'
             PROVE  /\ DOMAIN running' = DOMAIN WantedNow'
                    /\ \A c \in DOMAIN running' : running'[c].setup = WantedNow'[c]
  BY DEF FreshReloadInSync
<1>1. CASE UNCHANGED <<tables, running, fresh>>
  BY <1>1, SameTables DEF FreshReloadInSync
<1>2. ASSUME NEW r \in Requests, Edit(r) PROVE FALSE
  BY <1>2, EditEffect
<1>3. ASSUME NEW r \in Requests, Query(r) PROVE UNCHANGED <<tables, running, fresh>>
  BY <1>3, QueryEffect
<1>4. ASSUME NEW p \in DOMAIN pollers, PollerStep(p) PROVE UNCHANGED <<tables, running, fresh>>
  BY <1>4, PollerStepEffect
<1>5. ASSUME NEW r \in Requests, Reconcile(r)
      PROVE  /\ DOMAIN running' = DOMAIN WantedNow'
             /\ \A c \in DOMAIN running' : running'[c].setup = WantedNow'[c]
  <2> DEFINE w == Wanted(req[r].devices, req[r].conns, req[r].points)
  <2>1. DOMAIN running' = DOMAIN w /\ \A c \in DOMAIN w : running'[c].setup = w[c]
    <3> DEFINE started == DOMAIN w \ (DOMAIN running \ {c \in DOMAIN running : ~ Unchanged(c, w)})
    <3>1. running' = [c \in DOMAIN w |->
                       IF c \in started THEN [setup |-> w[c], id |-> reloads + 1] ELSE running[c]]
      BY <1>5 DEF Reconcile
    <3>2. \A c \in DOMAIN w \ started : running[c].setup = w[c]
      BY DEF Unchanged
    <3> HIDE DEF w, started
    <3> QED BY <3>1, <3>2
  <2>2. /\ req[r].clean /\ req[r].pc = "points" /\ req[r].todo = {} /\ UNCHANGED tables
    BY <1>5 DEF Reconcile
  <2>3. /\ req[r].devices = EnabledDevices /\ req[r].conns = EnabledConns
        /\ \A d \in Polled(r) : req[r].points[d] = points[d]
    BY <2>2 DEF CleanInv
  <2>4. w = WantedNow
    BY <2>3, WantedSame DEF WantedNow, Polled
  <2> QED BY <2>1, <2>2, <2>4, SameTables
<1> QED BY <1>1, <1>2, <1>3, <1>4, <1>5, StepKinds DEF vars

(***************************************************************************)
(* A Reload whose first query follows the last committed edit leaves       *)
(* running exactly the pollers the tables ask for, with their settings,    *)
(* whatever Reloads with older reads reconciled before it, and until the   *)
(* next edit or reconciliation: a poller's own steps do not disturb it.    *)
(***************************************************************************)
THEOREM FreshInSync == Spec => []FreshReloadInSync
<1> DEFINE IInv == TypeOK /\ ReadInv /\ CleanInv /\ FreshReloadInSync
<1>1. Init => IInv
  <2>1. ASSUME Init, fresh
        PROVE  /\ DOMAIN running = DOMAIN WantedNow
               /\ \A c \in DOMAIN running : running[c].setup = WantedNow[c]
    <3>1. running = [c \in DOMAIN WantedNow |-> [setup |-> WantedNow[c], id |-> 0]]
      BY <2>1 DEF Init
    <3> QED BY <3>1
  <2> QED BY <2>1, InitInvs DEF FreshReloadInSync
<1>2. IInv /\ [Next]_vars => IInv'
  BY TypeInductive, ReadInductive, CleanInductive, FreshInductive
<1> QED BY <1>1, <1>2, PTL DEF Spec
=============================================================================

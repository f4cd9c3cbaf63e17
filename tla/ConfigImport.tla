---------------------------- MODULE ConfigImport ----------------------------
(***************************************************************************)
(* Backup and restore of the acquisition configuration: exportConfig and   *)
(* importConfig (gateway/internal/api/configio.go) over the repositories   *)
(* of connections, devices and data points, beside another API request     *)
(* that edits the same tables.                                             *)
(*                                                                         *)
(* Every statement is a step of its own: neither handler runs in a         *)
(* transaction.  A revision stands for the settings of a row, 0 for        *)
(* settings Validate refuses; ids are SQLite rowids.  What the Reload at   *)
(* the end of each handler does is in Acquisition.                         *)
(***************************************************************************)
EXTENDS Naturals, Sequences, FiniteSets, FiniteSetsExt

CONSTANTS
  Revs,      \* valid settings
  Configs,   \* the configurations to start from: [db |-> tables, seq |-> counters]
  MaxEdits,  \* bound: requests of others that are committed
  MaxFaults  \* bound: statements that fail

Tables == {"conn", "dev", "point"}
Parent == [dev |-> "conn", point |-> "dev"]

\* Tables and counters a gateway may have: every row has a positive id, and
\* the row it refers to exists; the counters are up to date.
WellFormed(c) ==
  /\ DOMAIN c.db = Tables /\ c.seq \in [{"conn", "point"} -> Nat]
  /\ \A t \in Tables :
       LET top == IF t = "dev" THEN Max(DOMAIN c.db.dev \cup {0}) ELSE c.seq[t]
       IN  top \in Nat /\ DOMAIN c.db[t] \subseteq 1..top
  /\ \A t \in Tables : \A i \in DOMAIN c.db[t] :
       /\ c.db[t][i] \in [rev : Revs, ref : Nat]
       /\ t # "conn" => c.db[t][i].ref \in DOMAIN c.db[Parent[t]]

ASSUME ConfigImportAssumption ==
  /\ Revs \subseteq Nat \ {0} /\ {MaxEdits, MaxFaults} \subseteq Nat
  /\ \A c \in Configs : WellFormed(c)

VARIABLES
  db,      \* the tables: id -> [rev, ref], ref the parent row's id
  seq,     \* AUTOINCREMENT counters
  file,    \* the exported rows: connections, then each device and its points
  io,      \* the export or import request
  other,   \* the other request
  used,    \* how much of each bound is used up
  home,    \* history: the database is the one the file was exported from
  clean,   \* history: no edit, misread or foreign rows disturbed export or import
  clash,   \* history: tables where an import gave out an id the file still needs
  newer    \* history: rows others created since the export

vars == <<db, seq, file, io, other, used, home, clean, clash, newer>>

TypeOK ==
  /\ DOMAIN db = Tables
  /\ \A t \in Tables : \A i \in DOMAIN db[t] : i > 0 /\ db[t][i].rev \in Revs
  /\ \A t \in DOMAIN seq : \A i \in DOMAIN db[t] : i <= seq[t]
  /\ io.pc \in {"start", "xdevs", "xpoints", "ready", "get", "update", "create", "done"}
  /\ io.pc \in {"get", "update", "create"} => \E k \in 1..Len(file) + 1 : io.todo = SubSeq(file, k, Len(file))
  /\ other.pc \in {"idle", "delete", "insert"}
  /\ home \in BOOLEAN /\ clean \in BOOLEAN /\ clash \subseteq Tables

-----------------------------------------------------------------------------
Empty == [x \in {} |-> 0]

\* f with f[x] = y
With(f, x, y) == [z \in DOMAIN f \cup {x} |-> IF z = x THEN y ELSE f[z]]

Without(f, S) == [x \in DOMAIN f \ S |-> f[x]]

Row(t, id, rev, ref) == [table |-> t, id |-> id, rev |-> rev, ref |-> ref]

\* SELECT ... ORDER BY id
List(t, ids) ==
  LET n == Cardinality(ids)
      order == CHOOSE s \in [1..n -> ids] : \A j, k \in 1..n : j < k => s[j] < s[k]
  IN  [k \in DOMAIN order |-> Row(t, order[k], db[t][order[k]].rev, db[t][order[k]].ref)]

Children(t, i) == {x \in DOMAIN db[t] : db[t][x].ref = i}

\* Mutant: tables without AUTOINCREMENT use ids again.
NewIdReused(t) == Max(DOMAIN db[t] \cup {0}) + 1

\* Connections and points are AUTOINCREMENT; migration 0004 rebuilt the device
\* table without it, so the highest device id is given out again once deleted.
NewId(t) == IF t = "dev" THEN Max(DOMAIN db[t] \cup {0}) + 1 ELSE seq[t] + 1

\* Mutant: the pragma is missing.
NotEnforced(ok) == TRUE

\* foreign_keys(ON): a statement that would break a reference fails.
Enforced(ok) == ok

ParentExists(t, ref) == t # "conn" => Enforced(ref \in DOMAIN db[Parent[t]])

\* Repository.Create
Create(t, rev, ref) ==
  /\ db' = [db EXCEPT ![t] = With(@, NewId(t), [rev |-> rev, ref |-> ref])]
  /\ seq' = IF t = "dev" THEN seq ELSE [seq EXCEPT ![t] = @ + 1]

\* Repository.Update: a data point never changes its device.
Update(t, i, rev, ref) ==
  /\ db' = [db EXCEPT ![t][i] = [rev |-> rev, ref |-> IF t = "point" THEN @.ref ELSE ref]]
  /\ UNCHANGED seq

\* Device and data point rows; the points of a device go with it.
Delete(t, i) ==
  /\ db' = [db EXCEPT ![t] = Without(@, {i}),
                      !.point = Without(@, IF t = "dev" THEN Children("point", i) ELSE {i})]
  /\ UNCHANGED seq

NoRequest == [pc |-> "start", todo |-> <<>>, map |-> Empty, dev |-> 0,
              failed |-> FALSE, landed |-> Empty]

Init ==
  /\ \E c \in Configs : db = c.db /\ seq = c.seq
  /\ file = <<>> /\ io = NoRequest /\ other = [pc |-> "idle"]
  /\ used = [edits |-> 0, faults |-> 0]
  /\ home = TRUE /\ clean = TRUE /\ clash = {} /\ newer = {}

Fault == used.faults < MaxFaults /\ used' = [used EXCEPT !.faults = @ + 1]

-----------------------------------------------------------------------------
(* exportConfig                                                            *)

ExportConns ==
  /\ io.pc = "start"
  /\ file' = List("conn", DOMAIN db.conn)
  /\ io' = [io EXCEPT !.pc = "xdevs"]
  /\ UNCHANGED <<db, seq, other, used, home, clean, clash, newer>>

ExportDevices ==
  /\ io.pc = "xdevs"
  /\ io' = [io EXCEPT !.pc = "xpoints", !.todo = List("dev", DOMAIN db.dev)]
  /\ UNCHANGED <<db, seq, file, other, used, home, clean, clash, newer>>

\* ListByDevice for the next device
ExportPoints ==
  /\ io.pc = "xpoints" /\ io.todo # <<>>
  /\ LET d == Head(io.todo)
     IN  file' = file \o <<d>> \o List("point", Children("point", d.id))
  /\ io' = [io EXCEPT !.todo = Tail(@)]
  /\ UNCHANGED <<db, seq, other, used, home, clean, clash, newer>>

\* The file is written; with it starts what an import may not know of.
ExportDone ==
  /\ io.pc = "xpoints" /\ io.todo = <<>>
  /\ io' = [NoRequest EXCEPT !.pc = "ready"]
  /\ newer' = {}
  /\ UNCHANGED <<db, seq, file, other, used, home, clean, clash>>

\* A query fails: 500, no file.
ExportFails ==
  /\ io.pc \in {"xdevs", "xpoints"} /\ Fault
  /\ io' = NoRequest /\ file' = <<>> /\ clean' = TRUE
  /\ UNCHANGED <<db, seq, other, home, clash, newer>>

-----------------------------------------------------------------------------
(* Between export and import                                               *)

\* The gateway is replaced by one with a new database.
NewHardware ==
  /\ io.pc = "ready" /\ other.pc = "idle" /\ home
  /\ db' = [t \in Tables |-> Empty] /\ seq' = [conn |-> 0, point |-> 0]
  /\ home' = FALSE /\ newer' = {}
  /\ UNCHANGED <<file, io, other, used, clean, clash>>

\* The file is edited by hand: settings become invalid, or the ids of devices
\* and points are cleared to have them created as copies.
HandEdit ==
  /\ io.pc = "ready"
  /\ \/ file # <<>> /\ file' = [file EXCEPT ![1].rev = 0]
     \/ file' = [k \in DOMAIN file |-> IF file[k].table = "conn" THEN file[k]
                                       ELSE [file[k] EXCEPT !.id = 0]]
  /\ UNCHANGED <<db, seq, io, other, used, home, clean, clash, newer>>

-----------------------------------------------------------------------------
(* importConfig                                                            *)

\* Mutant: a device is checked for its connection only.
ValidRefOnly(r) == r.table = "dev" => r.ref > 0

\* Validate of every row
Valid(r) == r.rev # 0 /\ (r.table = "dev" => r.ref > 0)

\* The payload passes validation as a whole, before anything is written.
BeginImport ==
  /\ io.pc = "ready"
  /\ IF \A k \in DOMAIN file : Valid(file[k])
     THEN /\ io' = [NoRequest EXCEPT !.pc = "get", !.todo = file]
          /\ clean' = (clean /\ (home \/ seq = [conn |-> 0, point |-> 0]))
     ELSE io' = [NoRequest EXCEPT !.pc = "done", !.failed = TRUE] /\ UNCHANGED clean
  /\ UNCHANGED <<db, seq, file, other, used, home, clash, newer>>

row == Head(io.todo)

\* Mutant: a device keeps the connection id of the file.
RefAsExported == IF row.table = "point" THEN io.dev ELSE row.ref

\* What the row is to refer to here: its connection's new id, or the id its
\* device got.
Ref == CASE row.table = "conn"  -> 0
         [] row.table = "dev"   -> io.map[row.ref]
         [] row.table = "point" -> io.dev

\* A device whose connection the import did not restore
Unmapped == row.table = "dev" /\ row.ref \notin DOMAIN io.map

\* continue: after a device that failed its points are left out as well.
AfterError ==
  IF row.table # "dev" THEN Tail(io.todo)
  ELSE LET devices == {k \in 2..Len(io.todo) : io.todo[k].table = "dev"}
       IN  IF devices = {} THEN <<>> ELSE SubSeq(io.todo, Min(devices), Len(io.todo))

Report == io' = [io EXCEPT !.pc = "get", !.failed = TRUE, !.todo = AfterError]

\* The row is in the table as id: connIDMap, deviceID
Landed(id) ==
  io' = [io EXCEPT !.pc = "get", !.todo = Tail(@),
                   !.map = IF row.table = "conn" THEN With(@, row.id, id) ELSE @,
                   !.dev = IF row.table = "dev" THEN id ELSE @,
                   !.landed = With(@, Len(file) - Len(io.todo) + 1, id)]

\* Get, or an id of 0; any error of Get counts as not found.
Get ==
  /\ io.pc = "get" /\ io.todo # <<>> /\ ~ Unmapped
  /\ \/ /\ io' = [io EXCEPT !.pc = IF row.id \in DOMAIN db[row.table] THEN "update" ELSE "create"]
        /\ UNCHANGED <<used, clean>>
     \/ row.id # 0 /\ Fault /\ clean' = FALSE /\ io' = [io EXCEPT !.pc = "create"]
  /\ UNCHANGED <<db, seq, file, other, home, clash, newer>>

NoConnection ==
  /\ io.pc = "get" /\ io.todo # <<>> /\ Unmapped
  /\ Report
  /\ UNCHANGED <<db, seq, file, other, used, home, clean, clash, newer>>

ImportUpdate ==
  /\ io.pc = "update"
  /\ IF row.id \in DOMAIN db[row.table] /\ (row.table = "dev" => ParentExists("dev", Ref))
     THEN Update(row.table, row.id, row.rev, Ref) /\ Landed(row.id)
     ELSE Report /\ UNCHANGED <<db, seq>>
  /\ UNCHANGED <<file, other, used, home, clean, clash, newer>>

ImportCreate ==
  /\ io.pc = "create"
  /\ IF ParentExists(row.table, Ref)
     THEN /\ Create(row.table, row.rev, Ref) /\ Landed(NewId(row.table))
          /\ clash' = clash \cup {t \in {row.table} : \E k \in 2..Len(io.todo) :
                                    io.todo[k].table = t /\ io.todo[k].id = NewId(t)}
     ELSE Report /\ UNCHANGED <<db, seq, clash>>
  /\ UNCHANGED <<file, other, used, home, clean, newer>>

\* Update or Create fails; the rows before it stay.
WriteFails ==
  /\ io.pc \in {"update", "create"} /\ Fault
  /\ Report
  /\ UNCHANGED <<db, seq, file, other, home, clean, clash, newer>>

ImportDone ==
  /\ io.pc = "get" /\ io.todo = <<>>
  /\ io' = [io EXCEPT !.pc = "done"]
  /\ UNCHANGED <<db, seq, file, other, used, home, clean, clash, newer>>

ImportRow == Get \/ NoConnection \/ ImportUpdate \/ ImportCreate \/ WriteFails

-----------------------------------------------------------------------------
(* The other request                                                       *)

\* An edit is committed, disturbing an export or import under way.
Edit ==
  /\ used.edits < MaxEdits /\ used' = [used EXCEPT !.edits = @ + 1]
  /\ clean' = (clean /\ io.pc \in {"start", "ready"})
  /\ UNCHANGED <<file, io, home, clash>>

\* createConnection, createDevice, and createDataPoint once it found the device
AddRow(t, rev, ref) ==
  /\ other = (IF t = "point" THEN [pc |-> "insert", id |-> ref] ELSE [pc |-> "idle"])
  /\ Edit /\ other' = [pc |-> "idle"]
  /\ IF ParentExists(t, ref)
     THEN Create(t, rev, ref) /\ newer' = newer \cup {<<t, NewId(t)>>}
     ELSE UNCHANGED <<db, seq, newer>>

\* createDataPoint looks for the device.
FindDevice(d) ==
  /\ other.pc = "idle" /\ used.edits < MaxEdits /\ d \in DOMAIN db.dev
  /\ other' = [pc |-> "insert", id |-> d]
  /\ UNCHANGED <<db, seq, file, io, used, home, clean, clash, newer>>

\* updateConnection, updateDevice, updateDataPoint
ChangeRow(t, i, rev, ref) ==
  /\ other.pc = "idle" /\ i \in DOMAIN db[t] /\ ParentExists(t, ref)
  /\ Edit /\ Update(t, i, rev, ref)
  /\ UNCHANGED <<other, newer>>

\* deleteDevice, deleteDataPoint
DeleteRow(t, i) ==
  /\ other.pc = "idle" /\ i \in DOMAIN db[t]
  /\ Edit /\ Delete(t, i)
  /\ newer' = {n \in newer : n[2] \in DOMAIN db'[n[1]]}
  /\ UNCHANGED other

\* connection.Repository.Delete counts the devices first, and deletes next.
CountDevices(c) ==
  /\ other.pc = "idle" /\ used.edits < MaxEdits
  /\ c \in DOMAIN db.conn /\ Children("dev", c) = {}
  /\ other' = [pc |-> "delete", id |-> c]
  /\ UNCHANGED <<db, seq, file, io, used, home, clean, clash, newer>>

DeleteConnection(c) ==
  /\ other = [pc |-> "delete", id |-> c]
  /\ Edit /\ other' = [pc |-> "idle"]
  /\ IF c \in DOMAIN db.conn /\ Enforced(Children("dev", c) = {})
     THEN /\ db' = [db EXCEPT !.conn = Without(@, {c})]
          /\ newer' = newer \ {<<"conn", c>>}
     ELSE UNCHANGED <<db, newer>>
  /\ UNCHANGED seq

-----------------------------------------------------------------------------
Ids == 1..Max(UNION {DOMAIN db[t] : t \in Tables} \cup {0}) + 1

OtherStep ==
  \/ \E t \in Tables, rev \in Revs :
       \/ \E ref \in IF t = "conn" THEN {0} ELSE Ids : AddRow(t, rev, ref)
       \/ \E i \in DOMAIN db[t] : \E ref \in IF t = "dev" THEN DOMAIN db.conn ELSE {db[t][i].ref} :
            ChangeRow(t, i, rev, ref)
  \/ \E d \in DOMAIN db.dev : FindDevice(d)
  \/ \E t \in {"dev", "point"} : \E i \in DOMAIN db[t] : DeleteRow(t, i)
  \/ \E c \in DOMAIN db.conn : CountDevices(c)
  \/ \E c \in Ids : DeleteConnection(c)

Next ==
  \/ ExportConns \/ ExportDevices \/ ExportPoints \/ ExportDone \/ ExportFails
  \/ NewHardware \/ HandEdit
  \/ BeginImport \/ ImportRow \/ ImportDone
  \/ io.pc \notin {"start", "done"} /\ OtherStep  \* bound: from export to import

Spec == Init /\ [][Next]_vars

-----------------------------------------------------------------------------
\* Every device has its connection and every data point its device, although
\* Delete counts the devices of a connection in one statement and deletes in
\* another, and the import looks rows up before it writes.
ReferencesHold ==
  \A t \in DOMAIN Parent : \A i \in DOMAIN db[t] : db[t][i].ref \in DOMAIN db[Parent[t]]

\* Where the parent of the k-th row of the file is in the file: a device's
\* connection by its id, a point's device just before the point.
ParentAt(k) ==
  IF file[k].table = "dev"
  THEN CHOOSE j \in DOMAIN file : file[j].table = "conn" /\ file[j].id = file[k].ref
  ELSE Max({j \in 1..k : file[j].table = "dev"})

\* Every row of the file is in the tables: each as a row of its own, with its
\* settings, and below the row its parent became.
Restored ==
  /\ DOMAIN io.landed = DOMAIN file
  /\ \A k \in DOMAIN file :
       LET here == db[file[k].table][io.landed[k]]
       IN  /\ here.rev = file[k].rev
           /\ file[k].table # "conn" => here.ref = io.landed[ParentAt(k)]
           /\ \A j \in 1..k - 1 : file[j].table = file[k].table => io.landed[j] # io.landed[k]

\* An import that reports no error has restored every connection, device and
\* data point of the file, each below its own parent ("round-trips exactly via
\* importConfig", configio.go) - onto the gateway the file came from, whatever
\* was edited or deleted there since, and onto new hardware.  The exception is
\* exact: unless a row it created took an id that a later row of the file has.
ImportRestores ==
  io.pc = "done" /\ clean /\ ~ io.failed /\ clash = {} => Restored

\* The same without the exception: "restoring onto a different (empty) gateway
\* therefore creates everything fresh with new ids" (configio.go).
RestoresOnNewHardware ==
  io.pc = "done" /\ clean /\ ~ io.failed /\ ~ home => Restored

\* Which ids clash: on the gateway the file came from those of devices alone,
\* since the other tables never use an id again; on new hardware those of
\* points alone, since they are not in the order of their ids in the file.
ClashesOnlyByReuse ==
  /\ home => clash \subseteq {"dev"}
  /\ ~ home /\ clean => clash \subseteq {"point"}

\* A connection or data point that was added since the export is not
\* overwritten by importing the file on the same gateway.
KeepsNewerRows ==
  [][ImportRow /\ home =>
       \A n \in newer : n[1] # "dev" => db'[n[1]][n[2]] = db[n[1]][n[2]]]_vars
=============================================================================

------------------------------ MODULE Settings -------------------------------
(***************************************************************************)
(* Saving settings from the Web UI (gateway/internal/api/settings.go,      *)
(* gateway/internal/config/config.go, and the start of gateway/cmd/        *)
(* gateway/main.go): saveSettings changes the shared configuration field   *)
(* by field and without a lock, writes all of it to config.yaml and exits; *)
(* a supervisor starts the process again, which loads the file.            *)
(*                                                                         *)
(* One field stands for each way the code treats a field.  Concurrent      *)
(* requests race on every field; a file is the record its text stands for  *)
(* before expansion.  What is written stays written when the process ends: *)
(* a power failure that loses the page cache is not modelled.              *)
(***************************************************************************)
EXTENDS Integers, Sequences

CONSTANTS
  Requests,    \* concurrent requests
  DTOs,        \* the settings a client may submit
  FirstFile,   \* config.yaml before the first start
  Env,         \* environment overrides: field -> value
  Expansion,   \* values with a $ in them -> what their expanded text is read as
  Mixes        \* bounds: how many requests and faults may happen together

\* In the order of saveSettings' assignments and of the file.  A blank password or data topic
\* leaves the old one; the others are taken as they are.
Fields == <<"id", "broker", "client", "password", "topic", "ntp">>
FieldSet == {Fields[k] : k \in 1..Len(Fields)}
KeptIfBlank == {"password", "topic"}

Blank == ""
BadNTP == "server a b"   \* an ntp_server that normalizeNTPServer refuses

\* os.ExpandEnv works on the text of the file, before it is parsed: the value
\* `$pw@2024` is saved as a plain scalar and becomes `@2024`, which YAML
\* refuses, if pw is not set.
Unparsable == "unparsable"
Cut == "cut"   \* the first part of a value whose text was cut off

Expand(v) == IF v \in DOMAIN Expansion THEN Expansion[v] ELSE v

ASSUME SettingsAssumption ==
  /\ \A d \in DTOs : DOMAIN d = FieldSet
  /\ DOMAIN FirstFile = FieldSet /\ DOMAIN Env \subseteq {"broker", "ntp"}
  /\ \A f \in FieldSet : Expand(FirstFile[f]) # Unparsable
  \* "garbled" marks a text that does not parse; no gateway is called that.
  /\ \A d \in DTOs \cup {FirstFile} : d.id # "garbled"
  /\ \A v \in DOMAIN Expansion : Expansion[v] # "garbled"

VARIABLES
  file,      \* config.yaml: a record, Empty or Garbled
  cfg,       \* the configuration the handlers share
  inForce,   \* the copies the services were started with
  up,        \* the process runs
  exits,     \* goroutines about to call os.Exit
  req,       \* per request: how far it got
  budget,    \* requests and faults that may still happen
  want,      \* history: what the last undisturbed, accepted save asked for
  loaded,    \* history: the process has started since
  whole,     \* history: the last write to config.yaml finished a save
  cutShort,  \* history: the process ended while config.yaml was not whole
  overlap    \* history: two saves were in progress at once

sVars == <<file, cfg, inForce, up, exits, req, want, loaded, whole, cutShort, overlap>>

\* Records of all fields, so that files and configurations can be compared.
Empty   == [f \in FieldSet |-> Blank]
Garbled == [f \in FieldSet |-> "garbled"]
NoWant  == [f \in FieldSet |-> "none"]

Idle == [pc |-> "idle", dto |-> Empty, k |-> 1, data |-> Empty, part |-> Empty,
         expect |-> NoWant]

-----------------------------------------------------------------------------
(* config.Load, config.Save's yaml, and main's overrides                   *)

TopicOf(client) == "gateway/" \o client \o "/data"

\* Load's defaults, after expansion.
Normalized(raw) ==
  LET client == IF raw.client = Blank THEN raw.id ELSE raw.client
  IN  [raw EXCEPT !.client = client,
                  !.topic = IF @ = Blank THEN TopicOf(client) ELSE @]

\* yaml.Unmarshal of the expanded text fails, or gives
Load(content) == Normalized([f \in FieldSet |-> Expand(content[f])])

Loads(content) == content # Garbled /\ \A f \in FieldSet : Expand(content[f]) # Unparsable

\* The environment wins over the file, at every start.
Overridden(c) == [f \in FieldSet |-> IF f \in DOMAIN Env THEN Env[f] ELSE c[f]]

Boot(content) == Overridden(Load(content))

SettingsInit ==
  /\ file = FirstFile
  /\ cfg = Boot(FirstFile) /\ inForce = cfg
  /\ up = TRUE /\ exits = 0
  /\ req = [r \in Requests |-> Idle]
  /\ budget \in Mixes
  /\ want = NoWant /\ loaded = FALSE
  /\ whole = TRUE /\ cutShort = FALSE /\ overlap = FALSE

-----------------------------------------------------------------------------
(* saveSettings                                                            *)

\* Mutant: nothing is required.
AcceptsAny(dto) == TRUE

Accepts(dto) == dto.id # Blank /\ dto.broker # Blank

Busy(r) == \E q \in Requests \ {r} : req[q].pc # "idle"

\* What a save that nobody disturbs amounts to
Expected(dto) ==
  [f \in FieldSet |-> IF f \in KeptIfBlank /\ dto[f] = Blank THEN cfg[f] ELSE dto[f]]

\* A request arrives; without an id and a broker it is refused at once.
Submit(r, dto) ==
  /\ up /\ req[r].pc = "idle" /\ budget.requests > 0 /\ Accepts(dto)
  /\ req' = [q \in Requests |->
               IF q = r
               THEN [Idle EXCEPT !.pc = "assign", !.dto = dto,
                                 !.expect = IF Busy(r) THEN NoWant ELSE Expected(dto)]
               ELSE [req[q] EXCEPT !.expect = NoWant]]
  /\ overlap' = (overlap \/ Busy(r))
  /\ budget' = [budget EXCEPT !.requests = @ - 1]
  /\ UNCHANGED <<file, cfg, inForce, up, exits, want, loaded, whole, cutShort>>

\* One assignment to s.cfg.
Assign(r) ==
  LET f == Fields[req[r].k]
      v == req[r].dto[f]
  IN  /\ req[r].pc = "assign"
      /\ ~ (f = "ntp" /\ v = BadNTP)
      /\ cfg' = IF f \in KeptIfBlank /\ v = Blank THEN cfg ELSE [cfg EXCEPT ![f] = v]
      /\ req' = [req EXCEPT ![r].pc = IF req[r].k = Len(Fields) THEN "marshal" ELSE @,
                            ![r].k = (@ % Len(Fields)) + 1]
      /\ UNCHANGED <<file, inForce, up, exits, budget, want, loaded, whole, cutShort, overlap>>

\* The NTP server is refused; everything assigned so far stays assigned.
RejectNTP(r) ==
  /\ req[r].pc = "assign" /\ Fields[req[r].k] = "ntp" /\ req[r].dto.ntp = BadNTP
  /\ req' = [req EXCEPT ![r] = Idle]
  /\ UNCHANGED <<file, cfg, inForce, up, exits, budget, want, loaded, whole, cutShort, overlap>>

\* Mutant: what is written is what was submitted.
MarshalDTO(r, f) == req[r].dto[f]

\* yaml.Marshal reads the shared configuration.
MarshalField(r, f) == cfg[f]

Marshal(r) ==
  LET f == Fields[req[r].k]
  IN  /\ req[r].pc = "marshal"
      /\ req' = [req EXCEPT ![r].data[f] = MarshalField(r, f),
                            ![r].pc = IF req[r].k = Len(Fields) THEN "truncate" ELSE @,
                            ![r].k = (@ % Len(Fields)) + 1]
      /\ UNCHANGED <<file, cfg, inForce, up, exits, budget, want, loaded, whole, cutShort, overlap>>

\* Mutant: the old contents stay until they are written over.
OpenKeeps(content) == content

\* os.WriteFile opens with O_TRUNC ...
Opened(content) == Empty

Truncate(r) ==
  /\ req[r].pc = "truncate"
  /\ file' = Opened(file) /\ whole' = FALSE
  /\ req' = [req EXCEPT ![r].pc = "write"]
  /\ want' = NoWant
  /\ UNCHANGED <<cfg, inForce, up, exits, budget, loaded, cutShort, overlap>>

\* The text up to field k, whose value is missing or cut
Prefix(data, k, v) ==
  [f \in FieldSet |-> IF \E j \in 1..(k - 1) : Fields[j] = f THEN data[f]
                      ELSE IF f = Fields[k] THEN v ELSE Blank]

\* ... and writes from the start, possibly only a part at first, which may end
\* where the text does not parse.
WritePart(r) ==
  /\ req[r].pc = "write" /\ budget.parts
  /\ \/ \E k \in 1..Len(Fields), v \in {Blank, Cut} :
          (k > 1 \/ v = Cut) /\ file' = Prefix(req[r].data, k, v)
     \/ file' = Garbled
  /\ whole' = FALSE
  /\ req' = [req EXCEPT ![r].pc = "rest", ![r].part = file']
  /\ want' = NoWant
  /\ UNCHANGED <<cfg, inForce, up, exits, budget, loaded, cutShort, overlap>>

\* All of it is written.  Another save has changed a file that is not as r left
\* it: the rest of a longer text stays behind r's, or r's rest follows another
\* beginning (a gap, if the other has just emptied the file), and the file may
\* not parse.
Write(r) ==
  /\ req[r].pc \in {"write", "rest"}
  /\ \/ (req[r].pc = "write" \/ file # Empty) /\ file' = req[r].data
     \/ file # req[r].part /\ file' = Garbled
  /\ whole' = TRUE
  /\ exits' = exits + 1
  /\ want' = IF file' = Garbled THEN NoWant ELSE req[r].expect
  /\ loaded' = FALSE
  /\ req' = [req EXCEPT ![r] = Idle]
  /\ UNCHANGED <<cfg, inForce, up, budget, cutShort, overlap>>

\* The disk is full: the request fails; the file is empty or has a part.
WriteError(r) ==
  /\ req[r].pc \in {"write", "rest"} /\ budget.writeErrors > 0
  /\ budget' = [budget EXCEPT !.writeErrors = @ - 1]
  /\ req' = [req EXCEPT ![r] = Idle]
  /\ UNCHANGED <<file, cfg, inForce, up, exits, want, loaded, whole, cutShort, overlap>>

-----------------------------------------------------------------------------
(* The process                                                             *)

Down ==
  /\ up' = FALSE /\ exits' = 0
  /\ req' = [r \in Requests |-> Idle]
  /\ cutShort' = (cutShort \/ ~ whole)
  /\ UNCHANGED <<file, cfg, inForce, want, loaded, whole, overlap>>

\* 300 ms after an accepted save
Exit == up /\ exits > 0 /\ Down /\ UNCHANGED budget

Crash ==
  /\ up /\ budget.crashes > 0 /\ Down
  /\ budget' = [budget EXCEPT !.crashes = @ - 1]

\* main panics if Load fails: the supervisor tries in vain.
Start ==
  /\ ~ up /\ Loads(file)
  /\ up' = TRUE /\ loaded' = TRUE
  /\ cfg' = Boot(file) /\ inForce' = Boot(file)
  /\ UNCHANGED <<file, exits, req, budget, want, whole, cutShort, overlap>>

SettingsStep ==
  \E r \in Requests :
    \/ \E dto \in DTOs : Submit(r, dto)
    \/ Assign(r) \/ RejectNTP(r) \/ Marshal(r) \/ Truncate(r)
    \/ WritePart(r) \/ Write(r) \/ WriteError(r)

-----------------------------------------------------------------------------
\* saveSettings "restarts the process so they take effect": an accepted save
\* that no other request overlapped is in force after the restart, field by
\* field, with the exceptions the code makes: the environment overrides, a $
\* is expanded, and a client id or a topic that is blank then gets its default.
AcceptedTakesEffect ==
  want # NoWant /\ loaded /\ up =>
    LET asked(f) == IF want[f] \in DOMAIN Expansion THEN Expansion[want[f]] ELSE want[f]
        asAsked(f, default) == inForce[f] = IF asked(f) = Blank THEN default ELSE asked(f)
    IN  /\ \A f \in FieldSet \ (DOMAIN Env \cup {"client", "topic"}) : inForce[f] = asked(f)
        /\ asAsked("client", inForce.id)
        /\ asAsked("topic", TopicOf(inForce.client))

\* The gateway runs only under an identity somebody gave it (its sequence
\* numbers belong to it), however saves overlap, are refused or fail, unless
\* the process ended while config.yaml was empty or half written.
IdentityKept ==
  LET given == ({d.id : d \in DTOs} \ {Blank}) \cup {FirstFile.id}
  IN  up /\ inForce.id \notin {Expand(v) : v \in given} => cutShort

\* The text of config.yaml is broken only by saves that overlap and while, or
\* after, a save stopped half way: a save that was completed alone repairs it.
\* What Load expands the text to before it parses it is another matter: a value
\* with a $ in it can break that (Loads), and the gateway does not start.
GarbledOnlyByTear == file = Garbled => overlap \/ ~ whole
=============================================================================

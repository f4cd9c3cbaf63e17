------------------------- MODULE GatewayProcessProofs -------------------------
(***************************************************************************)
(* Proofs about GatewayProcess, for any number of requests, any settings,  *)
(* environment and file, and any errors of the clocks: what saving         *)
(* settings and the restart after it guarantee, and how well the Time      *)
(* Service sets the hardware clock.                                        *)
(***************************************************************************)
EXTENDS GatewayProcess, TLAPS

\* Off by no more than half of what the two ways of an exchange differ.
Close(ahd) == 2 * Abs(ahd) <= MaxDelay + 1

\* What was measured in the first era and is yet to be written puts the
\* hardware clock right, and is a time the kernel takes.
MeasuredInv ==
  sync \in {"publish", "write"} /\ ~ measured.wrapped =>
    Close(ahead + measured.offset) /\ measured.at > Epoch + MaxDelay

\* The two parts of RTCDisciplined: what is set is right, and a clock that
\* works is set.
RightIfSet == rtc.set /\ ~ rtc.wrapped => Close(rtc.ahead)
SetBySync ==
  sync = "wait" /\ status.synced /\ ~ measured.wrapped /\ rtc.present /\ ~ rtc.faulty =>
    rtc.set /\ ~ rtc.wrapped

-----------------------------------------------------------------------------
(* The arithmetic of an NTP exchange.                                      *)

\* Go's division by two is off by one half at most.
LEMMA HalfBounds ==
  ASSUME NEW n \in Int
  PROVE  Half(n) \in Int /\ n - 1 <= 2 * Half(n) /\ 2 * Half(n) <= n + 1
BY DEF Half

\* The era of a time, in the first two, and its seconds on the wire.
LEMMA EraOf ==
  ASSUME NEW x \in Nat
  PROVE  /\ x < Era => x \div Era = 0
         /\ Era <= x /\ x < 2 * Era => x \div Era = 1
         /\ x \div Era = 0 => x % Era = x
         /\ x \div Era = 1 => x % Era = x - Era
BY TimeAssumption

(* The seconds an NTP packet carries, where both ends of the delay are in  *)
(* one era.                                                                *)
LEMMA WireTime ==
  ASSUME NEW t \in 0..(2 * Era - 1), NEW d \in Nat, t \div Era = (t + d) \div Era
  PROVE  NTPTime(t + d) = t + d - (IF t >= Era THEN Era ELSE 0)
<1>1. CASE t < Era
  BY <1>1, EraOf, TimeAssumption DEF NTPTime
<1>2. CASE t >= Era
  BY <1>2, EraOf, TimeAssumption DEF NTPTime
<1> QED BY <1>1, <1>2, TimeAssumption

\* The offset queryNTP returns puts a clock right up to the difference of the
\* two delays, in the first era.
LEMMA OffsetCorrects ==
  ASSUME TimeTypeOK, NEW t \in Times, NEW d1 \in 0..MaxDelay, NEW d2 \in 0..MaxDelay,
         t \div Era = (t + d1) \div Era
  PROVE  /\ QueryNTP(t, d1, d2) \in Int /\ t + d1 + d2 \in Nat
         /\ ~ (t >= Era) => Close(ahead + QueryNTP(t, d1, d2))
<1> DEFINE era == IF t >= Era THEN Era ELSE 0
           n == (d1 - d2) - 2 * (ahead + era)
<1>0. /\ t \in 0..(2 * Era - 1) /\ t \in Nat /\ d1 \in Nat /\ d2 \in Nat /\ ahead \in Int
      /\ era \in Nat /\ MaxDelay \in Nat /\ d1 <= MaxDelay /\ d2 <= MaxDelay
  BY TimeAssumption DEF TimeTypeOK
<1>1. NTPTime(t + d1) = t + d1 - era
  BY <1>0, WireTime
<1>2. QueryNTP(t, d1, d2) = Half(n)
  <2>1. ((NTPTime(t + d1) - (t + ahead)) + (NTPTime(t + d1) - (t + d1 + d2 + ahead))) = n
    <3> HIDE DEF era
    <3> QED BY <1>0, <1>1
  <2> QED BY <2>1 DEF QueryNTP, Offset
<1>3. /\ n \in Int /\ Half(n) \in Int
      /\ n - 1 <= 2 * Half(n) /\ 2 * Half(n) <= n + 1
  <2>1. n \in Int
    <3> HIDE DEF era
    <3> QED BY <1>0
  <2> HIDE DEF n
  <2> QED BY <2>1, HalfBounds
<1>4. 2 * Abs(ahead + Half(n) + era) <= MaxDelay + 1
  <2>1. n = (d1 - d2) - 2 * (ahead + era)
    OBVIOUS
  <2> HIDE DEF era, n
  <2>2. PICK h \in Int : h = Half(n)
    BY <1>3
  <2>3. 2 * (ahead + h + era) <= MaxDelay + 1 /\ 0 - (MaxDelay + 1) <= 2 * (ahead + h + era)
    BY <1>0, <1>3, <2>1, <2>2
  <2> QED BY <1>0, <2>2, <2>3 DEF Abs
<1>5. ~ (t >= Era) => ahead + Half(n) + era = ahead + Half(n)
  <2> HIDE DEF n
  <2> QED BY <1>0, <1>3
<1>6. t + d1 + d2 \in Nat
  BY <1>0
<1> HIDE DEF era, n
<1> QED BY <1>2, <1>3, <1>4, <1>5, <1>6 DEF Close

-----------------------------------------------------------------------------
(* The Time Service.                                                       *)

\* The steps of the composition, by what they do to the Time Service.
LEMMA TimeKinds ==
  ASSUME [Next]_vars
  PROVE  UNCHANGED tVars \/ TimeStep(inForce.ntp) \/ Flip \/ TimeRestart
BY DEF Next, SaveStep, Stop, Restart, SyncStep, Outage, vars

(* Every step of the process keeps the types of the Time Service.          *)
LEMMA TimeTypeInductive == TimeTypeOK /\ [Next]_vars => TimeTypeOK'
<1> DEFINE Status == [synced : BOOLEAN, quality : {"SYNCED", "RTC", "UNSYNCED", "INVALID"},
                      rtcAvailable : BOOLEAN]
           Clock == [present : BOOLEAN, faulty : BOOLEAN, ahead : Int, set : BOOLEAN, wrapped : BOOLEAN]
           Answer == [offset : Int, at : Nat, wrapped : BOOLEAN]
<1> SUFFICES ASSUME TimeTypeOK, [Next]_vars PROVE TimeTypeOK'
  OBVIOUS
<1>a. /\ status \in Status /\ (status.synced <=> status.quality = "SYNCED")
      /\ rtc \in Clock /\ measured \in Answer
      /\ ahead \in Int
  BY TimeAssumption DEF TimeTypeOK
<1>0. CASE UNCHANGED tVars
  BY <1>0 DEF tVars, TimeTypeOK
<1>1. CASE CheckRTC
  <2>1. PICK ok \in {FALSE, rtc.present} : status' = [status EXCEPT !.rtcAvailable = ok]
    BY <1>1 DEF CheckRTC
  <2>2. status' \in Status /\ status'.synced = status.synced /\ status'.quality = status.quality
    BY <1>a, <2>1
  <2> QED BY <1>1, <1>a, <2>2 DEF CheckRTC, TimeTypeOK
<1>2. CASE SyncFails(inForce.ntp)
  <2>1. status' \in Status /\ status'.synced = FALSE /\ status'.quality # "SYNCED"
    BY <1>a, <1>2 DEF SyncFails, Degraded
  <2> QED BY <1>2, <2>1 DEF SyncFails, TimeTypeOK
<1>3. CASE Query(inForce.ntp)
  <2>1. measured' \in Answer
    <3>1. PICK t \in Times, d1 \in 0..MaxDelay, d2 \in 0..MaxDelay :
            /\ t \div Era = (t + d1) \div Era
            /\ measured' = [offset |-> QueryNTP(t, d1, d2), at |-> t + d1 + d2, wrapped |-> t >= Era]
      BY <1>3 DEF Query
    <3>2. QueryNTP(t, d1, d2) \in Int /\ t + d1 + d2 \in Nat
      BY <3>1, OffsetCorrects
    <3> QED BY <3>1, <3>2
  <2> QED BY <1>3, <2>1 DEF Query, TimeTypeOK
<1>4. CASE Publish
  <2>1. status' \in Status /\ status'.synced = TRUE /\ status'.quality = "SYNCED"
    BY <1>a, <1>4 DEF Publish
  <2> QED BY <1>4, <2>1 DEF Publish, TimeTypeOK
<1>5. CASE WriteRTC
  <2>1. rtc' \in Clock
    <3>1. ahead + measured.offset \in Int /\ measured.wrapped \in BOOLEAN
      BY <1>a
    <3>2. \/ rtc' = rtc
          \/ rtc' = [rtc EXCEPT !.ahead = ahead + measured.offset, !.set = TRUE,
                                !.wrapped = measured.wrapped]
      BY <1>5 DEF WriteRTC
    <3> QED BY <1>a, <3>1, <3>2
  <2> QED BY <1>5, <2>1 DEF WriteRTC, NotMeasured, TimeTypeOK
<1>6. CASE NextSync
  BY <1>6 DEF NextSync, NotMeasured, TimeTypeOK
<1>7. CASE Flip
  BY <1>7 DEF Flip, TimeTypeOK
<1>8. CASE TimeRestart
  BY <1>8 DEF TimeRestart, NewService, NotMeasured, TimeTypeOK
<1> QED BY <1>0, <1>1, <1>2, <1>3, <1>4, <1>5, <1>6, <1>7, <1>8, TimeKinds DEF TimeStep

(* Every step keeps what was measured within the error of the exchange,    *)
(* and the hardware clock with it.                                         *)
LEMMA RTCInductive ==
  TimeTypeOK /\ MeasuredInv /\ RTCDisciplined /\ [Next]_vars => MeasuredInv' /\ RTCDisciplined'
<1> SUFFICES ASSUME TimeTypeOK, MeasuredInv, RTCDisciplined, [Next]_vars
             PROVE  MeasuredInv' /\ RTCDisciplined'
  OBVIOUS
<1>r. RightIfSet /\ SetBySync
  BY DEF RTCDisciplined, RightIfSet, SetBySync, Close
<1>s. RightIfSet' /\ SetBySync' => RTCDisciplined'
  BY DEF RTCDisciplined, RightIfSet, SetBySync, Close
<1>0. CASE UNCHANGED <<sync, status, measured, ahead, rtc>>
  BY <1>0, <1>r, <1>s DEF MeasuredInv, RightIfSet, SetBySync
<1>1. CASE CheckRTC \/ SyncFails(inForce.ntp) \/ NextSync \/ TimeRestart
  <2>1. sync' \in {"query", "rtc"} \/ (sync' = "wait" /\ ~ status'.synced)
    BY <1>1 DEF CheckRTC, SyncFails, Degraded, NextSync, TimeRestart, TimeTypeOK
  <2>2. rtc' = rtc
    BY <1>1 DEF CheckRTC, SyncFails, NextSync, TimeRestart
  <2>3. MeasuredInv' /\ SetBySync'
    BY <2>1 DEF MeasuredInv, SetBySync
  <2> QED BY <1>r, <1>s, <2>2, <2>3 DEF RightIfSet
<1>2. CASE Query(inForce.ntp)
  <2>1. PICK t \in Times, d1 \in 0..MaxDelay, d2 \in 0..MaxDelay :
          /\ t \div Era = (t + d1) \div Era
          /\ measured' = [offset |-> QueryNTP(t, d1, d2), at |-> t + d1 + d2, wrapped |-> t >= Era]
    BY <1>2 DEF Query
  <2>2. ~ (t >= Era) => Close(ahead + QueryNTP(t, d1, d2))
    BY <2>1, OffsetCorrects
  <2>3. ahead' = ahead /\ rtc' = rtc /\ sync' = "publish"
    BY <1>2 DEF Query
  <2>4. t + d1 + d2 > Epoch + MaxDelay
    BY <2>1, TimeAssumption
  <2>5. MeasuredInv'
    BY <2>1, <2>2, <2>3, <2>4 DEF MeasuredInv
  <2> QED BY <1>r, <1>s, <2>3, <2>5 DEF RightIfSet, SetBySync
<1>3. CASE Publish
  <2>1. sync = "publish" /\ sync' = "write" /\ UNCHANGED <<measured, ahead, rtc>>
    BY <1>3 DEF Publish
  <2> QED BY <1>r, <1>s, <2>1 DEF MeasuredInv, RightIfSet, SetBySync
<1>4. CASE WriteRTC
  <2>t. ahead \in Int /\ measured.at \in Int /\ measured.offset \in Int
    BY TimeAssumption DEF TimeTypeOK
  <2> DEFINE time == measured.at + ahead + measured.offset
  <2>1. /\ ~ measured.wrapped => Close(ahead + measured.offset)
        /\ sync' = "wait" /\ measured'.wrapped = measured.wrapped
    BY <1>4 DEF WriteRTC, MeasuredInv, NotMeasured
  <2>2. ~ measured.wrapped => time >= Epoch
    <3>1. SUFFICES ASSUME ~ measured.wrapped PROVE time >= Epoch
      OBVIOUS
    <3>2. Close(ahead + measured.offset) /\ measured.at > Epoch + MaxDelay
      BY <1>4, <3>1 DEF WriteRTC, MeasuredInv
    <3> QED BY <3>2, <2>t, TimeAssumption DEF Close, Abs
  <2>3. MeasuredInv'
    BY <2>1 DEF MeasuredInv
  <2>4. CASE Settable(time) /\ rtc' = [rtc EXCEPT !.ahead = ahead + measured.offset,
                                                  !.set = TRUE, !.wrapped = measured.wrapped]
    <3>1. /\ rtc'.ahead = ahead + measured.offset /\ rtc'.set
          /\ rtc'.wrapped = measured.wrapped
      BY <2>4 DEF TimeTypeOK
    <3> QED BY <1>s, <2>1, <2>3, <3>1 DEF RightIfSet, SetBySync
  <2>5. CASE (~ Settable(time) \/ rtc.faulty) /\ rtc' = rtc
    <3>1. RightIfSet'
      BY <1>r, <2>5 DEF RightIfSet
    <3>2. SetBySync'
      BY <2>1, <2>2, <2>5 DEF SetBySync, Settable
    <3> QED BY <1>s, <2>3, <3>1, <3>2
  <2> QED BY <1>4, <2>4, <2>5 DEF WriteRTC
<1>5. ASSUME UNCHANGED tVars \/ Flip PROVE UNCHANGED <<sync, status, measured, ahead, rtc>>
  BY <1>5 DEF tVars, Flip
<1> QED BY <1>0, <1>1, <1>2, <1>3, <1>4, <1>5, TimeKinds DEF TimeStep

(* The Time Service starts with nothing measured and nothing written.      *)
LEMMA TimeInitOK == Init => TimeTypeOK /\ MeasuredInv /\ RTCDisciplined
<1> SUFFICES ASSUME Init PROVE TimeTypeOK /\ MeasuredInv /\ RTCDisciplined
  OBVIOUS
<1>1. TimeInit
  BY DEF Init
<1>2. /\ rtc \in [present : BOOLEAN, faulty : BOOLEAN, ahead : Int, set : BOOLEAN, wrapped : BOOLEAN]
      /\ rtc.set = FALSE
  <2>1. PICK p \in BOOLEAN, b \in BOOLEAN, a \in {0}, set \in {FALSE}, w \in {FALSE} :
          rtc = [present |-> p, faulty |-> b, ahead |-> a, set |-> set, wrapped |-> w]
    BY <1>1 DEF TimeInit
  <2>2. a \in Int
    OBVIOUS
  <2> QED BY <2>1, <2>2
<1>3. TimeTypeOK
  BY <1>1, <1>2 DEF TimeInit, NewService, NotMeasured, TimeTypeOK
<1>4. MeasuredInv /\ sync = "rtc"
  BY <1>1 DEF TimeInit, MeasuredInv
<1> QED BY <1>2, <1>3, <1>4 DEF RTCDisciplined

(***************************************************************************)
(* In the first NTP era a hardware clock whose ioctls work is set after    *)
(* every sync, and one the service has set is off by no more than half of  *)
(* what the two ways of an exchange differ, rounded, whatever the system   *)
(* clock said and however many queries, writes and processes failed or     *)
(* ended since.                                                            *)
(***************************************************************************)
THEOREM RTCRight == Spec => []RTCDisciplined
<1>1. TimeTypeOK /\ MeasuredInv /\ RTCDisciplined /\ [Next]_vars
        => (TimeTypeOK /\ MeasuredInv /\ RTCDisciplined)'
  BY TimeTypeInductive, RTCInductive
<1> QED BY <1>1, TimeInitOK, PTL DEF Spec

-----------------------------------------------------------------------------
(* Settings: the state, and what a step does to the requests.              *)

ReqFields == {"pc", "dto", "k", "data", "part", "expect"}

RequestOK(q) ==
  /\ DOMAIN q = ReqFields
  /\ q.pc \in {"idle", "assign", "marshal", "truncate", "write", "rest"} /\ q.k \in 1..6
  /\ DOMAIN q.dto = FieldSet /\ DOMAIN q.data = FieldSet /\ DOMAIN q.expect = FieldSet
  /\ q.pc \in {"idle", "truncate", "write", "rest"} => q.k = 1
  /\ q.pc \notin {"idle", "rest"} => q.part = Empty
  /\ q.pc = "idle" => q.expect = NoWant

ReqOK == DOMAIN req = Requests /\ \A r \in Requests : RequestOK(req[r])

FilesOK ==
  /\ DOMAIN file = FieldSet /\ DOMAIN cfg = FieldSet
  /\ DOMAIN inForce = FieldSet /\ DOMAIN want = FieldSet

ProcessOK ==
  /\ up \in BOOLEAN /\ exits \in Nat /\ (exits > 0 => up)
  /\ \A r \in Requests : req[r].pc # "idle" => up
  /\ loaded \in BOOLEAN /\ whole \in BOOLEAN /\ cutShort \in BOOLEAN /\ overlap \in BOOLEAN

SettingsOK == ReqOK /\ FilesOK /\ ProcessOK

(* The order in which saveSettings assigns the fields.                     *)
LEMMA FieldFacts ==
  /\ Len(Fields) = 6
  /\ FieldSet = {"id", "broker", "client", "password", "topic", "ntp"}
  /\ \A j \in 1..6 : Fields[j] \in FieldSet /\ (Fields[j] = "id" <=> j = 1)
  /\ \A j, k \in 1..6 : Fields[j] = Fields[k] => j = k
  /\ \A f \in FieldSet : \E j \in 1..6 : Fields[j] = f
<1>1. Len(Fields) = 6
  BY DEF Fields
<1>2. /\ Fields[1] = "id" /\ Fields[2] = "broker" /\ Fields[3] = "client"
      /\ Fields[4] = "password" /\ Fields[5] = "topic" /\ Fields[6] = "ntp"
  BY DEF Fields
<1>3. \A j \in 1..6 : j = 1 \/ j = 2 \/ j = 3 \/ j = 4 \/ j = 5 \/ j = 6
  OBVIOUS
<1>4. FieldSet = {"id", "broker", "client", "password", "topic", "ntp"}
  BY <1>1, <1>2, <1>3 DEF FieldSet
<1>5. \A j \in 1..6 : Fields[j] \in FieldSet /\ (Fields[j] = "id" <=> j = 1)
  BY <1>2, <1>3, <1>4
<1>6. \A j, k \in 1..6 : Fields[j] = Fields[k] => j = k
  BY <1>2, <1>3
<1>7. \A f \in FieldSet : \E j \in 1..6 : Fields[j] = f
  BY <1>2, <1>4
<1> QED BY <1>1, <1>4, <1>5, <1>6, <1>7

\* After the last field comes the first.
LEMMA NextField ==
  ASSUME NEW k \in 1..6
  PROVE  (k % Len(Fields)) + 1 = IF k = 6 THEN 1 ELSE k + 1
BY FieldFacts

(* A request that has not begun is well typed.                             *)
LEMMA IdleOK == RequestOK(Idle) /\ DOMAIN Empty = FieldSet /\ Idle.pc = "idle"
BY DEF RequestOK, Idle, Empty, NoWant, ReqFields

\* What main makes of a file: a full configuration, whose identity only
\* expansion changes.
LEMMA BootFacts ==
  ASSUME NEW c, DOMAIN c = FieldSet
  PROVE  /\ DOMAIN Boot(c) = FieldSet
         /\ \A f \in FieldSet \ (DOMAIN Env \cup {"client", "topic"}) : Boot(c)[f] = Expand(c[f])
         /\ Boot(c).id = Expand(c.id)
         /\ Boot(c).client = IF Expand(c.client) = Blank THEN Boot(c).id ELSE Expand(c.client)
         /\ Boot(c).topic = IF Expand(c.topic) = Blank THEN TopicOf(Boot(c).client)
                            ELSE Expand(c.topic)
<1> DEFINE raw == [f \in FieldSet |-> Expand(c[f])]
           client == IF raw.client = Blank THEN raw.id ELSE raw.client
           topic == IF raw.topic = Blank THEN TopicOf(client) ELSE raw.topic
<1>0. {"id", "client", "topic"} \subseteq FieldSet /\ DOMAIN Env \subseteq {"broker", "ntp"}
  BY FieldFacts, SettingsAssumption
<1>1. Load(c) = [raw EXCEPT !.client = client, !.topic = topic]
  BY <1>0 DEF Load, Normalized
<1>2. /\ DOMAIN Load(c) = FieldSet
      /\ \A f \in FieldSet \ {"client", "topic"} : Load(c)[f] = Expand(c[f])
      /\ Load(c).client = client /\ Load(c).topic = topic
  <2> HIDE DEF client, topic
  <2> QED BY <1>0, <1>1
<1>3. Boot(c) = [f \in FieldSet |-> IF f \in DOMAIN Env THEN Env[f] ELSE Load(c)[f]]
  BY DEF Boot, Overridden
<1>4. Boot(c).id = Load(c).id /\ Boot(c).client = client /\ Boot(c).topic = topic
  <2> HIDE DEF client, topic
  <2> QED BY <1>0, <1>2, <1>3
<1>5. raw.id = Expand(c.id) /\ raw.client = Expand(c.client) /\ raw.topic = Expand(c.topic)
  BY <1>0
<1>6. Load(c).id = Expand(c.id)
  BY <1>0, <1>2
<1>7. \A f \in FieldSet \ (DOMAIN Env \cup {"client", "topic"}) : Boot(c)[f] = Expand(c[f])
  BY <1>2, <1>3
<1>8. DOMAIN Boot(c) = FieldSet
  BY <1>3
<1> HIDE DEF raw
<1> QED BY <1>4, <1>5, <1>6, <1>7, <1>8

\* A request that starts.
LEMMA SubmitEffect ==
  ASSUME SettingsOK, NEW r \in Requests, NEW dto \in DTOs, Submit(r, dto)
  PROVE  /\ DOMAIN req' = Requests
         /\ RequestOK(req'[r]) /\ req'[r].pc = "assign" /\ req'[r].k = 1 /\ req'[r].dto = dto
         /\ req'[r].data = Empty
         /\ req'[r].expect = IF Busy(r) THEN NoWant ELSE Expected(dto)
         /\ \A q \in Requests \ {r} :
              /\ RequestOK(req'[q]) /\ req'[q].pc = req[q].pc /\ req'[q].k = req[q].k
              /\ req'[q].dto = req[q].dto /\ req'[q].data = req[q].data /\ req'[q].part = req[q].part
              /\ req'[q].expect = NoWant
         /\ UNCHANGED <<file, cfg, inForce, up, exits, want, loaded, whole, cutShort>>
         /\ overlap' = (overlap \/ Busy(r)) /\ up
<1> DEFINE e == IF Busy(r) THEN NoWant ELSE Expected(dto)
<1>0. DOMAIN e = FieldSet /\ DOMAIN dto = FieldSet /\ DOMAIN NoWant = FieldSet
  BY SettingsAssumption DEF NoWant, Expected
<1>1. /\ req' = [q \in Requests |->
                   IF q = r THEN [Idle EXCEPT !.pc = "assign", !.dto = dto, !.expect = e]
                   ELSE [req[q] EXCEPT !.expect = NoWant]]
      /\ UNCHANGED <<file, cfg, inForce, up, exits, want, loaded, whole, cutShort>>
      /\ overlap' = (overlap \/ Busy(r)) /\ up
  BY DEF Submit
<1> HIDE DEF e
<1>2. req'[r] = [pc |-> "assign", dto |-> dto, k |-> 1, data |-> Empty, part |-> Empty,
                  expect |-> e]
  BY <1>1 DEF Idle
<1>3. RequestOK(req'[r])
  BY <1>0, <1>2, IdleOK DEF RequestOK, ReqFields
<1>4. ASSUME NEW q \in Requests \ {r}
      PROVE  /\ RequestOK(req'[q]) /\ req'[q].pc = req[q].pc /\ req'[q].k = req[q].k
             /\ req'[q].dto = req[q].dto /\ req'[q].data = req[q].data /\ req'[q].part = req[q].part
              /\ req'[q].expect = NoWant
  <2>1. req'[q] = [req[q] EXCEPT !.expect = NoWant] /\ RequestOK(req[q])
    BY <1>1 DEF SettingsOK, ReqOK
  <2> QED BY <1>0, <2>1 DEF RequestOK, ReqFields
<1> QED BY <1>1, <1>2, <1>3, <1>4 DEF e

\* A step of a request r leaves the others alone.
OthersKept(r) == DOMAIN req' = Requests /\ \A q \in Requests \ {r} : req'[q] = req[q]

(* One assignment of saveSettings: one field, unless it is blank and then  *)
(* kept.                                                                   *)
LEMMA AssignEffect ==
  ASSUME SettingsOK, NEW r \in Requests, Assign(r)
  PROVE  LET f == Fields[req[r].k]
             v == req[r].dto[f]
         IN  /\ OthersKept(r) /\ RequestOK(req'[r]) /\ req[r].pc = "assign"
             /\ cfg' = IF f \in KeptIfBlank /\ v = Blank THEN cfg ELSE [cfg EXCEPT ![f] = v]
             /\ DOMAIN cfg' = FieldSet
             /\ req'[r].pc = IF req[r].k = 6 THEN "marshal" ELSE "assign"
             /\ req'[r].k = IF req[r].k = 6 THEN 1 ELSE req[r].k + 1
             /\ req'[r].dto = req[r].dto /\ req'[r].data = req[r].data
             /\ req'[r].expect = req[r].expect
             /\ UNCHANGED <<file, inForce, up, exits, want, loaded, whole, cutShort, overlap>>
<1> DEFINE pc == IF req[r].k = 6 THEN "marshal" ELSE "assign"
           k == IF req[r].k = 6 THEN 1 ELSE req[r].k + 1
<1>0. DOMAIN req = Requests /\ RequestOK(req[r]) /\ req[r].k \in 1..6 /\ req[r].pc = "assign"
  BY DEF SettingsOK, ReqOK, RequestOK, Assign
<1>1. req' = [req EXCEPT ![r] = [req[r] EXCEPT !.pc = pc, !.k = k]]
  BY <1>0, NextField, FieldFacts DEF Assign, RequestOK, ReqFields
<1>2. pc \in {"marshal", "assign"} /\ k \in 1..6
  BY <1>0
<1> HIDE DEF pc, k
<1>3. /\ OthersKept(r) /\ RequestOK(req'[r]) /\ req'[r].pc = pc /\ req'[r].k = k
      /\ req'[r].dto = req[r].dto /\ req'[r].data = req[r].data /\ req'[r].expect = req[r].expect
  BY <1>0, <1>1, <1>2 DEF RequestOK, ReqFields, OthersKept
<1>4. DOMAIN cfg' = FieldSet
  BY DEF SettingsOK, FilesOK, Assign
<1> QED BY <1>0, <1>3, <1>4 DEF Assign, pc, k

(* yaml.Marshal reads one field of the shared configuration.               *)
LEMMA MarshalEffect ==
  ASSUME SettingsOK, NEW r \in Requests, Marshal(r)
  PROVE  LET f == Fields[req[r].k]
         IN  /\ OthersKept(r) /\ RequestOK(req'[r]) /\ req[r].pc = "marshal"
             /\ req'[r].data = [req[r].data EXCEPT ![f] = cfg[f]]
             /\ req'[r].pc = IF req[r].k = 6 THEN "truncate" ELSE "marshal"
             /\ req'[r].k = IF req[r].k = 6 THEN 1 ELSE req[r].k + 1
             /\ req'[r].dto = req[r].dto /\ req'[r].expect = req[r].expect
             /\ UNCHANGED <<file, cfg, inForce, up, exits, want, loaded, whole, cutShort, overlap>>
<1> DEFINE f == Fields[req[r].k]
           pc == IF req[r].k = 6 THEN "truncate" ELSE "marshal"
           k == IF req[r].k = 6 THEN 1 ELSE req[r].k + 1
           data == [req[r].data EXCEPT ![f] = cfg[f]]
<1>0. DOMAIN req = Requests /\ RequestOK(req[r]) /\ req[r].k \in 1..6 /\ req[r].pc = "marshal"
  BY DEF SettingsOK, ReqOK, RequestOK, Marshal
<1>1. req' = [req EXCEPT ![r] = [req[r] EXCEPT !.data = data, !.pc = pc, !.k = k]]
  BY <1>0, NextField, FieldFacts DEF Marshal, MarshalField, RequestOK, ReqFields
<1>2. /\ pc \in {"truncate", "marshal"} /\ k \in 1..6 /\ (pc = "truncate" => k = 1)
      /\ DOMAIN data = FieldSet
  BY <1>0 DEF RequestOK
<1> HIDE DEF pc, k, data
<1>3. /\ OthersKept(r) /\ RequestOK(req'[r]) /\ req'[r].pc = pc /\ req'[r].k = k
      /\ req'[r].dto = req[r].dto /\ req'[r].data = data /\ req'[r].expect = req[r].expect
  BY <1>0, <1>1, <1>2 DEF RequestOK, ReqFields, OthersKept
<1> QED BY <1>0, <1>3 DEF Marshal, pc, k, data

(* Opening config.yaml for writing empties it.                             *)
LEMMA TruncateEffect ==
  ASSUME SettingsOK, NEW r \in Requests, Truncate(r)
  PROVE  /\ OthersKept(r) /\ RequestOK(req'[r]) /\ req[r].pc = "truncate"
         /\ req'[r].pc = "write" /\ req'[r].k = req[r].k
         /\ req'[r].dto = req[r].dto /\ req'[r].data = req[r].data
         /\ req'[r].expect = req[r].expect
         /\ req'[r].part = Empty
         /\ file' = Empty /\ whole' = FALSE /\ want' = NoWant
         /\ UNCHANGED <<cfg, inForce, up, exits, loaded, cutShort, overlap>>
<1>0. DOMAIN req = Requests /\ RequestOK(req[r])
  BY DEF SettingsOK, ReqOK
<1>1. req' = [req EXCEPT ![r] = [req[r] EXCEPT !.pc = "write"]] /\ req[r].pc = "truncate"
  BY DEF Truncate
<1>2. /\ OthersKept(r) /\ RequestOK(req'[r]) /\ req'[r].pc = "write" /\ req'[r].k = req[r].k
      /\ req'[r].dto = req[r].dto /\ req'[r].data = req[r].data /\ req'[r].expect = req[r].expect
      /\ req'[r].part = Empty
  BY <1>0, <1>1 DEF RequestOK, ReqFields, OthersKept
<1> QED BY <1>1, <1>2 DEF Truncate, Opened

(* A part of the data is written, of which no more is known than that it   *)
(* is a file and, if it parses, what its identity is.                      *)
LEMMA PartEffect ==
  ASSUME SettingsOK, NEW r \in Requests, WritePart(r)
  PROVE  /\ OthersKept(r) /\ RequestOK(req'[r]) /\ req[r].pc = "write"
         /\ req'[r].pc = "rest" /\ req'[r].k = req[r].k
         /\ req'[r].dto = req[r].dto /\ req'[r].data = req[r].data
         /\ req'[r].expect = req[r].expect /\ req'[r].part = file'
         /\ file' = Garbled \/ file'.id \in {req[r].data.id, Blank, Cut}
         /\ DOMAIN file' = FieldSet /\ whole' = FALSE /\ want' = NoWant
         /\ UNCHANGED <<cfg, inForce, up, exits, loaded, cutShort, overlap>>
<1>0. DOMAIN req = Requests /\ RequestOK(req[r])
  BY DEF SettingsOK, ReqOK
<1>1. /\ req' = [req EXCEPT ![r] = [req[r] EXCEPT !.pc = "rest", !.part = file']]
      /\ req[r].pc = "write"
  BY <1>0 DEF WritePart, RequestOK, ReqFields
<1>2. /\ OthersKept(r) /\ RequestOK(req'[r]) /\ req'[r].pc = "rest" /\ req'[r].k = req[r].k
      /\ req'[r].dto = req[r].dto /\ req'[r].data = req[r].data /\ req'[r].expect = req[r].expect
      /\ req'[r].part = file'
  BY <1>0, <1>1 DEF RequestOK, ReqFields, OthersKept
<1>3. /\ file' = Garbled \/ file'.id \in {req[r].data.id, Blank, Cut}
      /\ DOMAIN file' = FieldSet
  <2>1. CASE file' = Garbled
    BY <2>1 DEF Garbled
  <2>2. ASSUME NEW k, NEW v \in {Blank, Cut}, file' = Prefix(req[r].data, k, v)
        PROVE  file'.id \in {req[r].data.id, Blank, Cut} /\ DOMAIN file' = FieldSet
    <3>1. "id" \in FieldSet
      BY FieldFacts
    <3> QED BY <2>2, <3>1 DEF Prefix
  <2> QED BY <2>1, <2>2 DEF WritePart
<1> QED BY <1>1, <1>2, <1>3 DEF WritePart

\* A request that ends: refused, failed, or written.
LEMMA EndEffect ==
  ASSUME SettingsOK, NEW r \in Requests, RejectNTP(r) \/ Write(r) \/ WriteError(r)
  PROVE  OthersKept(r) /\ req'[r] = Idle /\ RequestOK(req'[r]) /\ req[r].pc # "idle"
         /\ UNCHANGED <<cfg, inForce, up, cutShort, overlap>>
<1>1. req' = [req EXCEPT ![r] = Idle] /\ DOMAIN req = Requests
  BY DEF RejectNTP, Write, WriteError, SettingsOK, ReqOK
<1> QED BY <1>1, IdleOK DEF OthersKept, RejectNTP, Write, WriteError

\* The process ends, in an Exit or a Crash.
LEMMA DownEffect ==
  ASSUME Exit \/ Crash
  PROVE  /\ up /\ up' = FALSE /\ exits' = 0 /\ req' = [r \in Requests |-> Idle]
         /\ cutShort' = (cutShort \/ ~ whole)
         /\ UNCHANGED <<file, cfg, inForce, want, loaded, whole, overlap>>
BY DEF Exit, Crash, Down

\* The steps of the composition, by what they do to the settings.
LEMMA SettingsKinds ==
  ASSUME [Next]_vars
  PROVE  \/ UNCHANGED sVars
         \/ \E r \in Requests :
              \/ \E dto \in DTOs : Submit(r, dto)
              \/ Assign(r) \/ Marshal(r) \/ Truncate(r) \/ WritePart(r)
              \/ RejectNTP(r) \/ Write(r) \/ WriteError(r)
         \/ Exit \/ Crash \/ Start
BY DEF Next, SaveStep, SettingsStep, Stop, Restart, SyncStep, Outage, vars

-----------------------------------------------------------------------------
(* Type correctness.                                                       *)

LEMMA SettingsInductive == SettingsOK /\ [Next]_vars => SettingsOK'
<1> SUFFICES ASSUME SettingsOK, [Next]_vars PROVE SettingsOK'
  OBVIOUS
<1>a. ReqOK /\ FilesOK /\ ProcessOK
  BY DEF SettingsOK
<1>k. ASSUME NEW r \in Requests, OthersKept(r), RequestOK(req'[r]) PROVE ReqOK'
  BY <1>a, <1>k DEF ReqOK, OthersKept
<1>p. ASSUME NEW r \in Requests, OthersKept(r), req[r].pc # "idle", exits' \in Nat,
             UNCHANGED <<up, cutShort, overlap>>, loaded' \in BOOLEAN, whole' \in BOOLEAN
      PROVE  ProcessOK'
  BY <1>a, <1>p DEF ProcessOK, OthersKept
<1>0. CASE UNCHANGED sVars
  BY <1>0 DEF sVars, SettingsOK, ReqOK, FilesOK, ProcessOK
<1>1. ASSUME NEW r \in Requests, NEW dto \in DTOs, Submit(r, dto) PROVE SettingsOK'
  <2>1. ReqOK' /\ FilesOK'
    BY <1>1, <1>a, SubmitEffect DEF ReqOK, FilesOK
  <2>2. overlap' \in BOOLEAN
    BY <1>1, <1>a, Zenon DEF Submit, ProcessOK
  <2>3. ProcessOK'
    BY <1>1, <1>a, <2>2, SubmitEffect DEF ProcessOK
  <2> QED BY <2>1, <2>3 DEF SettingsOK
<1>2. ASSUME NEW r \in Requests, Assign(r) PROVE SettingsOK'
  BY <1>2, <1>a, <1>k, <1>p, AssignEffect DEF SettingsOK, FilesOK, ProcessOK
<1>3. ASSUME NEW r \in Requests, Marshal(r) PROVE SettingsOK'
  BY <1>3, <1>a, <1>k, <1>p, MarshalEffect DEF SettingsOK, FilesOK, ProcessOK
<1>4. ASSUME NEW r \in Requests, Truncate(r) PROVE SettingsOK'
  <2>1. DOMAIN file' = FieldSet /\ DOMAIN want' = FieldSet
    BY <1>4, TruncateEffect DEF Empty, NoWant
  <2> QED BY <1>4, <1>a, <1>k, <1>p, <2>1, TruncateEffect DEF SettingsOK, FilesOK, ProcessOK
<1>9. ASSUME NEW r \in Requests, WritePart(r) PROVE SettingsOK'
  <2>1. DOMAIN want' = FieldSet
    BY <1>9, PartEffect DEF NoWant
  <2> QED BY <1>9, <1>a, <1>k, <1>p, <2>1, PartEffect DEF SettingsOK, FilesOK, ProcessOK
<1>5. ASSUME NEW r \in Requests, RejectNTP(r) \/ WriteError(r) PROVE SettingsOK'
  <2>1. UNCHANGED <<file, want, exits, loaded, whole>>
    BY <1>5 DEF RejectNTP, WriteError
  <2> QED BY <1>5, <1>a, <1>k, <1>p, <2>1, EndEffect DEF SettingsOK, FilesOK, ProcessOK
<1>6. ASSUME NEW r \in Requests, Write(r) PROVE SettingsOK'
  <2>1. DOMAIN req[r].data = FieldSet /\ DOMAIN req[r].expect = FieldSet
    BY <1>a DEF ReqOK, RequestOK
  <2>2. DOMAIN file' = FieldSet /\ DOMAIN want' = FieldSet
    BY <1>6, <2>1 DEF Write, Garbled, NoWant
  <2>3. exits' \in Nat /\ loaded' = FALSE /\ whole' = TRUE
    BY <1>6, <1>a DEF Write, ProcessOK
  <2>4. ReqOK' /\ ProcessOK'
    BY <1>6, <1>k, <1>p, <2>3, EndEffect
  <2>5. FilesOK'
    BY <1>6, <1>a, <2>2, EndEffect DEF FilesOK
  <2> QED BY <2>4, <2>5 DEF SettingsOK
<1>7. CASE Exit \/ Crash
  <2>1. cutShort' \in BOOLEAN
    BY <1>7, Zenon DEF Exit, Crash, Down
  <2>2. \A r \in Requests : req'[r].pc = "idle"
    BY <1>7, DownEffect, IdleOK
  <2>3. ReqOK'
    BY <1>7, DownEffect, IdleOK DEF ReqOK
  <2>4. FilesOK'
    BY <1>7, <1>a, DownEffect DEF FilesOK
  <2>5. ProcessOK'
    <3>1. up' = FALSE /\ exits' = 0 /\ loaded' = loaded /\ overlap' = overlap /\ whole' = whole
      BY <1>7, DownEffect
    <3>2. loaded' \in BOOLEAN /\ overlap' \in BOOLEAN /\ whole' \in BOOLEAN
      BY <1>a, <3>1 DEF ProcessOK
    <3>3. exits' \in Nat /\ ~ (exits' > 0)
      BY <3>1
    <3> QED BY <2>1, <2>2, <3>1, <3>2, <3>3 DEF ProcessOK
  <2> QED BY <2>3, <2>4, <2>5 DEF SettingsOK
<1>8. CASE Start
  <2>1. DOMAIN Boot(file) = FieldSet
    BY <1>a, BootFacts DEF FilesOK
  <2>2. FilesOK' /\ ReqOK'
    BY <1>8, <1>a, <2>1 DEF Start, FilesOK, ReqOK
  <2>3. ProcessOK'
    BY <1>8, <1>a DEF Start, ProcessOK
  <2> QED BY <2>2, <2>3 DEF SettingsOK
<1> QED BY <1>0, <1>1, <1>2, <1>3, <1>4, <1>5, <1>6, <1>7, <1>8, <1>9, SettingsKinds

(* Files, configuration and requests are well typed at the start.          *)
LEMMA SettingsInitOK == Init => SettingsOK
<1> SUFFICES ASSUME Init PROVE SettingsOK
  OBVIOUS
<1>1. SettingsInit
  BY DEF Init
<1>2. DOMAIN Boot(FirstFile) = FieldSet /\ DOMAIN FirstFile = FieldSet
  BY BootFacts, SettingsAssumption
<1>3. ReqOK
  BY <1>1, IdleOK DEF SettingsInit, ReqOK
<1>4. FilesOK
  BY <1>1, <1>2 DEF SettingsInit, FilesOK, NoWant
<1>5. ProcessOK
  BY <1>1 DEF SettingsInit, ProcessOK, Idle
<1> QED BY <1>3, <1>4, <1>5 DEF SettingsOK

(***************************************************************************)
(* Both services stay well typed, whatever saves, crashes, restarts and    *)
(* synchronisations interleave: no request outlives the process, every     *)
(* file and configuration has all its fields, and Synced is set exactly    *)
(* when the quality says so.                                               *)
(***************************************************************************)
THEOREM TypeCorrect == Spec => []TypeOK
<1>1. SettingsOK /\ TimeTypeOK => TypeOK
  BY FieldFacts DEF SettingsOK, ReqOK, RequestOK, FilesOK, ProcessOK, TypeOK
<1>2. SettingsOK /\ TimeTypeOK /\ [Next]_vars => (SettingsOK /\ TimeTypeOK)'
  BY SettingsInductive, TimeTypeInductive
<1>3. Init => SettingsOK /\ TimeTypeOK
  BY SettingsInitOK, TimeInitOK
<1> QED BY <1>1, <1>2, <1>3, PTL DEF Spec

-----------------------------------------------------------------------------
(* The text of config.yaml breaks only half way through a save, or when    *)
(* saves overlap.                                                          *)

\* Two requests at once are an overlap, and only an overlap changes the file
\* between two steps of a request that writes it.
OverlapInv ==
  /\ \A q, r \in Requests : q # r /\ req[q].pc # "idle" /\ req[r].pc # "idle" => overlap
  /\ \A r \in Requests : req[r].pc \in {"write", "rest"} => file = req[r].part \/ overlap

\* No request, configuration or file that parses carries the marker's name.
NameInv ==
  /\ cfg.id # "garbled" /\ (file.id = "garbled" => file = Garbled)
  /\ \A r \in Requests : req[r].dto.id # "garbled" /\ req[r].data.id # "garbled"

(* No step brings the name "garbled" into a request, the configuration or  *)
(* a file that parses.                                                     *)
LEMMA NameInductive == SettingsOK /\ NameInv /\ [Next]_vars => NameInv'
<1> SUFFICES ASSUME SettingsOK, NameInv, [Next]_vars PROVE NameInv'
  OBVIOUS
<1>a. "id" \in FieldSet /\ Empty.id # "garbled" /\ Idle.dto = Empty /\ Idle.data = Empty
  BY FieldFacts DEF Empty, Blank, Idle
<1>k. ASSUME NEW r \in Requests, OthersKept(r), req'[r].dto.id # "garbled",
             req'[r].data.id # "garbled", cfg'.id # "garbled",
             file'.id = "garbled" => file' = Garbled
      PROVE  NameInv'
  BY <1>k DEF NameInv, OthersKept
<1>0. CASE UNCHANGED sVars
  BY <1>0 DEF sVars, NameInv
<1>1. ASSUME NEW r \in Requests, NEW dto \in DTOs, Submit(r, dto) PROVE NameInv'
  <2>1. dto.id # "garbled"
    BY SettingsAssumption
  <2> QED BY <1>1, <1>a, <2>1, SubmitEffect DEF NameInv
<1>2. ASSUME NEW r \in Requests, Assign(r) PROVE NameInv'
  <2>1. Fields[req[r].k] = "id" => req[r].dto[Fields[req[r].k]] # "garbled"
    BY DEF NameInv
  <2>2. cfg'.id # "garbled"
    BY <1>2, <1>a, <2>1, AssignEffect DEF SettingsOK, FilesOK, NameInv
  <2> QED BY <1>2, <1>k, <2>2, AssignEffect DEF NameInv
<1>3. ASSUME NEW r \in Requests, Marshal(r) PROVE NameInv'
  <2>1. DOMAIN req[r].data = FieldSet
    BY DEF SettingsOK, ReqOK, RequestOK
  <2>2. req'[r].data.id # "garbled"
    BY <1>3, <1>a, <2>1, MarshalEffect DEF NameInv
  <2> QED BY <1>3, <1>k, <2>2, MarshalEffect DEF NameInv
<1>4. ASSUME NEW r \in Requests, Truncate(r) PROVE NameInv'
  BY <1>4, <1>a, <1>k, TruncateEffect DEF NameInv
<1>8. ASSUME NEW r \in Requests, WritePart(r) PROVE NameInv'
  <2>1. file'.id = "garbled" => file' = Garbled
    BY <1>8, PartEffect DEF NameInv, Blank, Cut
  <2> QED BY <1>8, <1>k, <2>1, PartEffect DEF NameInv
<1>5. ASSUME NEW r \in Requests, RejectNTP(r) \/ WriteError(r) \/ Write(r) PROVE NameInv'
  <2>1. file' \in {file, req[r].data, Garbled}
    BY <1>5 DEF RejectNTP, WriteError, Write
  <2>2. file'.id = "garbled" => file' = Garbled
    BY <2>1 DEF NameInv
  <2>3. OthersKept(r) /\ req'[r] = Idle /\ cfg' = cfg
    BY <1>5, EndEffect
  <2> QED BY <1>a, <1>k, <2>2, <2>3 DEF NameInv
<1>6. CASE Exit \/ Crash
  <2>1. UNCHANGED <<file, cfg>> /\ \A r \in Requests : req'[r] = Idle
    BY <1>6, DownEffect
  <2> QED BY <1>a, <2>1 DEF NameInv
<1>7. CASE Start
  <2>1. file.id # "garbled" /\ cfg' = Boot(file) /\ UNCHANGED <<file, req>>
    BY <1>7 DEF Start, Loads, NameInv
  <2>2. Boot(file).id = Expand(file.id)
    BY BootFacts DEF SettingsOK, FilesOK
  <2>3. Expand(file.id) # "garbled"
    BY <2>1, SettingsAssumption DEF Expand
  <2> QED BY <2>1, <2>2, <2>3 DEF NameInv
<1> QED BY <1>0, <1>1, <1>2, <1>3, <1>4, <1>5, <1>6, <1>7, <1>8, SettingsKinds

(* A save that is completed leaves a broken text only if another overlaps. *)
LEMMA OverlapInductive ==
  SettingsOK /\ NameInv /\ OverlapInv /\ GarbledOnlyByTear /\ [Next]_vars
    => OverlapInv' /\ GarbledOnlyByTear'
<1> SUFFICES ASSUME SettingsOK, NameInv, OverlapInv, GarbledOnlyByTear, [Next]_vars
             PROVE  OverlapInv' /\ GarbledOnlyByTear'
  OBVIOUS
<1>g. "id" \in FieldSet /\ Garbled.id = "garbled" /\ Empty # Garbled
  BY FieldFacts DEF Garbled, Empty, Blank
<1>0. CASE UNCHANGED sVars
  BY <1>0 DEF sVars, OverlapInv, GarbledOnlyByTear
<1>1. ASSUME NEW r \in Requests, NEW dto \in DTOs, Submit(r, dto)
      PROVE  OverlapInv' /\ GarbledOnlyByTear'
  <2>1. /\ overlap' = (overlap \/ Busy(r)) /\ UNCHANGED <<file, whole>> /\ req'[r].pc = "assign"
        /\ \A q \in Requests \ {r} : req'[q].pc = req[q].pc /\ req'[q].part = req[q].part
    BY <1>1, SubmitEffect
  <2>2. ASSUME NEW q \in Requests \ {r}, req[q].pc # "idle" PROVE overlap'
    BY <2>1, <2>2 DEF Busy
  <2>3. overlap => overlap'
    BY <2>1
  <2> QED BY <2>1, <2>2, <2>3 DEF OverlapInv, GarbledOnlyByTear
<1>2. ASSUME NEW r \in Requests, Assign(r) \/ Marshal(r)
      PROVE  OverlapInv' /\ GarbledOnlyByTear'
  <2>1. /\ OthersKept(r) /\ req[r].pc # "idle" /\ req'[r].pc \notin {"write", "rest"}
        /\ UNCHANGED <<file, whole, overlap>>
    BY <1>2, AssignEffect, MarshalEffect
  <2> QED BY <2>1 DEF OthersKept, OverlapInv, GarbledOnlyByTear
<1>3. ASSUME NEW r \in Requests, Truncate(r) PROVE OverlapInv' /\ GarbledOnlyByTear'
  <2>1. /\ OthersKept(r) /\ req[r].pc # "idle" /\ req'[r].pc = "write" /\ file' = req'[r].part
        /\ ~ whole' /\ overlap' = overlap
    BY <1>3, TruncateEffect
  <2>2. \A q \in Requests \ {r} : req[q].pc # "idle" => overlap
    BY <2>1 DEF OverlapInv
  <2> QED BY <2>1, <2>2 DEF OthersKept, OverlapInv, GarbledOnlyByTear
<1>8. ASSUME NEW r \in Requests, WritePart(r) PROVE OverlapInv' /\ GarbledOnlyByTear'
  <2>1. /\ OthersKept(r) /\ req[r].pc # "idle" /\ req'[r].pc = "rest" /\ file' = req'[r].part
        /\ ~ whole' /\ overlap' = overlap
    BY <1>8, PartEffect
  <2>2. \A q \in Requests \ {r} : req[q].pc # "idle" => overlap
    BY <2>1 DEF OverlapInv
  <2> QED BY <2>1, <2>2 DEF OthersKept, OverlapInv, GarbledOnlyByTear
<1>4. ASSUME NEW r \in Requests, RejectNTP(r) \/ WriteError(r)
      PROVE  OverlapInv' /\ GarbledOnlyByTear'
  <2>1. UNCHANGED <<file, whole>>
    BY <1>4 DEF RejectNTP, WriteError
  <2> QED BY <1>4, <2>1, EndEffect, IdleOK DEF OthersKept, OverlapInv, GarbledOnlyByTear
<1>5. ASSUME NEW r \in Requests, Write(r) PROVE OverlapInv' /\ GarbledOnlyByTear'
  <2>1. /\ OthersKept(r) /\ req'[r].pc = "idle" /\ overlap' = overlap
        /\ req[r].pc \in {"write", "rest"}
    BY <1>5, EndEffect, IdleOK DEF Write
  <2>2. file' = req[r].data \/ (file # req[r].part /\ file' = Garbled)
    BY <1>5 DEF Write
  <2>3. req[r].data # Garbled
    BY <1>g DEF NameInv
  <2>4. GarbledOnlyByTear'
    BY <2>1, <2>2, <2>3 DEF OverlapInv, GarbledOnlyByTear
  \* A second request about to write overlaps with this one.
  <2>5. OverlapInv'
    BY <2>1 DEF OthersKept, OverlapInv
  <2> QED BY <2>4, <2>5
<1>6. CASE Exit \/ Crash
  <2>1. \A r \in Requests : req'[r].pc = "idle"
    BY <1>6, DownEffect, IdleOK
  <2>2. UNCHANGED <<file, whole, overlap>>
    BY <1>6, DownEffect
  <2> QED BY <2>1, <2>2 DEF OverlapInv, GarbledOnlyByTear
<1>7. CASE Start
  BY <1>7 DEF Start, OverlapInv, GarbledOnlyByTear
<1> QED BY <1>0, <1>1, <1>2, <1>3, <1>4, <1>5, <1>6, <1>7, <1>8, SettingsKinds

(***************************************************************************)
(* The text of config.yaml is broken only after saves overlapped or while  *)
(* or after a save stopped half way, at a full disk or with the process: a *)
(* save that is completed with no other beside it never leaves a broken    *)
(* text, whatever it found, and whatever was refused before.               *)
(***************************************************************************)
THEOREM GarbledByTear == Spec => []GarbledOnlyByTear
<1> DEFINE IInv == SettingsOK /\ NameInv /\ OverlapInv /\ GarbledOnlyByTear
<1>1. Init => IInv
  <2> SUFFICES ASSUME Init PROVE IInv
    OBVIOUS
  <2>1. SettingsInit /\ SettingsOK
    BY SettingsInitOK DEF Init
  <2>2. "id" \in FieldSet /\ FirstFile.id # "garbled" /\ FirstFile # Garbled
    BY FieldFacts, SettingsAssumption DEF Garbled
  <2>3. Boot(FirstFile).id = Expand(FirstFile.id) /\ Expand(FirstFile.id) # "garbled"
    BY <2>2, BootFacts, SettingsAssumption DEF Expand
  <2>4. Idle.dto.id # "garbled" /\ Idle.data.id # "garbled" /\ Idle.pc = "idle"
    BY <2>2 DEF Idle, Empty, Blank
  <2> QED BY <2>1, <2>2, <2>3, <2>4 DEF SettingsInit, NameInv, OverlapInv, GarbledOnlyByTear
<1>2. IInv /\ [Next]_vars => IInv'
  BY SettingsInductive, NameInductive, OverlapInductive
<1> QED BY <1>1, <1>2, PTL DEF Spec

-----------------------------------------------------------------------------
(* The gateway's identity.                                                 *)

\* The identities somebody gave the gateway, as they are written.
Given == ({d.id : d \in DTOs} \ {Blank}) \cup {FirstFile.id}

\* What a request has made of its identity; the configuration has one that was
\* submitted as soon as a request has assigned the first field.
IdCarried(q, c) ==
  /\ q.pc # "idle" => q.dto.id \in Given
  /\ q.pc = "marshal" \/ (q.pc = "assign" /\ q.k > 1) => c.id \in Given
  /\ q.pc \in {"truncate", "write", "rest"} \/ (q.pc = "marshal" /\ q.k > 1) =>
       q.data.id \in Given

\* Until a save is cut short there is such an identity everywhere, but for a
\* file that a running process is writing.
IdInv ==
  cutShort \/
    /\ inForce.id \in {Expand(v) : v \in Given}
    /\ file.id \in Given \/ file = Garbled \/ (up /\ ~ whole)
    /\ \A r \in Requests : IdCarried(req[r], cfg)

(* No step loses the gateway's id but an exit or a crash half way through  *)
(* the writing.                                                            *)
LEMMA IdInductive == SettingsOK /\ IdInv /\ [Next]_vars => IdInv'
<1> DEFINE FileOK == file.id \in Given \/ file = Garbled \/ (up /\ ~ whole)
           Goal == /\ inForce'.id \in {Expand(v) : v \in Given}
                   /\ FileOK'
                   /\ \A r \in Requests : IdCarried(req'[r], cfg')
<1> SUFFICES ASSUME SettingsOK, IdInv, [Next]_vars, ~ cutShort' PROVE Goal
  BY DEF IdInv
<1>a. /\ "id" \in FieldSet /\ Idle.pc = "idle"
      /\ \A r \in Requests : RequestOK(req[r]) /\ (req[r].pc # "idle" => up)
  BY FieldFacts DEF Idle, SettingsOK, ReqOK, ProcessOK
<1>b. ASSUME ~ cutShort
      PROVE  /\ inForce.id \in {Expand(v) : v \in Given}
             /\ FileOK
             /\ \A r \in Requests : IdCarried(req[r], cfg)
  BY <1>b DEF IdInv
\* A step of request r that leaves the identity of the configuration alone, or
\* makes it a given one.
<1>k. ASSUME NEW r \in Requests, OthersKept(r), ~ cutShort, IdCarried(req'[r], cfg'),
             cfg'.id = cfg.id \/ cfg'.id \in Given
      PROVE  \A q \in Requests : IdCarried(req'[q], cfg')
  <2>1. ASSUME NEW q \in Requests, q # r PROVE IdCarried(req'[q], cfg')
    BY <1>b, <1>k, <2>1 DEF OthersKept, IdCarried
  <2> QED BY <1>k, <2>1
<1>0. CASE UNCHANGED sVars
  BY <1>0, <1>b DEF sVars
<1>1. ASSUME NEW r \in Requests, NEW dto \in DTOs, Submit(r, dto) PROVE Goal
  <2>0. ~ cutShort /\ UNCHANGED <<file, cfg, inForce, up, whole>>
    BY <1>1, SubmitEffect
  <2>1. dto.id \in Given
    BY <1>1 DEF Submit, Accepts, Given
  <2>2. IdCarried(req'[r], cfg')
    BY <1>1, <2>1, SubmitEffect DEF IdCarried
  <2>3. ASSUME NEW q \in Requests \ {r} PROVE IdCarried(req'[q], cfg')
    BY <1>1, <1>b, <2>0, SubmitEffect DEF IdCarried
  <2> QED BY <1>b, <2>0, <2>2, <2>3
<1>2. ASSUME NEW r \in Requests, Assign(r) PROVE Goal
  <2>0. ~ cutShort /\ UNCHANGED <<file, inForce, up, whole>> /\ OthersKept(r) /\ req[r].pc = "assign"
    BY <1>2, AssignEffect
  <2>1. req[r].dto.id \in Given /\ req'[r].dto = req[r].dto /\ req[r].k \in 1..6
    BY <1>2, <1>a, <1>b, <2>0, AssignEffect DEF IdCarried, RequestOK
  <2>2. cfg'.id \in Given
    <3>1. CASE req[r].k = 1
      <4>1. Fields[1] = "id" /\ "id" \notin KeptIfBlank /\ DOMAIN cfg = FieldSet
        BY FieldFacts DEF KeptIfBlank, SettingsOK, FilesOK
      <4> QED BY <1>2, <1>a, <2>1, <3>1, <4>1, AssignEffect
    <3>2. CASE req[r].k > 1
      <4>1. cfg.id \in Given
        BY <1>b, <2>0, <3>2 DEF IdCarried
      <4>2. Fields[req[r].k] # "id" /\ DOMAIN cfg = FieldSet
        BY <2>1, <3>2, FieldFacts DEF SettingsOK, FilesOK
      <4> QED BY <1>2, <1>a, <4>1, <4>2, AssignEffect
    <3> QED BY <2>1, <3>1, <3>2
  <2>3. req'[r].pc = "assign" \/ (req'[r].pc = "marshal" /\ ~ (req'[r].k > 1))
    BY <1>2, AssignEffect
  <2>4. IdCarried(req'[r], cfg')
    BY <2>1, <2>2, <2>3 DEF IdCarried
  <2> QED BY <1>b, <1>k, <2>0, <2>2, <2>4
<1>3. ASSUME NEW r \in Requests, Marshal(r) PROVE Goal
  <2>0. /\ ~ cutShort /\ UNCHANGED <<file, cfg, inForce, up, whole>> /\ OthersKept(r)
        /\ req[r].pc = "marshal" /\ req'[r].pc \in {"marshal", "truncate"}
    BY <1>3, MarshalEffect
  <2>1. req'[r].dto.id \in Given /\ cfg.id \in Given
    BY <1>3, <1>b, <2>0, MarshalEffect DEF IdCarried
  <2>2. req'[r].data.id \in Given
    <3>0. DOMAIN req[r].data = FieldSet /\ req[r].k \in 1..6
      BY <1>a DEF RequestOK
    <3>1. CASE req[r].k = 1
      <4>1. Fields[1] = "id"
        BY FieldFacts
      <4>2. req'[r].data = [req[r].data EXCEPT !["id"] = cfg["id"]]
        BY <1>3, <3>1, <4>1, MarshalEffect
      <4> QED BY <1>a, <2>1, <3>0, <4>2
    <3>2. CASE req[r].k > 1
      <4>1. req[r].data.id \in Given
        BY <1>b, <2>0, <3>2 DEF IdCarried
      <4>2. Fields[req[r].k] # "id"
        BY <3>0, <3>2, FieldFacts
      <4> QED BY <1>3, <1>a, <3>0, <4>1, <4>2, MarshalEffect
    <3> QED BY <3>0, <3>1, <3>2
  <2>3. IdCarried(req'[r], cfg')
    BY <2>0, <2>1, <2>2 DEF IdCarried
  <2> QED BY <1>b, <1>k, <2>0, <2>3
<1>4. ASSUME NEW r \in Requests, Truncate(r) \/ WritePart(r) PROVE Goal
  <2>0. /\ ~ cutShort /\ UNCHANGED <<cfg, inForce, up>> /\ OthersKept(r) /\ whole' = FALSE
        /\ req[r].pc \in {"truncate", "write"} /\ req'[r].pc \in {"write", "rest"}
        /\ req'[r].dto = req[r].dto /\ req'[r].data = req[r].data
    BY <1>4, TruncateEffect, PartEffect
  <2>1. up'
    BY <1>a, <2>0
  <2>2. IdCarried(req'[r], cfg')
    BY <1>b, <2>0 DEF IdCarried
  <2> QED BY <1>b, <1>k, <2>0, <2>1, <2>2
<1>5. ASSUME NEW r \in Requests, RejectNTP(r) \/ WriteError(r) \/ Write(r) PROVE Goal
  <2>0. ~ cutShort /\ UNCHANGED <<cfg, inForce, up>> /\ OthersKept(r) /\ req'[r] = Idle
    BY <1>5, EndEffect
  <2>1. \/ UNCHANGED <<file, whole>> \/ file' = Garbled
        \/ req[r].pc \in {"write", "rest"} /\ file' = req[r].data
    BY <1>5 DEF RejectNTP, WriteError, Write
  <2>2. FileOK'
    BY <1>b, <2>0, <2>1 DEF IdCarried
  <2>3. IdCarried(req'[r], cfg')
    BY <1>a, <2>0 DEF IdCarried
  <2> QED BY <1>b, <1>k, <2>0, <2>2, <2>3
<1>6. CASE Exit \/ Crash
  <2>0. ~ cutShort /\ whole /\ UNCHANGED <<file, cfg, inForce>>
    BY <1>6, DownEffect
  <2>1. \A r \in Requests : req'[r].pc = "idle"
    BY <1>6, DownEffect, IdleOK
  <2> QED BY <1>b, <2>0, <2>1 DEF IdCarried
<1>7. CASE Start
  <2>0. /\ ~ cutShort /\ ~ up /\ UNCHANGED <<file, req>> /\ inForce' = Boot(file)
        /\ file # Garbled
    BY <1>7 DEF Start, Loads
  <2>1. file.id \in Given
    BY <1>b, <2>0
  <2>2. Boot(file).id = Expand(file.id)
    BY BootFacts DEF SettingsOK, FilesOK
  <2>3. \A r \in Requests : IdCarried(req'[r], cfg')
    BY <1>a, <2>0 DEF IdCarried
  <2> QED BY <2>0, <2>1, <2>2, <2>3
<1> HIDE DEF Goal
<1> QED BY <1>0, <1>1, <1>2, <1>3, <1>4, <1>5, <1>6, <1>7, SettingsKinds

(***************************************************************************)
(* The gateway runs under an identity that nobody gave it only after its   *)
(* process ended between O_TRUNC and the end of a write of config.yaml:    *)
(* overlapping, refused and failing saves never cost it the id.            *)
(***************************************************************************)
THEOREM IdentityStays == Spec => []IdentityKept
<1>1. Init => SettingsOK /\ IdInv
  <2> SUFFICES ASSUME Init PROVE SettingsOK /\ IdInv
    OBVIOUS
  <2>1. SettingsInit /\ SettingsOK
    BY SettingsInitOK DEF Init
  <2>2. Boot(FirstFile).id = Expand(FirstFile.id) /\ FirstFile.id \in Given
    BY BootFacts, SettingsAssumption DEF Given
  <2> QED BY <2>1, <2>2, IdleOK DEF SettingsInit, IdInv, IdCarried
<1>2. SettingsOK /\ IdInv /\ [Next]_vars => (SettingsOK /\ IdInv)'
  BY SettingsInductive, IdInductive
<1>3. IdInv => IdentityKept
  BY DEF IdInv, IdentityKept, Given
<1> QED BY <1>1, <1>2, <1>3, PTL DEF Spec

-----------------------------------------------------------------------------
(* An accepted save that nobody disturbed takes effect.                    *)

\* A field of the configuration once request q has assigned it.
Assigned(q, f) == IF f \in KeptIfBlank /\ q.dto[f] = Blank THEN cfg[f] ELSE q.dto[f]

\* How far an undisturbed request has carried what it is expected to save.
Carried(q) ==
  /\ q.pc = "assign" => \A j \in 1..6 :
       q.expect[Fields[j]] = IF j < q.k THEN cfg[Fields[j]] ELSE Assigned(q, Fields[j])
  /\ q.pc = "marshal" => \A j \in 1..6 :
       /\ q.expect[Fields[j]] = cfg[Fields[j]]
       /\ j < q.k => q.data[Fields[j]] = q.expect[Fields[j]]
  /\ q.pc \in {"truncate", "write", "rest"} => \A f \in FieldSet : q.data[f] = q.expect[f]

ExpectInv ==
  \A r \in Requests : req[r].expect # NoWant =>
    /\ \A q \in Requests \ {r} : req[q].pc = "idle"
    /\ Carried(req[r])

EffectInv ==
  want # NoWant =>
    /\ \A f \in FieldSet : file[f] = want[f]
    /\ loaded /\ up => inForce = Boot(file)

(* Every step keeps what a save with no other beside it has carried from   *)
(* its request over the configuration into its data.                       *)
LEMMA ExpectInductive == SettingsOK /\ ExpectInv /\ [Next]_vars => ExpectInv'
<1> SUFFICES ASSUME SettingsOK, ExpectInv, [Next]_vars, NEW q \in Requests,
                    req'[q].expect # NoWant
             PROVE  (\A r \in Requests \ {q} : req'[r].pc = "idle") /\ Carried(req[q])'
  BY DEF ExpectInv
<1>a. \A r \in Requests : RequestOK(req[r])
  BY DEF SettingsOK, ReqOK
<1>b. ASSUME req[q].expect # NoWant
      PROVE  (\A r \in Requests \ {q} : req[r].pc = "idle") /\ Carried(req[q])
  BY <1>b DEF ExpectInv
\* Only q itself can take a step of a request: the others are idle.
<1>c. ASSUME NEW r \in Requests, OthersKept(r), req[r].pc # "idle", r # q PROVE FALSE
  BY <1>b, <1>c DEF OthersKept
<1>d. ASSUME OthersKept(q), req'[q].expect = req[q].expect
      PROVE  /\ req[q].expect # NoWant /\ Carried(req[q])
             /\ \A r \in Requests \ {q} : req'[r].pc = "idle"
  BY <1>b, <1>d DEF OthersKept
<1>0. CASE UNCHANGED sVars
  BY <1>0, <1>b DEF sVars, Carried, Assigned
<1>1. ASSUME NEW r \in Requests, NEW dto \in DTOs, Submit(r, dto)
      PROVE  (\A x \in Requests \ {q} : req'[x].pc = "idle") /\ Carried(req[q])'
  <2>1. q = r /\ ~ Busy(r)
    BY <1>1, SubmitEffect
  <2>2. \A x \in Requests \ {r} : req'[x].pc = "idle"
    BY <1>1, <2>1, SubmitEffect DEF Busy
  <2>3. /\ req'[r].pc = "assign" /\ req'[r].k = 1 /\ req'[r].dto = dto /\ cfg' = cfg
        /\ req'[r].expect = Expected(dto)
    BY <1>1, <2>1, SubmitEffect
  <2>4. \A f \in FieldSet : Expected(dto)[f] = Assigned(req[r], f)'
    BY <2>3 DEF Expected, Assigned
  <2>5. \A j \in 1..6 : req'[r].expect[Fields[j]] = Assigned(req[r], Fields[j])' /\ ~ (j < 1)
    BY <2>3, <2>4, FieldFacts
  <2> QED BY <2>1, <2>2, <2>3, <2>5 DEF Carried
<1>2. ASSUME NEW r \in Requests, Assign(r)
      PROVE  (\A x \in Requests \ {q} : req'[x].pc = "idle") /\ Carried(req[q])'
  <2> DEFINE k == req[q].k
             e == req[q].expect
  <2>1. r = q
    BY <1>2, <1>c, AssignEffect
  <2>2. OthersKept(q) /\ req'[q].expect = e
    BY <1>2, <2>1, AssignEffect
  <2>3. Carried(req[q]) /\ \A x \in Requests \ {q} : req'[x].pc = "idle"
    BY <1>d, <2>2
  <2>4. k \in 1..6 /\ Fields[k] \in FieldSet /\ DOMAIN cfg = FieldSet
    BY <1>a, FieldFacts DEF RequestOK, SettingsOK, FilesOK
  <2>5. \A j \in 1..6 : e[Fields[j]] = IF j < k THEN cfg[Fields[j]] ELSE Assigned(req[q], Fields[j])
    BY <1>2, <2>1, <2>3, AssignEffect DEF Carried
  <2>6. /\ cfg'[Fields[k]] = Assigned(req[q], Fields[k])
        /\ \A j \in 1..6 : j # k => cfg'[Fields[j]] = cfg[Fields[j]]
    <3>1. cfg' = IF Fields[k] \in KeptIfBlank /\ req[q].dto[Fields[k]] = Blank
                 THEN cfg ELSE [cfg EXCEPT ![Fields[k]] = req[q].dto[Fields[k]]]
      BY <1>2, <2>1, AssignEffect
    <3>2. \A j \in 1..6 : Fields[j] \in FieldSet /\ (j # k => Fields[j] # Fields[k])
      BY <2>4, FieldFacts
    <3> QED BY <2>4, <3>1, <3>2 DEF Assigned
  <2>7. \A j \in 1..6 : j # k => Assigned(req[q], Fields[j])' = Assigned(req[q], Fields[j])
    BY <1>2, <2>1, <2>6, AssignEffect DEF Assigned
  <2>8. CASE k = 6
    <3>1. req'[q].pc = "marshal" /\ req'[q].k = 1
      BY <1>2, <2>1, <2>8, AssignEffect
    <3>2. \A j \in 1..6 : e[Fields[j]] = cfg'[Fields[j]] /\ ~ (j < 1)
      BY <2>5, <2>6, <2>8
    <3> QED BY <2>2, <2>3, <3>1, <3>2 DEF Carried
  <2>9. CASE k # 6
    <3>1. req'[q].pc = "assign" /\ req'[q].k = k + 1
      BY <1>2, <2>1, <2>9, AssignEffect
    <3>2. ASSUME NEW j \in 1..6
          PROVE  e[Fields[j]] = IF j < k + 1 THEN cfg'[Fields[j]] ELSE Assigned(req[q], Fields[j])'
      <4>1. CASE j = k
        BY <2>4, <2>5, <2>6, <4>1
      <4>2. CASE j # k
        BY <2>4, <2>5, <2>6, <2>7, <4>2
      <4> QED BY <4>1, <4>2
    <3> QED BY <2>2, <2>3, <3>1, <3>2 DEF Carried
  <2> QED BY <2>8, <2>9
<1>3. ASSUME NEW r \in Requests, Marshal(r)
      PROVE  (\A x \in Requests \ {q} : req'[x].pc = "idle") /\ Carried(req[q])'
  <2> DEFINE k == req[q].k
             e == req[q].expect
  <2>1. r = q
    BY <1>3, <1>c, MarshalEffect
  <2>2. OthersKept(q) /\ req'[q].expect = e /\ cfg' = cfg
    BY <1>3, <2>1, MarshalEffect
  <2>3. Carried(req[q]) /\ \A x \in Requests \ {q} : req'[x].pc = "idle"
    BY <1>d, <2>2
  <2>4. k \in 1..6 /\ DOMAIN req[q].data = FieldSet
    BY <1>a DEF RequestOK
  <2>5. \A j \in 1..6 : e[Fields[j]] = cfg[Fields[j]]
                        /\ (j < k => req[q].data[Fields[j]] = e[Fields[j]])
    BY <1>3, <2>1, <2>3, MarshalEffect DEF Carried
  <2>6. \A j \in 1..6 : j <= k => req'[q].data[Fields[j]] = e[Fields[j]]
    <3>1. req'[q].data = [req[q].data EXCEPT ![Fields[k]] = cfg[Fields[k]]]
      BY <1>3, <2>1, MarshalEffect
    <3>2. \A j \in 1..6 : Fields[j] \in FieldSet /\ (j # k => Fields[j] # Fields[k])
      BY <2>4, FieldFacts
    <3>3. \A j \in 1..6 : j <= k => j = k \/ j < k
      BY <2>4
    <3> QED BY <2>4, <2>5, <3>1, <3>2, <3>3
  <2>7. CASE k = 6
    <3>1. req'[q].pc = "truncate"
      BY <1>3, <2>1, <2>7, MarshalEffect
    <3>2. \A j \in 1..6 : req'[q].data[Fields[j]] = e[Fields[j]]
      BY <2>6, <2>7
    <3>3. \A f \in FieldSet : req'[q].data[f] = e[f]
      BY <3>2, FieldFacts
    <3> QED BY <2>2, <2>3, <3>1, <3>3 DEF Carried
  <2>8. CASE k # 6
    <3>1. req'[q].pc = "marshal" /\ req'[q].k = k + 1
      BY <1>3, <2>1, <2>8, MarshalEffect
    <3>2. \A j \in 1..6 : j < k + 1 => j <= k
      BY <2>4
    <3> QED BY <2>2, <2>3, <2>5, <2>6, <3>1, <3>2 DEF Carried
  <2> QED BY <2>7, <2>8
<1>4. ASSUME NEW r \in Requests, Truncate(r)
      PROVE  (\A x \in Requests \ {q} : req'[x].pc = "idle") /\ Carried(req[q])'
  <2>1. r = q
    BY <1>4, <1>c, TruncateEffect
  <2>2. /\ OthersKept(q) /\ req'[q].expect = req[q].expect /\ req'[q].data = req[q].data
        /\ req[q].pc = "truncate" /\ req'[q].pc = "write"
    BY <1>4, <2>1, TruncateEffect
  <2>3. Carried(req[q]) /\ \A x \in Requests \ {q} : req'[x].pc = "idle"
    BY <1>d, <2>2
  <2> QED BY <2>2, <2>3 DEF Carried
<1>8. ASSUME NEW r \in Requests, WritePart(r)
      PROVE  (\A x \in Requests \ {q} : req'[x].pc = "idle") /\ Carried(req[q])'
  <2>1. r = q
    BY <1>8, <1>c, PartEffect
  <2>2. /\ OthersKept(q) /\ req'[q].expect = req[q].expect /\ req'[q].data = req[q].data
        /\ req[q].pc = "write" /\ req'[q].pc = "rest"
    BY <1>8, <2>1, PartEffect
  <2>3. Carried(req[q]) /\ \A x \in Requests \ {q} : req'[x].pc = "idle"
    BY <1>d, <2>2
  <2> QED BY <2>2, <2>3 DEF Carried
<1>5. ASSUME NEW r \in Requests, RejectNTP(r) \/ WriteError(r) \/ Write(r) PROVE FALSE
  <2>1. r = q
    BY <1>5, <1>c, EndEffect
  <2> QED BY <1>5, <2>1, EndEffect DEF Idle
<1>6. CASE Exit \/ Crash
  <2>1. req'[q] = Idle
    BY <1>6, DownEffect
  <2> QED BY <2>1 DEF Idle
<1>7. CASE Start
  <2>1. req' = req /\ ~ up
    BY <1>7 DEF Start
  <2> QED BY <1>a, <2>1 DEF SettingsOK, ProcessOK, RequestOK
<1> QED BY <1>0, <1>1, <1>2, <1>3, <1>4, <1>5, <1>6, <1>7, <1>8, SettingsKinds

(* What a finished save wrote is what the next start loads.                *)
LEMMA EffectInductive == SettingsOK /\ ExpectInv /\ EffectInv /\ [Next]_vars => EffectInv'
<1> SUFFICES ASSUME SettingsOK, ExpectInv, EffectInv, [Next]_vars, want' # NoWant
             PROVE  /\ \A f \in FieldSet : file'[f] = want'[f]
                    /\ loaded' /\ up' => inForce' = Boot(file')
  BY DEF EffectInv
<1>k. CASE UNCHANGED <<file, want, inForce, up, loaded>>
  BY <1>k DEF EffectInv
<1>0. CASE UNCHANGED sVars
  BY <1>0, <1>k DEF sVars
<1>1. ASSUME NEW r \in Requests, NEW dto \in DTOs, Submit(r, dto)
      PROVE  UNCHANGED <<file, want, inForce, up, loaded>>
  BY <1>1, SubmitEffect
<1>2. ASSUME NEW r \in Requests, Assign(r) \/ Marshal(r) \/ RejectNTP(r) \/ WriteError(r)
      PROVE  UNCHANGED <<file, want, inForce, up, loaded>>
  BY <1>2 DEF Assign, Marshal, RejectNTP, WriteError
<1>3. ASSUME NEW r \in Requests, Truncate(r) \/ WritePart(r) PROVE FALSE
  BY <1>3, TruncateEffect, PartEffect
<1>4. ASSUME NEW r \in Requests, Write(r)
      PROVE  (\A f \in FieldSet : file'[f] = want'[f]) /\ ~ loaded'
  <2>1. /\ file' = req[r].data /\ want' = req[r].expect /\ loaded' = FALSE
        /\ req[r].pc \in {"write", "rest"}
    BY <1>4 DEF Write
  <2>2. \A f \in FieldSet : req[r].data[f] = req[r].expect[f]
    BY <2>1 DEF ExpectInv, Carried
  <2> QED BY <2>1, <2>2
<1>5. CASE Exit \/ Crash
  <2>1. UNCHANGED <<file, want>> /\ up' = FALSE
    BY <1>5, DownEffect
  <2> QED BY <2>1 DEF EffectInv
<1>6. CASE Start
  <2>1. UNCHANGED <<file, want>> /\ inForce' = Boot(file)
    BY <1>6 DEF Start
  <2> QED BY <2>1 DEF EffectInv
<1> QED BY <1>k, <1>0, <1>1, <1>2, <1>3, <1>4, <1>5, <1>6, SettingsKinds

(***************************************************************************)
(* saveSettings "restarts the process so they take effect": an accepted    *)
(* save that no other request overlapped is, once its file was written and *)
(* the process started again, what the services run with, field by field,  *)
(* whatever refused and failed saves went before and however many restarts *)
(* follow.  The exceptions are the code's own: overrides from the          *)
(* environment, expansion of a $, and defaults for what is blank then.     *)
(***************************************************************************)
THEOREM SaveTakesEffect == Spec => []AcceptedTakesEffect
<1> DEFINE IInv == SettingsOK /\ ExpectInv /\ EffectInv
<1>1. Init => IInv
  <2> SUFFICES ASSUME Init PROVE IInv
    OBVIOUS
  <2>1. want = NoWant /\ \A r \in Requests : req[r] = Idle
    BY DEF Init, SettingsInit
  <2>2. Idle.expect = NoWant
    BY DEF Idle
  <2> QED BY <2>1, <2>2, SettingsInitOK DEF ExpectInv, EffectInv
<1>2. IInv /\ [Next]_vars => IInv'
  BY SettingsInductive, ExpectInductive, EffectInductive
<1>3. IInv => AcceptedTakesEffect
  <2> SUFFICES ASSUME IInv, want # NoWant, loaded, up
               PROVE  /\ \A f \in FieldSet \ (DOMAIN Env \cup {"client", "topic"}) :
                           inForce[f] = Expand(want[f])
                      /\ inForce.client = IF Expand(want.client) = Blank THEN inForce.id
                                          ELSE Expand(want.client)
                      /\ inForce.topic = IF Expand(want.topic) = Blank
                                         THEN TopicOf(inForce.client) ELSE Expand(want.topic)
    BY DEF AcceptedTakesEffect, Expand
  <2>1. inForce = Boot(file) /\ DOMAIN file = FieldSet /\ \A f \in FieldSet : file[f] = want[f]
    BY DEF EffectInv, SettingsOK, FilesOK
  <2>2. file.client = want.client /\ file.topic = want.topic
    BY <2>1, FieldFacts
  <2> QED BY <2>1, <2>2, BootFacts
<1> QED BY <1>1, <1>2, <1>3, PTL DEF Spec
=============================================================================

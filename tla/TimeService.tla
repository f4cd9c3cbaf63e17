----------------------------- MODULE TimeService -----------------------------
(***************************************************************************)
(* The Time Service (gateway/internal/time): every SyncInterval it reads   *)
(* the hardware clock, asks the NTP server, publishes what it found, and   *)
(* sets the hardware clock.  Status may be read between any two steps.     *)
(*                                                                         *)
(* Clocks are represented by how far they are ahead of true time, times by *)
(* the seconds since 1900.  NTP carries them in a uint32: they wrap at     *)
(* Era, and the code reads them as seconds of the first era.               *)
(***************************************************************************)
EXTENDS Integers

CONSTANTS
  Ahead,       \* how far the system clock may be ahead of true time
  Implausible, \* those of them that give a year isPlausible refuses
  MaxDelay,    \* longest way of a packet to or from the server
  Era,         \* 2^32 seconds
  Epoch,       \* 1970 (external: the kernel's RTC takes no time before it)
  Times        \* true times at which a query may be made, in the first two eras

ASSUME TimeAssumption ==
  /\ Ahead \subseteq Int /\ Implausible \subseteq Ahead
  /\ MaxDelay \in Nat /\ Era \in Nat \ {0} /\ Epoch \in 0..Era
  /\ Times \subseteq (Epoch + MaxDelay + 1)..(2 * Era - 1)   \* none before 1970

VARIABLES
  sync,       \* where syncOnce is
  status,     \* Service.status, as far as it is more than display
  measured,   \* what queryNTP returned: offset, when, and if in a new era
  ahead,      \* how far the system clock is ahead
  rtc,        \* the hardware clock, and the last sync that set it
  reachable   \* the NTP server answers

tVars == <<sync, status, measured, ahead, rtc, reachable>>

Abs(n) == IF n < 0 THEN -n ELSE n

\* Go's division truncates towards zero.
Half(n) == IF n < 0 THEN -((-n) \div 2) ELSE n \div 2

\* ntpTimestampToTime: the server's time as the wire carries it
NTPTime(t) == t % Era

\* Mutant: local minus server time.
OffsetReversed(t1, t2, t3, t4) == Half((t1 - t2) + (t4 - t3))

\* The Mills formula
Offset(t1, t2, t3, t4) == Half((t2 - t1) + (t3 - t4))

\* The exchange of a query sent at true time t, with delays d1 and d2 (none is
\* under way at the very moment the seconds wrap)
QueryNTP(t, d1, d2) ==
  Offset(t + ahead, NTPTime(t + d1), NTPTime(t + d1), t + d1 + d2 + ahead)

NewService == [synced |-> FALSE, quality |-> "UNSYNCED", rtcAvailable |-> FALSE]

NotMeasured == [offset |-> 0, at |-> 0, wrapped |-> FALSE]

TimeInit ==
  /\ sync = "rtc" /\ status = NewService
  /\ measured = NotMeasured
  /\ ahead \in Ahead
  /\ rtc \in [present : BOOLEAN, faulty : BOOLEAN, ahead : {0}, set : {FALSE}, wrapped : {FALSE}]
  /\ reachable \in BOOLEAN

TimeTypeOK ==
  /\ sync \in {"rtc", "query", "publish", "write", "wait"}
  /\ status \in [synced : BOOLEAN, quality : {"SYNCED", "RTC", "UNSYNCED", "INVALID"},
                 rtcAvailable : BOOLEAN]
  /\ status.synced <=> status.quality = "SYNCED"
  /\ measured \in [offset : Int, at : Nat, wrapped : BOOLEAN]
  /\ ahead \in Ahead /\ reachable \in BOOLEAN
  /\ rtc \in [present : BOOLEAN, faulty : BOOLEAN, ahead : Int, set : BOOLEAN, wrapped : BOOLEAN]

-----------------------------------------------------------------------------
\* checkRTC: reading the device may fail though it is there.
CheckRTC ==
  /\ sync = "rtc"
  /\ \E ok \in {FALSE, rtc.present} : status' = [status EXCEPT !.rtcAvailable = ok]
  /\ sync' = "query"
  /\ UNCHANGED <<measured, ahead, rtc, reachable>>

\* Mutant: a failed query leaves the status alone.
KeepStatus(s) == s

\* Mutant: the quality falls, the flag stays.
DegradeQuality(s) ==
  [s EXCEPT !.quality = IF s.rtcAvailable THEN "RTC" ELSE "UNSYNCED"]

\* degrade
Degraded(s) ==
  [s EXCEPT !.synced = FALSE,
            !.quality = IF s.rtcAvailable THEN "RTC"
                        ELSE IF ahead \notin Implausible THEN "UNSYNCED" ELSE "INVALID"]

\* No server configured, or the query fails.
SyncFails(server) ==
  /\ sync = "query" /\ (server = "" \/ ~ reachable)
  /\ status' = Degraded(status)
  /\ sync' = "wait"
  /\ UNCHANGED <<measured, ahead, rtc, reachable>>

Query(server) ==
  /\ sync = "query" /\ server # "" /\ reachable
  /\ \E t \in Times, d1, d2 \in 0..MaxDelay :
       /\ t \div Era = (t + d1) \div Era
       /\ measured' = [offset |-> QueryNTP(t, d1, d2), at |-> t + d1 + d2, wrapped |-> t >= Era]
  /\ sync' = "publish"
  /\ UNCHANGED <<status, ahead, rtc, reachable>>

Publish ==
  /\ sync = "publish"
  /\ status' = [status EXCEPT !.synced = TRUE, !.quality = "SYNCED"]
  /\ sync' = "write"
  /\ UNCHANGED <<measured, ahead, rtc, reachable>>

\* RTC_SET_TIME (external): refused for a time before 1970.
Settable(time) == rtc.present /\ time >= Epoch

\* rtc.Write(now.Add(offset)): opening the device fails without one, the ioctl
\* fails for a time the kernel refuses and, on a faulty device, at any time.
\* An error is logged and changes nothing.
WriteRTC ==
  LET time == measured.at + ahead + measured.offset
  IN  /\ sync = "write"
      /\ \/ /\ Settable(time)
            /\ rtc' = [rtc EXCEPT !.ahead = ahead + measured.offset, !.set = TRUE,
                                  !.wrapped = measured.wrapped]
         \/ /\ ~ Settable(time) \/ rtc.faulty
            /\ rtc' = rtc
      /\ sync' = "wait" /\ measured' = [NotMeasured EXCEPT !.wrapped = measured.wrapped]
      /\ UNCHANGED <<status, ahead, reachable>>

\* The ticker fires.
NextSync ==
  /\ sync = "wait"
  /\ sync' = "rtc" /\ measured' = NotMeasured
  /\ UNCHANGED <<status, ahead, rtc, reachable>>

TimeStep(server) ==
  \/ CheckRTC \/ SyncFails(server) \/ Query(server) \/ Publish \/ WriteRTC \/ NextSync

\* The server or the way to it fails, or comes back.
Flip ==
  /\ reachable' = ~ reachable
  /\ UNCHANGED <<sync, status, measured, ahead, rtc>>

\* The process starts again: only the hardware clock keeps its state.
TimeRestart ==
  /\ sync' = "rtc" /\ status' = NewService
  /\ measured' = NotMeasured
  /\ UNCHANGED <<ahead, rtc, reachable>>

-----------------------------------------------------------------------------
\* "Discipline the hardware RTC on every successful sync so a future boot
\* without NTP reachable starts from a recent, NTP-derived time" (service.go):
\* after a sync a clock whose ioctls work is set, and any clock the service has
\* set is off by no more than half of what the two ways of the
\* exchange differ (rounded), whatever the system clock said, however many
\* queries and writes failed since, and across restarts.  This holds as long as
\* answers are of the first NTP era.  From 2036 ntpTimestampToTime gives times
\* the kernel refuses, from 2106 times an era too early, which it takes.
RTCDisciplined ==
  /\ rtc.set /\ ~ rtc.wrapped => 2 * Abs(rtc.ahead) <= MaxDelay + 1
  /\ sync = "wait" /\ status.synced /\ ~ measured.wrapped /\ rtc.present /\ ~ rtc.faulty =>
       rtc.set /\ ~ rtc.wrapped
=============================================================================

-------------------------- MODULE MCGatewayProcess ---------------------------
(* A small instance of GatewayProcess for TLC.                             *)
EXTENDS GatewayProcess

D(id, broker, client, password, topic, ntp) ==
  [id |-> id, broker |-> broker, client |-> client, password |-> password,
   topic |-> topic, ntp |-> ntp]

\* No identity; new settings and a password with a $ that expands; a blank
\* client and password, no NTP; a refused NTP server; a password with a $ that
\* does not parse when expanded.
Submissions == { D("", "b2", "", "", "", "n2"),
                 D("g2", "b2", "c2", "p$x", "t2", "n2"),
                 D("g3", "b2", "", "", "", ""),
                 D("g4", "b4", "c4", "p4", "", BadNTP),
                 D("g5", "b2", "", "$y@p", "", "n2") }

Shipped == D("g1", "b1", "", "p1", "", "n1")

BrokerFromEnv == [f \in {"broker"} |-> "env"]

\* Neither x nor y is set.
DollarExpands == [v \in {"p$x", "$y@p"} |-> IF v = "p$x" THEN "p" ELSE Unparsable]

\* Requests that overlap and write in parts, with a write error or a crash, and
\* no Time Service; or the Time Service at work, with an outage, and one save.
Bounds ==
  { [requests |-> 2, crashes |-> 1, writeErrors |-> 0, parts |-> TRUE, flips |-> 0, syncs |-> FALSE],
    [requests |-> 2, crashes |-> 0, writeErrors |-> 1, parts |-> TRUE, flips |-> 0, syncs |-> FALSE],
    [requests |-> 1, crashes |-> 0, writeErrors |-> 0, parts |-> FALSE, flips |-> 1, syncs |-> TRUE] }

\* Where the Time Service rests, one state of the clocks is enough; a clock that
\* is not there needs no other fault.
BoundedInit ==
  /\ Init
  /\ rtc.faulty => rtc.present
  /\ ~ budget.syncs => ahead \notin Implausible /\ rtc.present /\ ~ rtc.faulty /\ reachable

FairSpec == BoundedInit /\ [][Next]_vars /\ Fairness

ClockErrors == {-3, 50}
Badly == {50}
=============================================================================

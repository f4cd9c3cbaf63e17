--------------------------- MODULE GatewayProcess ----------------------------
(***************************************************************************)
(* The settings and the Time Service in one process: a save changes the    *)
(* NTP server only through the restart, which also forgets what the Time   *)
(* Service knew.                                                           *)
(***************************************************************************)
EXTENDS Settings, TimeService

vars == <<sVars, tVars, budget>>

TypeOK ==
  /\ TimeTypeOK
  /\ \A c \in {file, cfg, inForce, want} : DOMAIN c = FieldSet
  /\ up \in BOOLEAN /\ exits \in Nat /\ (exits > 0 => up)
  /\ \A r \in Requests :
       /\ req[r].pc \in {"idle", "assign", "marshal", "truncate", "write", "rest"}
       /\ req[r].k \in 1..Len(Fields) /\ (req[r].pc # "idle" => up)
  /\ {loaded, whole, cutShort, overlap} \subseteq BOOLEAN

Init == SettingsInit /\ TimeInit

SaveStep == SettingsStep /\ UNCHANGED tVars

Stop == (Exit \/ Crash) /\ UNCHANGED tVars

\* main loads the configuration, then starts the Time Service with it.
Restart == Start /\ TimeRestart

SyncStep ==
  /\ up /\ budget.syncs
  /\ TimeStep(inForce.ntp) /\ UNCHANGED <<sVars, budget>>

Outage ==
  /\ budget.flips > 0 /\ Flip
  /\ budget' = [budget EXCEPT !.flips = @ - 1]
  /\ UNCHANGED sVars

Next == SaveStep \/ Stop \/ Restart \/ SyncStep \/ Outage

Spec == Init /\ [][Next]_vars

\* The supervisor restarts the process, the sleeping goroutine exits it, and
\* the Time Service's goroutine runs on; nothing is assumed of requests.
Fairness == WF_vars(Restart) /\ WF_vars(Exit /\ UNCHANGED tVars) /\ WF_vars(SyncStep)

-----------------------------------------------------------------------------
\* What the dashboard shows follows the server the settings name: SYNCED once
\* that server answers for good, not SYNCED once it is silent for good or
\* none is configured, also across restarts.
QualityFollowsServer ==
  LET synced == up /\ inForce.ntp # Blank /\ reachable
      silent == up /\ (inForce.ntp = Blank \/ ~ reachable)
  IN  budget.syncs =>
        /\ <>[]synced => <>[](status.quality = "SYNCED")
        /\ <>[]silent => <>[](status.quality # "SYNCED")
=============================================================================

----------------------------- MODULE NetConfig ------------------------------
(***************************************************************************)
(* Host network changes with confirm-or-revert: netconfig.Service over the *)
(* nmcli controller (gateway/internal/netconfig), as the API handlers of   *)
(* gateway/internal/api/network.go drive it.  Every HTTP request is a      *)
(* goroutine; revert runs on a goroutine of the timer that fired and takes *)
(* the lock only after its nmcli calls, so requests and reverts interleave *)
(* at every nmcli command.                                                 *)
(***************************************************************************)
EXTENDS Naturals

CONSTANTS
  Clients,         \* concurrent API requests
  Configs,         \* static configurations an operator may apply
  MaxApplies,      \* bound: how many Apply/ApplyDHCP calls are made
  Restarts,        \* TRUE iff the process may restart (saveSettings exits it)
  NmcliFails       \* TRUE iff nmcli commands may fail

Config == [method : {"manual", "auto"}, addr : Nat, dns : Nat]  \* dns 0: none

ASSUME NetAssumption ==
  /\ MaxApplies \in Nat
  /\ Restarts \in BOOLEAN /\ NmcliFails \in BOOLEAN
  /\ Configs \subseteq {c \in Config : c.method = "manual"}

VARIABLES
  profile,  \* the connection profile NetworkManager has saved
  live,     \* the configuration the interface runs with
  applies,  \* Apply/ApplyDHCP calls so far; a call's number names its timer
  req,      \* per client: the call it executes and how far it got
  timer,    \* Service.timer: the id of a timer, 0 for nil
  timers,   \* the timer of each call: its state and revert target
  settled,  \* history: the timers armed before the last successful Confirm
  escaped,  \* history: the timers neither Confirm nor Apply can stop any more
  mixed     \* history: the running reverts that met another's nmcli command half way

history == <<settled, escaped, mixed>>
vars    == <<profile, live, applies, req, timer, timers, history>>

DHCP == [method |-> "auto", addr |-> 0, dns |-> 0]

Calls == 1..MaxApplies

TimerState == {"none", "armed", "stopped", "fired", "modified", "applied",
               "failed", "done", "lost"}

TypeOK ==
  /\ profile \in Config /\ live \in Config
  /\ req \in [Clients -> [pc : {"idle", "modify", "activate", "arm"},
                          id : Calls \cup {0}, cfg : Config, prev : Config]]
  /\ applies \in 0..MaxApplies
  /\ timers \in [Calls -> [state : TimerState, prev : Config]]
  /\ timer \in Calls \cup {0}
  /\ settled \subseteq Calls /\ escaped \subseteq Calls /\ mixed \subseteq Calls

Idle == [pc |-> "idle", id |-> 0, cfg |-> DHCP, prev |-> DHCP]

Init ==
  /\ profile \in Configs \cup {DHCP} /\ live = profile   \* both effective
  /\ applies = 0 /\ req = [c \in Clients |-> Idle]
  /\ timer = 0 /\ timers = [t \in Calls |-> [state |-> "none", prev |-> DHCP]]
  /\ settled = {} /\ escaped = {} /\ mixed = {}

-----------------------------------------------------------------------------
(* nmcli: `con mod` edits the saved profile, `con up` puts it into effect. *)

\* Mutant: ipv4.method is given a value NetworkManager does not have.
ConModDhcp(cfg) ==
  IF cfg.method = "auto" THEN [profile EXCEPT !.method = "dhcp"]
  ELSE [cfg EXCEPT !.dns = IF cfg.dns = 0 THEN profile.dns ELSE cfg.dns]

\* ApplyStatic passes ipv4.dns only when the request has DNS servers;
\* ApplyDHCP changes ipv4.method alone.
ConMod(cfg) ==
  IF cfg.method = "auto" THEN [profile EXCEPT !.method = "auto"]
  ELSE [cfg EXCEPT !.dns = IF cfg.dns = 0 THEN profile.dns ELSE cfg.dns]

\* `con up`: what a profile puts into effect; address 0 is DHCP's lease.
Effective(c) == [method |-> c.method, dns |-> c.dns,
                 addr |-> IF c.method = "auto" THEN 0 ELSE c.addr]

Reverting(t) == timers[t].state \in {"fired", "modified", "applied", "failed"}

\* History of an nmcli command: the other reverts that have run their con mod.
Mixed(t) == mixed \cup {u \in Calls \ {t} : timers[u].state \in {"modified", "applied"}}

SetTimer(t, state) == [timers EXCEPT ![t].state = state]

\* time.Timer.Stop: too late for a timer that has fired.
Stop(t) == IF t # 0 /\ timers[t].state = "armed" THEN SetTimer(t, "stopped") ELSE timers

-----------------------------------------------------------------------------
(* applyAndArm                                                             *)

\* ctrl.Current(): address, gateway and DNS are the device's, the method is
\* the saved profile's.
Current == [live EXCEPT !.method = profile.method]

\* The call starts with a snapshot of the settings, without the lock.
Snapshot(c, cfg) ==
  /\ req[c].pc = "idle" /\ applies < MaxApplies
  /\ applies' = applies + 1
  /\ req' = [req EXCEPT ![c] = [pc |-> "modify", id |-> applies + 1, cfg |-> cfg, prev |-> Current]]
  /\ UNCHANGED <<profile, live, timer, timers, history>>

\* The API handlers; a request that is refused or not decoded changes nothing.
ApplyNetwork(c)     == \E cfg \in Configs : Snapshot(c, cfg)
ApplyNetworkDHCP(c) == Snapshot(c, DHCP)

\* do(): nmcli con mod; an error ends the request.
Modify(c) ==
  /\ req[c].pc = "modify"
  /\ \/ profile' = ConMod(req[c].cfg) /\ req' = [req EXCEPT ![c].pc = "activate"]
     \/ NmcliFails /\ req' = [req EXCEPT ![c] = Idle] /\ UNCHANGED profile
  /\ mixed' = Mixed(req[c].id)
  /\ UNCHANGED <<applies, live, timer, timers, settled, escaped>>

\* do(): nmcli con up; an error ends the request with the profile changed.
Activate(c) ==
  /\ req[c].pc = "activate"
  /\ \/ live' = Effective(profile) /\ req' = [req EXCEPT ![c].pc = "arm"]
     \/ NmcliFails /\ req' = [req EXCEPT ![c] = Idle] /\ UNCHANGED live
  /\ mixed' = Mixed(req[c].id)
  /\ UNCHANGED <<applies, profile, timer, timers, settled, escaped>>

\* Mutant: the old timer is forgotten, not stopped.
ArmBesideOld(c) ==
  /\ req[c].pc = "arm"
  /\ timers' = [timers EXCEPT ![req[c].id] = [state |-> "armed", prev |-> req[c].prev]]
  /\ timer' = req[c].id
  /\ req' = [req EXCEPT ![c] = Idle]
  /\ UNCHANGED <<applies, profile, live, history>>

\* Under the lock: stop the old timer, start the new one.
Arm(c) ==
  /\ req[c].pc = "arm"
  /\ timers' = [Stop(timer) EXCEPT ![req[c].id] = [state |-> "armed", prev |-> req[c].prev]]
  /\ timer' = req[c].id
  /\ req' = [req EXCEPT ![c] = Idle]
  /\ UNCHANGED <<applies, profile, live, history>>

\* Mutant: Confirm forgets to stop the timer.
ConfirmWithoutStop ==
  /\ timer # 0
  /\ timer' = 0
  /\ settled' = {t \in Calls : timers[t].state # "none"}
  /\ escaped' = escaped \cup {t \in Calls : Reverting(t)}
  /\ UNCHANGED <<applies, profile, live, req, timers, mixed>>

\* Confirm: with no timer it is an error and changes nothing.
Confirm ==
  /\ timer # 0
  /\ timers' = Stop(timer)
  /\ timer' = 0
  /\ settled' = {t \in Calls : timers[t].state # "none"}
  /\ escaped' = escaped \cup {t \in Calls : Reverting(t)}
  /\ UNCHANGED <<applies, profile, live, req, mixed>>

-----------------------------------------------------------------------------
(* The timer and revert                                                    *)

\* confirmWindow has passed.
Fire(t) ==
  /\ timers[t].state = "armed"
  /\ timers' = SetTimer(t, "fired")
  /\ UNCHANGED <<applies, profile, live, req, timer, history>>

\* Mutant: every revert is an ApplyDHCP.
RevertModifyToDHCP(t) ==
  /\ timers[t].state = "fired"
  /\ \/ profile' = ConMod(DHCP) /\ timers' = SetTimer(t, "modified")
     \/ NmcliFails /\ UNCHANGED profile /\ timers' = SetTimer(t, "failed")
  /\ mixed' = Mixed(t)
  /\ UNCHANGED <<applies, live, req, timer, settled, escaped>>

\* revert: ApplyStatic of a "manual" snapshot, ApplyDHCP of any other; errors
\* are logged and the revert goes on.
RevertModify(t) ==
  /\ timers[t].state = "fired"
  /\ \/ profile' = ConMod(timers[t].prev) /\ timers' = SetTimer(t, "modified")
     \/ NmcliFails /\ UNCHANGED profile /\ timers' = SetTimer(t, "failed")
  /\ mixed' = Mixed(t)
  /\ UNCHANGED <<applies, live, req, timer, settled, escaped>>

RevertActivate(t) ==
  /\ timers[t].state = "modified"
  /\ \/ live' = Effective(profile) /\ timers' = SetTimer(t, "applied")
     \/ NmcliFails /\ UNCHANGED live /\ timers' = SetTimer(t, "failed")
  /\ mixed' = Mixed(t)
  /\ UNCHANGED <<applies, profile, req, timer, settled, escaped>>

\* Mutant: revert returns where it logs the error.
RevertDoneOnSuccess(t) ==
  /\ timers[t].state = "applied"
  /\ timers' = SetTimer(t, "done")
  /\ timer' = 0
  /\ escaped' = escaped \cup {u \in Calls : u # t /\ timers[u].state = "armed"}
  /\ mixed' = mixed \ {t}
  /\ UNCHANGED <<applies, profile, live, req, settled>>

\* revert, under the lock: previous = nil, timer = nil, whichever timer it is.
RevertDone(t) ==
  /\ timers[t].state \in {"applied", "failed"}
  /\ timers' = SetTimer(t, "done")
  /\ timer' = 0
  /\ escaped' = escaped \cup {u \in Calls : u # t /\ timers[u].state = "armed"}
  /\ mixed' = mixed \ {t}
  /\ UNCHANGED <<applies, profile, live, req, settled>>

\* The process restarts: timers and requests are gone, nmcli's state stays.
Restart ==
  /\ Restarts
  /\ timers' = [t \in Calls |->
                  IF timers[t].state \in {"none", "stopped", "done"} THEN timers[t]
                  ELSE [timers[t] EXCEPT !.state = "lost"]]
  /\ timer' = 0
  /\ req' = [c \in Clients |-> Idle]
  /\ UNCHANGED <<applies, profile, live, history>>

Next ==
  \/ \E c \in Clients :
       \/ ApplyNetwork(c) \/ ApplyNetworkDHCP(c)
       \/ Modify(c) \/ Activate(c) \/ Arm(c)
  \/ Confirm
  \/ \E t \in Calls :
       Fire(t) \/ RevertModify(t) \/ RevertActivate(t) \/ RevertDone(t)
  \/ Restart

Spec == Init /\ [][Next]_vars

\* Requests and reverts run on, and an armed timer fires unless it is stopped.
FairSpec ==
  /\ Spec
  /\ \A c \in Clients : WF_vars(Modify(c)) /\ WF_vars(Activate(c)) /\ WF_vars(Arm(c))
  /\ \A t \in Calls : /\ WF_vars(Fire(t)) /\ WF_vars(RevertModify(t))
                      /\ WF_vars(RevertActivate(t)) /\ WF_vars(RevertDone(t))

-----------------------------------------------------------------------------
\* "Confirm cancels the pending revert, making the last Apply permanent"
\* (service.go): once Confirm has returned nil, no revert of an earlier call
\* runs or will run.  The code does not keep this: Stop has no effect on a
\* timer that has fired, and Confirm does not see that it has.
ConfirmIsPermanent ==
  \A t \in settled : timers[t].state \in {"stopped", "done", "lost"}

\* What Confirm does keep: the reverts that go on after it are the ones that
\* were already running when it was called and those of timers a revert had
\* unlinked; no other timer of an earlier call, however many calls, reverts
\* and confirmations overlapped, ever reverts.
ConfirmCancels ==
  \A t \in settled \ escaped : timers[t].state \in {"stopped", "done", "lost"}

\* "Pending reports whether an unconfirmed change is currently awaiting
\* confirmation (or automatic revert)" (service.go).  The code keeps this but
\* for one case: a revert that ends clears Service.timer whichever timer it
\* names, and a change armed during it is no longer pending.  Every other timer
\* that can still fire is the one Pending and Confirm see: at most one.
PendingSeesArmed ==
  \A t \in Calls \ escaped : timers[t].state = "armed" => timer = t

\* A revert whose nmcli commands succeed leaves the interface with the
\* settings Current() reported before the call it undoes (ApplyDHCP's comment:
\* "it reverts back to whatever config (static or DHCP) was active before this
\* call"), whatever other calls did before its first command and whatever it
\* overlaps, unless another's nmcli command came between its own.  DNS servers
\* are restored only where the revert names some: ApplyStatic leaves ipv4.dns
\* alone without servers, and ApplyDHCP always does.
RevertRestores ==
  \A t \in Calls \ mixed :
    LET prev == Effective(timers[t].prev)
    IN  timers[t].state = "applied" =>
          /\ live.method = prev.method /\ live.addr = prev.addr
          /\ prev.method = "manual" /\ prev.dns # 0 => live.dns = prev.dns

\* A change is "automatically rolled back after confirmWindow unless Confirm is
\* called first" (Service's comment) as long as the process lives: every change
\* is confirmed, replaced or reverted, also when nmcli fails in the revert,
\* unless a restart loses the timer.
UnconfirmedEnds ==
  \A t \in Calls : timers[t].state = "armed" ~> timers[t].state \in {"stopped", "done", "lost"}
=============================================================================

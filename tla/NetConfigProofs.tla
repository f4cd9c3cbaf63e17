--------------------------- MODULE NetConfigProofs ---------------------------
(***************************************************************************)
(* Proofs about NetConfig, for any number of requests, calls and           *)
(* configurations, with failing nmcli commands and restarts, and with      *)
(* requests and reverts that overlap in every way the code allows.         *)
(***************************************************************************)
EXTENDS NetConfig, TLAPS

Request == [pc : {"idle", "modify", "activate", "arm"},
            id : Calls \cup {0}, cfg : Config, prev : Config]

Timer == [state : TimerState, prev : Config]

\* A request in progress owns the number of its call, whose timer is unused;
\* so are the timers of calls yet to come.
CallsInv ==
  /\ \A c \in Clients : req[c].pc # "idle" =>
       /\ req[c].id \in 1..applies
       /\ timers[req[c].id].state = "none"
  /\ \A c, d \in Clients :
       c # d /\ req[c].pc # "idle" /\ req[d].pc # "idle" => req[c].id # req[d].id
  /\ \A t \in Calls : t > applies => timers[t].state = "none"

\* Half way through a revert that met no other nmcli command the saved profile
\* is what the revert asked for.
ProfileInv ==
  \A t \in Calls \ mixed :
    LET prev == timers[t].prev
    IN  timers[t].state = "modified" =>
          /\ profile.method = prev.method
          /\ prev.method = "manual" =>
               /\ profile.addr = prev.addr
               /\ prev.dns # 0 => profile.dns = prev.dns

\* What keeps the lock's view of the timers right, and what reverts restore.
LinkInv == PendingSeesArmed /\ ConfirmCancels
UndoInv == ProfileInv /\ RevertRestores

-----------------------------------------------------------------------------
(* Type correctness.                                                       *)

\* What `con mod`, `con up` and Current make of configurations are
\* configurations.
LEMMA ConfigOps ==
  ASSUME TypeOK
  PROVE  /\ \A cfg \in Config : ConMod(cfg) \in Config
         /\ Effective(profile) \in Config
         /\ Current \in Config /\ DHCP \in Config
<1>1. \A cfg \in Config : ConMod(cfg) \in Config
  BY DEF TypeOK, Config, ConMod
<1>2. Effective(profile) \in Config
  BY DEF TypeOK, Config, Effective
<1>3. Current \in Config /\ DHCP \in Config
  BY DEF TypeOK, Config, Current, DHCP
<1> QED BY <1>1, <1>2, <1>3

\* Changing the state of a timer, and Stop, leave a table of timers.
LEMMA TimerOps ==
  ASSUME TypeOK
  PROVE  /\ \A t \in Calls, s \in TimerState : SetTimer(t, s) \in [Calls -> Timer]
         /\ Stop(timer) \in [Calls -> Timer]
<1>0. timers \in [Calls -> Timer] /\ timer \in Calls \cup {0}
  BY DEF TypeOK, Timer
<1>1. ASSUME NEW t \in Calls, NEW s \in TimerState
      PROVE  SetTimer(t, s) \in [Calls -> Timer]
  BY <1>0 DEF SetTimer, Timer
<1>2. Stop(timer) \in [Calls -> Timer]
  <2>1. "stopped" \in TimerState
    BY DEF TimerState
  <2>2. 0 \notin Calls
    BY DEF Calls
  <2> QED BY <1>0, <1>1, <2>1, <2>2 DEF Stop
<1> QED BY <1>1, <1>2

\* Every action keeps the state well typed.
LEMMA TypeInductive == TypeOK /\ [Next]_vars => TypeOK'
<1> SUFFICES ASSUME TypeOK, [Next]_vars PROVE TypeOK'
  OBVIOUS
<1>a. /\ req \in [Clients -> Request] /\ timers \in [Calls -> Timer]
      /\ \A c \in Clients : req[c] \in Request
  BY DEF TypeOK, Request, Timer
<1>i. Idle \in Request
  BY ConfigOps DEF Idle, Request
<1>m. \A t : Mixed(t) \subseteq Calls
  BY DEF Mixed, TypeOK
<1>0. CASE UNCHANGED vars
  BY <1>0 DEF TypeOK, vars, history
<1>1. ASSUME NEW c \in Clients, NEW cfg \in Config, Snapshot(c, cfg) PROVE TypeOK'
  <2>1. applies + 1 \in Calls /\ applies + 1 \in 0..MaxApplies
    BY <1>1, NetAssumption DEF Snapshot, TypeOK, Calls
  <2>2. [pc |-> "modify", id |-> applies + 1, cfg |-> cfg, prev |-> Current] \in Request
    BY <2>1, ConfigOps DEF Request
  <2>3. req' \in [Clients -> Request]
    BY <1>a, <1>1, <2>2 DEF Snapshot
  <2> QED BY <1>1, <2>1, <2>3 DEF Snapshot, TypeOK, Request, history
<1>2. ASSUME NEW c \in Clients, Modify(c) PROVE TypeOK'
  <2>1. req' \in [Clients -> Request]
    BY <1>a, <1>i, <1>2 DEF Modify, Request
  <2>2. profile' \in Config
    BY <1>a, <1>2, ConfigOps DEF Modify, Request, TypeOK
  <2> QED BY <1>m, <1>2, <2>1, <2>2 DEF Modify, TypeOK, Request
<1>3. ASSUME NEW c \in Clients, Activate(c) PROVE TypeOK'
  <2>1. req' \in [Clients -> Request]
    BY <1>a, <1>i, <1>3 DEF Activate, Request
  <2>2. live' \in Config
    BY <1>3, ConfigOps DEF Activate, TypeOK
  <2> QED BY <1>m, <1>3, <2>1, <2>2 DEF Activate, TypeOK, Request
<1>4. ASSUME NEW c \in Clients, Arm(c) PROVE TypeOK'
  <2>1. req' \in [Clients -> Request]
    BY <1>a, <1>i, <1>4 DEF Arm
  <2>2. [state |-> "armed", prev |-> req[c].prev] \in Timer
    BY <1>a DEF Timer, Request, TimerState
  <2>3. timers' \in [Calls -> Timer]
    BY <1>4, <2>2, TimerOps DEF Arm
  <2>4. timer' \in Calls \cup {0}
    BY <1>a, <1>4 DEF Arm, Request
  <2> QED BY <1>4, <2>1, <2>3, <2>4 DEF Arm, TypeOK, Request, Timer, history
<1>5. CASE Confirm
  <2>1. timers' \in [Calls -> Timer]
    BY <1>5, TimerOps DEF Confirm
  <2> QED BY <1>5, <2>1 DEF Confirm, TypeOK, Timer
<1>6. ASSUME NEW t \in Calls, Fire(t) PROVE TypeOK'
  <2>1. timers' \in [Calls -> Timer]
    BY <1>6, TimerOps DEF Fire, TimerState
  <2> QED BY <1>6, <2>1 DEF Fire, TypeOK, Timer, history
<1>7. ASSUME NEW t \in Calls, RevertModify(t) PROVE TypeOK'
  <2>1. timers' \in [Calls -> Timer]
    BY <1>7, TimerOps DEF RevertModify, TimerState
  <2>2. profile' \in Config
    BY <1>a, <1>7, ConfigOps DEF RevertModify, TypeOK, Timer
  <2> QED BY <1>m, <1>7, <2>1, <2>2 DEF RevertModify, TypeOK, Timer
<1>8. ASSUME NEW t \in Calls, RevertActivate(t) PROVE TypeOK'
  <2>1. timers' \in [Calls -> Timer]
    BY <1>8, TimerOps DEF RevertActivate, TimerState
  <2>2. live' \in Config
    BY <1>8, ConfigOps DEF RevertActivate, TypeOK
  <2> QED BY <1>m, <1>8, <2>1, <2>2 DEF RevertActivate, TypeOK, Timer
<1>9. ASSUME NEW t \in Calls, RevertDone(t) PROVE TypeOK'
  <2>1. timers' \in [Calls -> Timer]
    BY <1>9, TimerOps DEF RevertDone, TimerState
  <2> QED BY <1>9, <2>1 DEF RevertDone, TypeOK, Timer
<1>10. CASE Restart
  <2>1. timers' \in [Calls -> Timer]
    BY <1>a, <1>10 DEF Restart, Timer, TimerState
  <2>2. req' \in [Clients -> Request]
    BY <1>i, <1>10 DEF Restart
  <2> QED BY <1>10, <2>1, <2>2 DEF Restart, TypeOK, Timer, Request, history
<1> QED
  <2>1. \A cfg \in Configs : cfg \in Config
    BY NetAssumption
  <2> QED BY <1>0, <1>1, <1>2, <1>3, <1>4, <1>5, <1>6, <1>7, <1>8, <1>9, <1>10, <2>1, ConfigOps
          DEF Next, ApplyNetwork, ApplyNetworkDHCP

\* The state is well typed, whatever overlaps and fails.
THEOREM TypeCorrect == Spec => []TypeOK
<1>1. Init => TypeOK
  <2>1. DHCP \in Config /\ \A cfg \in Configs : cfg \in Config
    BY NetAssumption DEF DHCP, Config
  <2> QED BY <2>1, NetAssumption DEF Init, TypeOK, Idle, TimerState
<1> QED BY <1>1, TypeInductive, PTL DEF Spec

-----------------------------------------------------------------------------
(* Calls and their timers, overlapping or not.                             *)

\* Stop changes the timer it is given, from armed to stopped, and no other.
LEMMA StopEffect ==
  ASSUME TypeOK, NEW t \in Calls
  PROVE  /\ Stop(timer)[t].prev = timers[t].prev
         /\ Stop(timer)[t].state = IF t = timer /\ timers[t].state = "armed"
                                   THEN "stopped" ELSE timers[t].state
<1> timers \in [Calls -> Timer] /\ timer \in Calls \cup {0} /\ t # 0
  BY DEF TypeOK, Timer, Calls
<1> QED BY DEF Stop, SetTimer, Timer

\* SetTimer changes the state of one timer.
LEMMA SetEffect ==
  ASSUME TypeOK, NEW t \in Calls, NEW s, NEW u \in Calls
  PROVE  /\ SetTimer(t, s)[u].prev = timers[u].prev
         /\ SetTimer(t, s)[u].state = IF u = t THEN s ELSE timers[u].state
<1> timers \in [Calls -> Timer]
  BY DEF TypeOK, Timer
<1> QED BY DEF SetTimer, Timer

\* The steps of a timer, seen from the calls: an unused timer stays unused.
TimerStep ==
  \E t \in Calls : \/ Fire(t) \/ RevertModify(t) \/ RevertActivate(t) \/ RevertDone(t)

(* A timer that fires, and the steps of its revert, touch no other timer   *)
(* and no request.                                                         *)
LEMMA TimerStepEffect ==
  ASSUME TypeOK, NEW t \in Calls, Fire(t) \/ RevertModify(t) \/ RevertActivate(t) \/ RevertDone(t)
  PROVE  /\ timers[t].state # "none" /\ timers'[t].state \notin {"none", "armed", "stopped", "lost"}
         /\ \A u \in Calls : u # t => timers'[u].state = timers[u].state
         /\ \A u \in Calls : timers'[u].prev = timers[u].prev
         /\ UNCHANGED <<applies, req, settled>>
         /\ escaped \subseteq escaped'
<1>1. CASE Fire(t)
  BY <1>1, SetEffect DEF Fire, history
<1>2. CASE RevertModify(t)
  BY <1>2, SetEffect DEF RevertModify
<1>3. CASE RevertActivate(t)
  BY <1>3, SetEffect DEF RevertActivate
<1>4. CASE RevertDone(t)
  BY <1>4, SetEffect DEF RevertDone
<1> QED BY <1>1, <1>2, <1>3, <1>4

\* What Arm does to the timers: the old one is stopped, its own is armed.
LEMMA ArmEffect ==
  ASSUME TypeOK, CallsInv, NEW c \in Clients, Arm(c)
  PROVE  /\ req[c].id \in Calls /\ timers[req[c].id].state = "none"
         /\ timer' = req[c].id
         /\ timers'[req[c].id].state = "armed"
         /\ \A t \in Calls : t # req[c].id =>
              /\ timers'[t].prev = timers[t].prev
              /\ timers'[t].state = IF t = timer /\ timers[t].state = "armed"
                                    THEN "stopped" ELSE timers[t].state
         /\ \A d \in Clients : d # c => req'[d] = req[d]
         /\ req'[c].pc = "idle"
<1>0. req \in [Clients -> Request] /\ Stop(timer) \in [Calls -> Timer]
  BY TimerOps DEF TypeOK, Request
<1>1. req[c].id \in Calls /\ timers[req[c].id].state = "none"
  BY NetAssumption DEF CallsInv, Arm, TypeOK, Calls
<1>2. /\ timer' = req[c].id /\ req'[c].pc = "idle"
      /\ \A d \in Clients : d # c => req'[d] = req[d]
  BY <1>0 DEF Arm, Idle
<1>3. timers'[req[c].id].state = "armed"
  BY <1>0, <1>1 DEF Arm
<1>4. ASSUME NEW t \in Calls, t # req[c].id PROVE timers'[t] = Stop(timer)[t]
  BY <1>0, <1>4 DEF Arm
<1> QED BY <1>1, <1>2, <1>3, <1>4, StopEffect

\* Calls keep their numbers apart: the invariant needs no assumption.
LEMMA CallsInductive == TypeOK /\ CallsInv /\ [Next]_vars => CallsInv'
<1> SUFFICES ASSUME TypeOK, CallsInv, [Next]_vars PROVE CallsInv'
  OBVIOUS
<1>a. req \in [Clients -> Request] /\ applies \in Nat
  BY NetAssumption DEF TypeOK, Request
<1>0. CASE UNCHANGED vars
  BY <1>0 DEF CallsInv, vars
<1>1. ASSUME NEW c \in Clients, NEW cfg, Snapshot(c, cfg) PROVE CallsInv'
  <2>1. /\ req'[c].id = applies + 1 /\ applies' = applies + 1 /\ timers' = timers
        /\ \A d \in Clients : d # c => req'[d] = req[d]
    BY <1>a, <1>1 DEF Snapshot
  <2>2. applies + 1 \in Calls
    BY <1>a, <1>1, NetAssumption DEF Snapshot, Calls
  <2>3. timers[applies + 1].state = "none"
    BY <1>a, <2>2 DEF CallsInv
  <2> QED BY <1>a, <2>1, <2>2, <2>3, NetAssumption DEF CallsInv, Calls
<1>2. ASSUME NEW c \in Clients, Modify(c) \/ Activate(c) PROVE CallsInv'
  <2>1. /\ applies' = applies /\ timers' = timers
        /\ \A d \in Clients : d # c => req'[d] = req[d]
        /\ req[c].pc # "idle"
        /\ req'[c].pc = "idle" \/ req'[c].id = req[c].id
    <3>1. CASE Modify(c)
      BY <1>a, <3>1 DEF Modify, Idle, Request
    <3>2. CASE Activate(c)
      BY <1>a, <3>2 DEF Activate, Idle, Request
    <3> QED BY <1>2, <3>1, <3>2
  <2> QED BY <1>a, <2>1 DEF CallsInv
<1>3. ASSUME NEW c \in Clients, Arm(c) PROVE CallsInv'
  <2>1. applies' = applies
    BY <1>3 DEF Arm
  <2>2. ASSUME NEW d \in Clients, req'[d].pc # "idle"
        PROVE  /\ d # c /\ req'[d] = req[d] /\ req[d].id \in 1..applies
               /\ timers'[req[d].id].state = "none"
    <3>1. d # c /\ req'[d] = req[d]
      BY <1>3, <2>2, ArmEffect
    <3>2. req[d].id # req[c].id /\ req[d].id \in 1..applies /\ timers[req[d].id].state = "none"
      BY <1>3, <2>2, <3>1 DEF CallsInv, Arm
    <3>3. req[d].id \in Calls
      BY <3>2, NetAssumption DEF TypeOK, Calls
    <3> QED BY <1>3, <3>1, <3>2, <3>3, ArmEffect
  <2>3. ASSUME NEW t \in Calls, t > applies PROVE timers'[t].state = "none"
    <3>1. t # req[c].id /\ timers[t].state = "none"
      BY <1>a, <1>3, <2>3, NetAssumption DEF CallsInv, Arm, Calls
    <3> QED BY <1>3, <3>1, ArmEffect
  <2>4. \A d, e \in Clients : d # e /\ req'[d].pc # "idle" /\ req'[e].pc # "idle"
                                => req'[d].id # req'[e].id
    BY <2>2 DEF CallsInv
  <2> QED BY <2>1, <2>2, <2>3, <2>4 DEF CallsInv
<1>4. CASE Confirm
  <2>1. /\ req' = req /\ applies' = applies
        /\ \A t \in Calls : timers[t].state = "none" => timers'[t].state = "none"
    BY <1>4, StopEffect DEF Confirm
  <2>2. \A c \in Clients : req[c].pc # "idle" => req[c].id \in Calls
    BY NetAssumption DEF CallsInv, TypeOK, Calls
  <2> QED BY <2>1, <2>2 DEF CallsInv
<1>5. CASE TimerStep
  <2>1. /\ req' = req /\ applies' = applies
        /\ \A t \in Calls : timers[t].state = "none" => timers'[t].state = "none"
    BY <1>5, TimerStepEffect DEF TimerStep
  <2>2. \A c \in Clients : req[c].pc # "idle" => req[c].id \in Calls
    BY NetAssumption DEF CallsInv, TypeOK, Calls
  <2> QED BY <2>1, <2>2 DEF CallsInv
<1>6. CASE Restart
  <2>1. /\ \A c \in Clients : req'[c].pc = "idle"
        /\ applies' = applies
        /\ \A t \in Calls : timers[t].state = "none" => timers'[t].state = "none"
    BY <1>6 DEF Restart, Idle
  <2> QED BY <2>1 DEF CallsInv
<1> QED
  BY <1>0, <1>1, <1>2, <1>3, <1>4, <1>5, <1>6
  DEF Next, ApplyNetwork, ApplyNetworkDHCP, TimerStep

\* CallsInv is an invariant of the specification.
LEMMA CallsCorrect == Spec => []CallsInv
<1>1. Init => CallsInv
  BY NetAssumption DEF Init, CallsInv, Idle
<1> QED BY <1>1, CallsInductive, TypeCorrect, PTL DEF Spec

-----------------------------------------------------------------------------
(* What Confirm, Pending and Apply see of the timers.                      *)

\* Every action keeps the timers that the lock still reaches under the name
\* Service.timer, and the settled ones among them at their end.
LEMMA LinkInductive == TypeOK /\ CallsInv /\ LinkInv /\ [Next]_vars => LinkInv'
<1> SUFFICES ASSUME TypeOK, CallsInv, LinkInv, [Next]_vars PROVE LinkInv'
  OBVIOUS
<1> USE DEF LinkInv
<1>a. timers \in [Calls -> Timer] /\ settled \subseteq Calls
  BY DEF TypeOK, Timer
<1>0. CASE UNCHANGED <<timer, timers, settled, escaped>>
  BY <1>0 DEF PendingSeesArmed, ConfirmCancels
<1>1. ASSUME NEW c \in Clients, Arm(c) PROVE LinkInv'
  <2>0. settled' = settled /\ escaped' = escaped
    BY <1>1 DEF Arm, history
  <2>1. PendingSeesArmed'
    BY <1>1, <2>0, ArmEffect DEF PendingSeesArmed
  <2>2. \A t \in settled \ escaped : t \in Calls /\ t # req[c].id
    BY <1>a, <1>1, ArmEffect DEF ConfirmCancels
  <2>3. \A t \in settled \ escaped : timers'[t].state = timers[t].state
    BY <1>1, <2>2, ArmEffect DEF ConfirmCancels
  <2> QED BY <2>0, <2>1, <2>3 DEF ConfirmCancels
<1>2. CASE Confirm
  <2>1. PendingSeesArmed'
    BY <1>2, StopEffect DEF PendingSeesArmed, Confirm
  <2>2. ASSUME NEW t \in settled' \ escaped' PROVE timers'[t].state \in {"stopped", "done", "lost"}
    <3>1. /\ t \in Calls /\ t \notin escaped
          /\ timers[t].state # "none" /\ ~ Reverting(t)
      BY <1>2, <2>2 DEF Confirm
    <3>2. timers[t].state \in {"armed", "stopped", "done", "lost"}
      BY <1>a, <3>1 DEF Timer, TimerState, Reverting
    <3>3. timers[t].state = "armed" => t = timer
      BY <3>1 DEF PendingSeesArmed
    <3> QED BY <1>2, <3>1, <3>2, <3>3, StopEffect DEF Confirm
  <2> QED BY <2>1, <2>2 DEF ConfirmCancels
<1>3. ASSUME NEW t \in Calls, Fire(t) \/ RevertModify(t) \/ RevertActivate(t) \/ RevertDone(t)
      PROVE  LinkInv'
  <2>1. t \notin settled \ escaped
    BY <1>3 DEF ConfirmCancels, Fire, RevertModify, RevertActivate, RevertDone
  <2>2. ConfirmCancels'
    BY <1>a, <1>3, <2>1, TimerStepEffect DEF ConfirmCancels
  <2>3. timer' = timer \/ \A u \in Calls : u # t /\ timers[u].state = "armed" => u \in escaped'
    BY <1>3 DEF Fire, RevertModify, RevertActivate, RevertDone
  <2>4. \A u \in Calls : timers'[u].state = "armed" => u # t /\ timers[u].state = "armed"
    BY <1>3, TimerStepEffect
  <2>5. escaped \subseteq escaped'
    BY <1>3, TimerStepEffect
  <2>6. PendingSeesArmed'
    BY <2>3, <2>4, <2>5 DEF PendingSeesArmed
  <2> QED BY <2>2, <2>6
<1>4. CASE Restart
  <2>1. \A t \in Calls : /\ timers'[t].state \in {"none", "stopped", "done", "lost"}
                         /\ timers[t].state # "none" => timers'[t].state # "none"
    BY <1>a, <1>4 DEF Restart, Timer
  <2>2. settled' = settled /\ escaped' = escaped
    BY <1>4 DEF Restart, history
  <2> QED BY <1>a, <2>1, <2>2 DEF PendingSeesArmed, ConfirmCancels
<1>5. ASSUME NEW c \in Clients, NEW cfg, Snapshot(c, cfg) \/ Modify(c) \/ Activate(c)
      PROVE  UNCHANGED <<timer, timers, settled, escaped>>
  BY <1>5 DEF Snapshot, Modify, Activate, history
<1> QED
  BY <1>0, <1>1, <1>2, <1>3, <1>4, <1>5 DEF Next, ApplyNetwork, ApplyNetworkDHCP, vars, history

\* LinkInv is an invariant of the specification.
LEMMA LinkCorrect == Spec => []LinkInv
<1>1. Init => LinkInv
  BY DEF Init, LinkInv, PendingSeesArmed, ConfirmCancels
<1> QED BY <1>1, LinkInductive, CallsCorrect, TypeCorrect, PTL DEF Spec

\* Confirm lets only those reverts of earlier calls go on that were running
\* when it was called and those of timers a revert had unlinked.
THEOREM ConfirmFinal == Spec => []ConfirmCancels
BY LinkCorrect, PTL DEF LinkInv

\* A timer that can still fire is the one Pending and Confirm see, unless a
\* revert unlinked it.
THEOREM ArmedPending == Spec => []PendingSeesArmed
BY LinkCorrect, PTL DEF LinkInv

-----------------------------------------------------------------------------
(* What a revert restores.                                                 *)

\* A revert that has run its con mod is marked by every other nmcli command, so
\* the profile of an unmarked one is still its own.
LEMMA UndoInductive == TypeOK /\ CallsInv /\ UndoInv /\ [Next]_vars => UndoInv'
<1> SUFFICES ASSUME TypeOK, CallsInv, UndoInv, [Next]_vars PROVE UndoInv'
  OBVIOUS
<1> USE DEF UndoInv
<1> DEFINE Half(t) == timers[t].state \in {"modified", "applied"}
<1>a. timers \in [Calls -> Timer]
  BY DEF TypeOK, Timer
<1>0. CASE UNCHANGED <<profile, live, timers, mixed>>
  BY <1>0 DEF ProfileInv, RevertRestores
<1>1. ASSUME NEW c \in Clients, Modify(c) \/ Activate(c) PROVE UndoInv'
  <2>1. timers' = timers /\ mixed' = Mixed(req[c].id) /\ req[c].pc # "idle"
    BY <1>1 DEF Modify, Activate
  <2>2. req[c].id \in Calls /\ ~ Half(req[c].id)
    BY <2>1, NetAssumption DEF CallsInv, TypeOK, Calls
  <2>3. \A t \in Calls \ mixed' : timers'[t].state \notin {"modified", "applied"}
    BY <2>1, <2>2 DEF Mixed
  <2> QED BY <2>3 DEF ProfileInv, RevertRestores
<1>2. ASSUME NEW c \in Clients, Arm(c) PROVE UndoInv'
  <2>1. UNCHANGED <<profile, live, mixed>>
    BY <1>2 DEF Arm, history
  <2>2. \A t \in Calls : timers'[t].state \in {"modified", "applied"} =>
          timers'[t].state = timers[t].state /\ timers'[t].prev = timers[t].prev
    BY <1>2, ArmEffect
  <2> QED BY <2>1, <2>2 DEF ProfileInv, RevertRestores
<1>3. CASE Confirm
  <2>1. UNCHANGED <<profile, live, mixed>>
    BY <1>3 DEF Confirm
  <2>2. \A t \in Calls : timers'[t].state \in {"modified", "applied"} =>
          timers'[t].state = timers[t].state /\ timers'[t].prev = timers[t].prev
    BY <1>3, StopEffect DEF Confirm
  <2> QED BY <2>1, <2>2 DEF ProfileInv, RevertRestores
<1>4. ASSUME NEW t \in Calls, Fire(t) \/ RevertDone(t) PROVE UndoInv'
  <2>1. /\ profile' = profile /\ live' = live /\ mixed \subseteq mixed' \cup {t}
        /\ timers'[t].state \in {"fired", "done"}
    BY <1>4, SetEffect DEF Fire, RevertDone, history
  <2>2. \A u \in Calls : timers'[u].state \in {"modified", "applied"} =>
          /\ u # t /\ timers'[u].state = timers[u].state /\ timers'[u].prev = timers[u].prev
    BY <1>4, <2>1, TimerStepEffect
  <2> QED BY <2>1, <2>2 DEF ProfileInv, RevertRestores
<1>5. ASSUME NEW t \in Calls, RevertModify(t) PROVE UndoInv'
  <2>1. \A u \in Calls \ mixed' : u # t => timers'[u].state \notin {"modified", "applied"}
    BY <1>5, SetEffect DEF RevertModify, Mixed
  <2>2. timers'[t].state \in {"modified", "failed"} /\ timers'[t].prev = timers[t].prev
    BY <1>5, SetEffect DEF RevertModify
  <2>3. timers'[t].state = "modified" => profile' = ConMod(timers[t].prev)
    BY <1>5, SetEffect DEF RevertModify
  <2>4. timers[t].prev \in Config /\ profile \in Config
    BY <1>a DEF TypeOK, Timer
  <2>5. ProfileInv'
    BY <2>1, <2>2, <2>3, <2>4 DEF ProfileInv, ConMod, Config
  <2>6. RevertRestores'
    BY <2>1, <2>2 DEF RevertRestores
  <2> QED BY <2>5, <2>6
<1>6. ASSUME NEW t \in Calls, RevertActivate(t) PROVE UndoInv'
  <2>1. \A u \in Calls \ mixed' : u # t => timers'[u].state \notin {"modified", "applied"}
    BY <1>6, SetEffect DEF RevertActivate, Mixed
  <2>2. timers'[t].state \in {"applied", "failed"} /\ timers'[t].prev = timers[t].prev
    BY <1>6, SetEffect DEF RevertActivate
  <2>3. timers'[t].state = "applied" => live' = Effective(profile)
    BY <1>6, SetEffect DEF RevertActivate
  <2>4. t \notin mixed' =>
          /\ profile.method = timers[t].prev.method
          /\ timers[t].prev.method = "manual" =>
               /\ profile.addr = timers[t].prev.addr
               /\ timers[t].prev.dns # 0 => profile.dns = timers[t].prev.dns
    <3>1. mixed \subseteq mixed' /\ timers[t].state = "modified"
      BY <1>6 DEF RevertActivate, Mixed
    <3> QED BY <3>1 DEF ProfileInv
  <2>5. timers[t].prev.method \in {"manual", "auto"}
    BY <1>a DEF Timer, Config
  <2>6. RevertRestores'
    BY <2>1, <2>2, <2>3, <2>4, <2>5 DEF RevertRestores, Effective
  <2>7. ProfileInv'
    BY <2>1, <2>2 DEF ProfileInv
  <2> QED BY <2>6, <2>7
<1>7. CASE Restart
  <2>1. \A t \in Calls : timers'[t].state \notin {"modified", "applied"}
    BY <1>a, <1>7 DEF Restart, Timer
  <2> QED BY <2>1 DEF ProfileInv, RevertRestores
<1>8. ASSUME NEW c \in Clients, NEW cfg, Snapshot(c, cfg)
      PROVE  UNCHANGED <<profile, live, timers, mixed>>
  BY <1>8 DEF Snapshot, history
<1> QED
  BY <1>0, <1>1, <1>2, <1>3, <1>4, <1>5, <1>6, <1>7, <1>8
  DEF Next, ApplyNetwork, ApplyNetworkDHCP, vars, history

\* A revert whose commands succeed, and met no other command half way, restores
\* method and address, and DNS servers where the snapshot had some.
THEOREM RevertsRestore == Spec => []RevertRestores
<1>1. Init => UndoInv
  BY DEF Init, UndoInv, ProfileInv, RevertRestores
<1>2. UndoInv => RevertRestores
  BY DEF UndoInv
<1> QED BY <1>1, <1>2, UndoInductive, CallsCorrect, TypeCorrect, PTL DEF Spec

-----------------------------------------------------------------------------
(* The end of a timer.                                                     *)

\* The end of a timer's life is final: a timer that was stopped, has reverted
\* or was lost never fires, not even when requests, reverts and restarts
\* overlap, since every Apply has a timer of its own (applyAndArm).
EndIsFinal ==
  [][\A t \in Calls : timers[t].state \in {"stopped", "done", "lost"} =>
       timers'[t].state = timers[t].state]_vars

\* Every step of the service leaves the ended timers as they are.
THEOREM EndsAreFinal == Spec => EndIsFinal
<1>1. TypeOK /\ CallsInv /\ [Next]_vars =>
        [\A t \in Calls : timers[t].state \in {"stopped", "done", "lost"} =>
           timers'[t].state = timers[t].state]_vars
  <2> SUFFICES ASSUME TypeOK, CallsInv, Next, NEW t \in Calls,
                      timers[t].state \in {"stopped", "done", "lost"}
               PROVE  timers'[t].state = timers[t].state
    OBVIOUS
  <2>1. ASSUME NEW c \in Clients, NEW cfg, Snapshot(c, cfg) \/ Modify(c) \/ Activate(c)
        PROVE  timers' = timers
    BY <2>1 DEF Snapshot, Modify, Activate
  <2>2. ASSUME NEW c \in Clients, Arm(c) PROVE timers'[t].state = timers[t].state
    BY <2>2, ArmEffect
  <2>3. CASE Confirm
    BY <2>3, StopEffect DEF Confirm
  <2>4. ASSUME NEW u \in Calls,
               Fire(u) \/ RevertModify(u) \/ RevertActivate(u) \/ RevertDone(u)
        PROVE  timers'[t].state = timers[t].state
    <3>1. t # u
      BY <2>4 DEF Fire, RevertModify, RevertActivate, RevertDone
    <3> QED BY <2>4, <3>1, TimerStepEffect
  <2>5. CASE Restart
    <3>1. timers \in [Calls -> Timer]
      BY DEF TypeOK, Timer
    <3> QED BY <2>5, <3>1 DEF Restart, Timer
  <2> QED BY <2>1, <2>2, <2>3, <2>4, <2>5 DEF Next, ApplyNetwork, ApplyNetworkDHCP
<1> QED BY <1>1, CallsCorrect, TypeCorrect, PTL DEF Spec, EndIsFinal
=============================================================================

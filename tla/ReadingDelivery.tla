-------------------------- MODULE ReadingDelivery ---------------------------
(***************************************************************************)
(* What store-and-forward promises, with no queue, batches, acks, restarts *)
(* or network: a reading is accepted under a key of its own, delivered to  *)
(* the server at most once, and kept by the gateway until it is delivered  *)
(* unless it may be given up.  "At-least-once delivery + server            *)
(* idempotency", as the reader of the server's table sees it.              *)
(***************************************************************************)
CONSTANT Entry   \* the records [seq, priority, eventTimestamp] a gateway can emit

VARIABLES
  accepted,   \* entries the gateway committed
  held,       \* accepted entries the gateway still keeps
  delivered   \* entries in the server's table

vars == <<accepted, held, delivered>>

Init == accepted = {} /\ held = {} /\ delivered = {}

\* A new reading, under a key nobody used before.
Accept(e) ==
  /\ \A a \in accepted : a.seq # e.seq
  /\ accepted' = accepted \cup {e}
  /\ held' = held \cup {e}
  /\ UNCHANGED delivered

\* The server stores an accepted reading it does not have.
Deliver(e) ==
  /\ e \in accepted \ delivered
  /\ delivered' = delivered \cup {e}
  /\ UNCHANGED <<accepted, held>>

\* The gateway forgets readings: delivered ones, or ones it may give up.
Forget(E) ==
  /\ E \subseteq held
  /\ \A e \in E : e \in delivered \/ e.priority # "CRITICAL"
  /\ held' = held \ E
  /\ UNCHANGED <<accepted, delivered>>

Next == \/ \E e \in Entry : Accept(e)
        \/ \E e \in accepted : Deliver(e)
        \/ \E E \in SUBSET held : Forget(E)

Spec == Init /\ [][Next]_vars
=============================================================================

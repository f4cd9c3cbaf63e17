--------------------------- MODULE MCStoreForward ---------------------------
(* Small instances of StoreForward for TLC: what the pollers may emit.     *)
EXTENDS StoreForward

\* A critical datapoint beside one whose priority is not set.
Mixed == {[priority |-> "CRITICAL", eventTimestamp |-> 1],
          [priority |-> "", eventTimestamp |-> 1]}

\* Readings that only their sequence numbers tell apart.
OneKind == {[priority |-> "NORMAL", eventTimestamp |-> 1]}
=============================================================================

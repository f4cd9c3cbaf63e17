--------------------------- MODULE MCAcquisition ----------------------------
(* Small instances of Acquisition for TLC.                                 *)
EXTENDS Acquisition, TLC

\* Settings are only compared, so one initial revision is as good as another;
\* everything is enabled at first, edits disable.
StartedInit ==
  /\ Init
  /\ \A c \in Conns : conns[c] = [enabled |-> TRUE, rev |-> 0]
  /\ \A d \in Devices : devices[d].enabled /\ points[d] = 0

StartedSpec == StartedInit /\ [][Next]_vars

\* Ids are only compared; used by the safety run alone.
Symmetry == Permutations(Conns) \cup Permutations(Devices) \cup Permutations(Requests)
=============================================================================

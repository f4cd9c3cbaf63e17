---------------------------- MODULE MCMqttAdapter ----------------------------
(* A small instance of MqttAdapter for TLC.                                *)
EXTENDS MqttAdapter

\* The first batch is rejected: both answers occur.
FirstRejected == {1}

\* Either the connection suffers, or two batches are sent while it fails once.
TwoMixes == { [batches |-> 0, drops |-> 2, stalls |-> 1, subs |-> 3],
              [batches |-> 2, drops |-> 1, stalls |-> 0, subs |-> 0] }
=============================================================================

------------------------------ MODULE MCPoller -------------------------------
(* Small instances of Poller for TLC: 16 addresses, 6 registers to a block, *)
(* gaps of one register.                                                   *)
EXTENDS Poller

P(fc, addr, width, perm) == [fc |-> fc, addr |-> addr, width |-> width, order |-> perm]

\* One device without faults: every pair of points, and triples of short ones.
Pairs   == {<<p, q>> : p, q \in {P(3, a, w, <<>>) : a \in 0..15, w \in {1, 2, 4}}}
Triples == {<<p, q, r>> : p, q, r \in {P(3, x[1], x[2], <<>>) :
                                         x \in {<<0, 1>>, <<0, 4>>, <<2, 1>>, <<5, 4>>}}}

Ordered(dps) == \A i, j \in DOMAIN dps : i < j => dps[i].addr <= dps[j].addr

Planned == {[devices |-> <<dps>>, missing |-> {}, faults |-> {}] :
              dps \in {s \in Pairs \cup Triples : Ordered(s)}}

\* Two devices with faults: byte orders that fit and one that does not, coils
\* beside registers, a register that is missing, a device without points.
Mixed == {[devices |-> <<<<P(4, 2, 1, <<2, 1>>), P(4, 4, 2, <<3, 4, 1, 2>>), P(1, 0, 1, <<>>)>>, second>>,
           missing |-> missing, faults |-> {"TIMEOUT", "DEVICE_OFFLINE"}] :
            second \in {<<>>, <<P(3, 7, 2, <<2, 1>>), P(3, 10, 1, <<>>)>>},
            missing \in {{}, {3}}}

AllConfigs == Planned \cup Mixed

=============================================================================

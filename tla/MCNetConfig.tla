---------------------------- MODULE MCNetConfig -----------------------------
(* Small instances of NetConfig for TLC.                                   *)
EXTENDS NetConfig

Static(a, d) == [method |-> "manual", addr |-> a, dns |-> d]

\* Two static addresses, with and without DNS servers.
StaticConfigs == {Static(1, 0), Static(2, 1)}
=============================================================================

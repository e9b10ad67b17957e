------------------------------ MODULE MCPubSub ------------------------------
(* Instances of PubSub for TLC: two topics, and an over-long name that is    *)
(* stored as the telemetry topic's.                                          *)
EXTENDS PubSub, TLC

CONSTANTS telemetry, alerts, telemetry_and_more

MCNames == {telemetry, alerts, telemetry_and_more}
MCCut == [n \in MCNames |-> IF n = telemetry_and_more THEN telemetry ELSE n]

Symmetry == Permutations(Publishers) \cup Permutations(Sessions)
=============================================================================

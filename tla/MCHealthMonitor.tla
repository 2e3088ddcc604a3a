---------------------------- MODULE MCHealthMonitor ----------------------------
(* HealthMonitor for TLC: both streams may be silent for a step. *)
EXTENDS HealthMonitor

MCTimeout == [s \in Streams |-> 1]

==============================================================================

---------------------------- MODULE MCEventStore ----------------------------
(* Instances of EventStore for TLC. *)
EXTENDS EventStore, TLC

CONSTANTS a1, a2, s1, s2
=============================================================================

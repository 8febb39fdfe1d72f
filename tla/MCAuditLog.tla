----------------------------- MODULE MCAuditLog -----------------------------
(* Instances of AuditLog for TLC. *)
EXTENDS AuditLog, TLC

CONSTANTS daemon, c1
=============================================================================

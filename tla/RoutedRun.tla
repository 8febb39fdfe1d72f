----------------------------- MODULE RoutedRun -----------------------------
(***************************************************************************)
(* The durable status vocabulary of internal/routedrun and its transition  *)
(* tables (transitions.go).  The tables are data; the code consults them   *)
(* through ValidateXTransition before it writes a record, and the stores   *)
(* themselves do not consult them.                                         *)
(***************************************************************************)

RunTerminal == {"SUCCEEDED", "FAILED", "CANCELLED", "BUDGET_EXCEEDED", "EXPIRED"}

RunStatus ==
    {"PENDING", "RUNNING", "PAUSE_REQUESTED", "PAUSED", "NEEDS_REPLAN"} \cup RunTerminal

(* RunTransitions[s]: the statuses a run in status s may move to. *)
RunTransitions ==
    [s \in RunStatus |->
        CASE s = "PENDING"         -> {"RUNNING", "CANCELLED", "FAILED"}
          [] s = "RUNNING"         -> {"PAUSE_REQUESTED"} \cup RunTerminal
          [] s = "PAUSE_REQUESTED" -> {"PAUSED", "RUNNING"} \cup (RunTerminal \ {"SUCCEEDED"})
          [] s = "PAUSED"          -> {"RUNNING", "NEEDS_REPLAN", "CANCELLED", "FAILED", "EXPIRED"}
          [] s = "NEEDS_REPLAN"    -> {"RUNNING", "CANCELLED", "FAILED", "EXPIRED"}
          [] OTHER                 -> {}]

(* Workflows have the same statuses and the same table as runs. *)
WorkflowStatus == RunStatus

WorkflowTerminal == RunTerminal

WorkflowTransitions == RunTransitions

(* holdsConcurrencySlot / countSlotHoldingLocked. *)
SlotHolding == {"PENDING", "RUNNING", "PAUSE_REQUESTED"}

(* chargesActiveTime. *)
Charging == {"RUNNING", "PAUSE_REQUESTED"}

AttemptTerminal == {"SUCCEEDED", "FAILED", "FENCED", "CANCELLED"}

AttemptStatus == {"PENDING", "RUNNING", "NEEDS_REPLAN"} \cup AttemptTerminal

AttemptTransitions ==
    [s \in AttemptStatus |->
        CASE s = "PENDING"      -> {"RUNNING", "CANCELLED", "FAILED"}
          [] s = "RUNNING"      -> {"NEEDS_REPLAN"} \cup AttemptTerminal
          [] s = "NEEDS_REPLAN" -> {"RUNNING", "CANCELLED", "FAILED"}
          [] OTHER              -> {}]

NodeTerminal == {"SUCCEEDED", "FAILED", "CANCELLED", "SKIPPED"}

NodeStatus ==
    {"PENDING", "READY", "LAUNCHING", "RUNNING", "PAUSE_REQUESTED", "PAUSED", "NEEDS_REPLAN"}
        \cup NodeTerminal

NodeTransitions ==
    [s \in NodeStatus |->
        CASE s = "PENDING"         -> {"READY", "CANCELLED", "SKIPPED"}
          [] s = "READY"           -> {"LAUNCHING", "CANCELLED", "SKIPPED"}
          [] s = "LAUNCHING"       -> {"RUNNING", "FAILED", "CANCELLED"}
          [] s = "RUNNING"         -> {"PAUSE_REQUESTED", "SUCCEEDED", "FAILED", "CANCELLED"}
          [] s = "PAUSE_REQUESTED" -> {"PAUSED", "RUNNING", "CANCELLED", "FAILED"}
          [] s = "PAUSED"          -> {"RUNNING", "NEEDS_REPLAN", "CANCELLED"}
          [] s = "NEEDS_REPLAN"    -> {"RUNNING", "CANCELLED"}
          [] OTHER                 -> {}]
=============================================================================

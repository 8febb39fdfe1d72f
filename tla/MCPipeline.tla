----------------------------- MODULE MCPipeline -----------------------------
(* Instances of Pipeline for TLC: one workflow, two reconcilers, a worker   *)
(* and a canceller at most.                                                 *)
EXTENDS Pipeline, TLC

CONSTANTS r1, r2, w1, c1

MCOneReconciler == {r1}
MCReconcilers == {r1, r2}
MCWorkers == {w1}
MCCancellers == {c1}

MCPauses == {"pause", "resume", "exit", "fence"}
MCFaults == {"crash", "write_error", "launch_error", "failure", "rejected_handoff", "exit"}

Symmetry == Permutations(MCReconcilers)

=============================================================================

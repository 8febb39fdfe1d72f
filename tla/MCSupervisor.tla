---------------------------- MODULE MCSupervisor ----------------------------
(* The instances of Supervisor for TLC: one run that one request or two     *)
(* with one key start, an attempt for each, and one or two callers of       *)
(* HandleResult, Cancel and Finalize.  The daemon may crash any number of   *)
(* times.                                                                   *)
EXTENDS Supervisor, TLC

CONSTANTS a1, a2, l1, l2, h1, h2

MCAttempts == {a1, a2}
MCLaunchers == {l1, l2}
MCHandlers == {h1}
MCTwoHandlers == {h1, h2}

Symmetry == Permutations(MCAttempts) \cup Permutations(MCLaunchers)

=============================================================================

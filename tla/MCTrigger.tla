----------------------------- MODULE MCTrigger -----------------------------
(* Instances of Trigger for TLC. *)
EXTENDS Trigger, TLC

CONSTANTS c1, c2, x1, x2, k1, h1, h2, s1, s2, agent

MCAgentOf == [s \in Schedules |-> agent]

MCSymmetry == Permutations(Clients) \cup Permutations(Cancellers) \cup Permutations(Hashes)
=============================================================================

------------------------- MODULE MCServiceRegistry -------------------------
(* Instances of ServiceRegistry for TLC. *)
EXTENDS ServiceRegistry, TLC

CONSTANTS s1, s2, p1, p2, k1, k2, b1

TwoServices == <<s1, s2>>

MCSymmetry == Permutations(Procs) \cup Permutations(Calls)
=============================================================================

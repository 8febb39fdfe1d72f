---------------------------- MODULE MCAdmission ----------------------------
(* Instances of Admission for TLC. *)
EXTENDS Admission, TLC

CONSTANTS d1, d2, a1, k1, k2, w1, w2, w3, c1, c2, u1, u2, i1

MCOneSlot == [d \in Deployments |-> 1]

(* Workflow ids, keys, clients and updaters are interchangeable. *)
MCSymmetry == Permutations(Workflows) \cup Permutations(Keys) \cup Permutations(Clients)
                \cup Permutations(Updaters)
=============================================================================

------------------------------ MODULE MCInbox ------------------------------
(* Instances of Inbox for TLC: the workers of one task. *)
EXTENDS Inbox, TLC

CONSTANTS t1, s1, s2, w1

MCSymmetry == Permutations(Senders)

MCTaskOf == [w \in Workers |-> t1]
=============================================================================

---------------------------- MODULE MCProvisioning ----------------------------
(* Small instances of Provisioning for TLC. *)
EXTENDS Provisioning, TLC

CONSTANTS c1, c2, c3, c4, d1, d2, i1, kp, kb

\* An enrolled agent holds c1.
AgentOnly == c1 :> [subject |-> i1, enabled |-> TRUE]
\* A fresh installation.
NoRecords == EmptyDict

\* One length: both keys hash to the same device id.
Collide == [l \in Lengths |-> [k \in Keys |-> d1]]
\* The short length collides, the long one does not.
Truncated == [l \in Lengths |-> [k \in Keys |-> IF l = 2 /\ k = kb THEN d2 ELSE d1]]

Sym == Permutations(OpIds) \cup Permutations(RequestIds) \cup Permutations(Credentials \ DOMAIN InitialRecords)
=============================================================================

------------------------------ MODULE AtomicStore ------------------------------
(***************************************************************************)
(* What authz.json promises the handlers that share it: updates apply one  *)
(* at a time to the current value, and an update that was reported as      *)
(* saved is never lost, not even when the machine goes down.               *)
(***************************************************************************)
CONSTANT Updates

VARIABLES value,      \* updates visible in the file
          promised    \* updates whose writer was told they are saved

Init == value = {} /\ promised = {}

\* One update on top of everything that is visible.
Apply == \E u \in Updates : value' = value \cup {u} /\ UNCHANGED promised

Promise == \E U \in SUBSET value : promised' = promised \cup U /\ UNCHANGED value

\* A power loss may take back visible updates, never promised ones.
Forget == \E V \in SUBSET value : promised \subseteq V /\ value' = V /\ UNCHANGED promised

Next == Apply \/ Promise \/ Forget

Spec == Init /\ [][Next]_<<value, promised>>
=============================================================================

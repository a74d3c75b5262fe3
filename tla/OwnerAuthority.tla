---------------------------- MODULE OwnerAuthority ----------------------------
(***************************************************************************)
(* What the rest of the server relies on about the owner: a generation     *)
(* names one grant of authority.  A grant is made inactive or active and,  *)
(* once active, lasts exactly as long as its generation.                   *)
(***************************************************************************)
EXTENDS Naturals

VARIABLES active, generation

Init == ~active /\ generation = 0

Replace == generation' = generation + 1 /\ active' \in BOOLEAN

Acknowledge == ~active /\ active' /\ generation' = generation

Next == Replace \/ Acknowledge

Spec == Init /\ [][Next]_<<active, generation>>
=============================================================================

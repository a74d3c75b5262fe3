-------------------------------- MODULE MCOwner --------------------------------
(* Two server processes, two origins and one environment token, for TLC. *)
EXTENDS OwnerAuth, TLC

Sym == Permutations(Workers) \cup Permutations(Origins) \cup Permutations(Cookies)
=============================================================================

--------------------------------- MODULE MCVoice ---------------------------------
(* One device, for TLC. *)
EXTENDS VoiceTurns, TLC

CONSTANTS s1, s2, t1, t2, a1, c1, c2

\* Sockets, turns and connections of the one agent are interchangeable.
Symmetry == Permutations(Sockets) \cup Permutations(Turns) \cup Permutations(Conns)

OneAgent == [c \in Conns |-> a1]

=============================================================================

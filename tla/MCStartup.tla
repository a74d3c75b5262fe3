------------------------------- MODULE MCStartup -------------------------------
(* One cold wake with a budget of a few pieces, for TLC. *)
EXTENDS StartupAudio
=============================================================================

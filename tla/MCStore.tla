------------------------------- MODULE MCStore -------------------------------
(* Server and console sharing authz.json, for TLC. *)
EXTENDS CredentialStore
=============================================================================

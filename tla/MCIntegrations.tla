--------------------------- MODULE MCIntegrations ---------------------------
EXTENDS Integrations, TLC

Symmetric == Permutations(Ids) \cup Permutations(Origins)
=============================================================================

-------------------------- MODULE MCRealtimeTurns --------------------------
EXTENDS RealtimeTurns
=============================================================================

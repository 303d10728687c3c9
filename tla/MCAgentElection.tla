--------------------------- MODULE MCAgentElection ---------------------------
EXTENDS AgentElection, TLC
=============================================================================

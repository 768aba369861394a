------------------------------ MODULE MCAgentCanvas ------------------------------
EXTENDS AgentCanvas
=============================================================================

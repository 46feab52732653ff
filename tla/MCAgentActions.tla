--------------------------- MODULE MCAgentActions ---------------------------
(* AgentActions on small instances.                                          *)
EXTENDS AgentActions

=============================================================================

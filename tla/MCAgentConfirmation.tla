------------------------- MODULE MCAgentConfirmation -------------------------
(* AgentConfirmation for TLC: an action recorded in Nexus and one of a provider. *)
EXTENDS AgentConfirmation
==============================================================================

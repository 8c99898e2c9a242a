---------------------------- MODULE MCAgentCore ----------------------------
(* Four plugins, the second one without AfterInit(). *)
EXTENDS AgentCore

MCPostInit == {1, 3, 4}
=============================================================================

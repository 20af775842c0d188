---------------------------- MODULE MCAgentPool ----------------------------
(* AgentPool with fewer agents than sessions, and with enough. *)
EXTENDS AgentPool

CONSTANTS r1, r2, r3
=============================================================================

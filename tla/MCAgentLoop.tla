----------------------------- MODULE MCAgentLoop -----------------------------
(***************************************************************************)
(* The agent's loops on short runs: four turns, a history of four          *)
(* messages, two API keys.                                               *)
(***************************************************************************)
EXTENDS AgentLoop
=============================================================================

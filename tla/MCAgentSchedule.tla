-------------------------- MODULE MCAgentSchedule --------------------------
(* Small instances of AgentSchedule. *)
EXTENDS AgentSchedule, TLC
============================================================================

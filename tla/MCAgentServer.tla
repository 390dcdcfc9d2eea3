--------------------------- MODULE MCAgentServer ---------------------------
(* Small instances of AgentServer for TLC. *)
EXTENDS AgentServer, TLC

AgentSymmetry == Permutations(Requests) \cup Permutations(Handlers)
=============================================================================

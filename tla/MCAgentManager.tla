---------------------------- MODULE MCAgentManager ----------------------------
(* Instances of AgentManager: who works for which session. *)
EXTENDS AgentManager

OwnSessions == [k \in Users |-> k]
OneSession == [k \in Users |-> Root]
=============================================================================

--------------------------- MODULE MCAgentRuntime --------------------------
(* Instances of AgentRuntime for TLC. *)
EXTENDS AgentRuntime

CONSTANTS a1, w1, w2

\* A plan of two tasks; the first has a side effect.
TwoTasks == [a \in Agents |-> 2]
FirstTask == {<<a1, 0>>}
OnePool == [w \in Workers |-> 1]
OwnIds == [w \in Workers |-> w]
Normal == {[retries |-> TRUE, escalation |-> TRUE, force |-> NoTier]}
=============================================================================

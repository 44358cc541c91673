---------------------------- MODULE Submission -----------------------------
(***************************************************************************)
(* How agents enter the system: POST /agents (src/api/main.py) and the    *)
(* seeding of the chaos harness (src/chaos/harness.py).  Both insert the  *)
(* agents and all their task rows in one transaction.                      *)
(***************************************************************************)
EXTENDS TaskTable

InsertAgents(B, k) ==
  /\ agentStatus' = [a \in Agents |-> IF a \in B THEN "running" ELSE agentStatus[a]]
  /\ row' = [t \in Tasks |->
               IF AgentOf(t) \in B /\ SeqOf(t) < PlanLen[AgentOf(t)]
               THEN NewRow(k) ELSE row[t]]
  /\ UNCHANGED <<cursor, gen, attempts, dlq, hold, faults>>

\* force_tier() or base_tier()
StartTier(f) == IF f.force = NoTier THEN BaseTier ELSE f.force

\* One request: body.count agents of one plan.  The advisory lock makes the count
\* of running agents and the insert one step.
Submit(B, f) ==
  /\ B # {}
  /\ \A a \in B : agentStatus[a] = "absent" /\ PlanLen[a] > 0
  /\ \A a, b \in B : PlanLen[a] = PlanLen[b]
  /\ Cardinality(Active) + Cardinality(B) <= MaxActive
  /\ InsertAgents(B, StartTier(f))

\* harness.seed: no admission check, the column default for the tier, and
\* resolve_plan lets an empty inline plan through.
Seed(B) ==
  /\ B # {}
  /\ \A a \in B : agentStatus[a] = "absent"
  /\ \A a, b \in B : PlanLen[a] = PlanLen[b]
  /\ InsertAgents(B, BaseTier)
=============================================================================

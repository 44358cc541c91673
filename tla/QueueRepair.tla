---------------------------- MODULE QueueRepair ----------------------------
(***************************************************************************)
(* The two queue sweeps of src/orchestrator/queue.py, and the fault the    *)
(* first one repairs: a task row that is gone.                             *)
(***************************************************************************)
EXTENDS TaskTable

\* A row deleted behind the runtime's back, as the repair tests do.  The delete
\* cascades to its attempts, and a later row of the same (agent_id, seq) has
\* another id.
LoseRow(t) ==
  /\ faults < MaxFaults
  /\ row[t].status # "absent"
  /\ row' = [row EXCEPT ![t] = NoRow]
  /\ gen' = [gen EXCEPT ![t] = @ + 1]
  /\ attempts' = [attempts EXCEPT ![t] = NoEvidence]
  /\ faults' = faults + 1
  /\ UNCHANGED <<agentStatus, cursor, dlq, hold>>

\* A running agent with no task at its cursor: nothing can ever claim it.
Stalled_NotLast(a) ==  \* mutant: the last task of the plan is never repaired
  /\ agentStatus[a] = "running"
  /\ cursor[a] + 1 < PlanLen[a]
  /\ row[<<a, cursor[a]>>].status = "absent"
Stalled(a) ==
  /\ agentStatus[a] = "running"
  /\ cursor[a] < PlanLen[a]
  /\ row[<<a, cursor[a]>>].status = "absent"

Repair(B) ==
  /\ B # {} /\ Cardinality(B) <= Batch
  /\ \A a \in B : Stalled(a)
  /\ row' = [t \in Tasks |->
               IF AgentOf(t) \in B /\ AtCursor(t) THEN NewRow(BaseTier) ELSE row[t]]
  /\ UNCHANGED <<agentStatus, cursor, gen, attempts, dlq, hold, faults>>

Exhausted(a) ==
  /\ agentStatus[a] = "running"
  /\ cursor[a] >= PlanLen[a]
  /\ \A t \in Tasks : AgentOf(t) = a => row[t].status \in {"absent", "succeeded"}

Finalise(B) ==
  /\ B # {} /\ Cardinality(B) <= Batch
  /\ \A a \in B : Exhausted(a)
  /\ agentStatus' = [a \in Agents |-> IF a \in B THEN "completed" ELSE agentStatus[a]]
  /\ UNCHANGED <<cursor, row, gen, attempts, dlq, hold, faults>>
=============================================================================

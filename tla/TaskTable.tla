----------------------------- MODULE TaskTable -----------------------------
(***************************************************************************)
(* The shared state of the runtime: the tables agents, task_instances,    *)
(* attempts and dlq of src/db/schema.sql, and what each worker process    *)
(* holds in memory.  No process of the system talks to another; they all  *)
(* meet in these tables, so every component module EXTENDS this one and    *)
(* adds the transactions that component runs.                              *)
(*                                                                         *)
(* One action is one database transaction (or one step of a process       *)
(* between two transactions).  Clock columns are kept by the comparison   *)
(* the queries make with now(): `expired` is lease_expires < now() and     *)
(* `due` is next_run_at <= now().                                          *)
(***************************************************************************)
EXTENDS Integers, FiniteSets

CONSTANTS
  Agents,     \* agents that may ever be submitted
  MaxPlan,    \* longest plan
  PlanLen,    \* PlanLen[a]: array_length(plan, 1) of agent a, 0 for an empty plan
  Workers,    \* worker processes
  WorkerId,   \* WorkerId[w]: the WORKER_ID process w writes as lease_owner
  PoolTier,   \* PoolTier[w]: rank of the tier process w drains
  NTiers,     \* number of rows in the table tiers; a tier is its rank
  MaxPerTier, \* task_instances.max_attempts_per_tier
  MaxInfra,   \* MAX_INFRA_ATTEMPTS
  MaxTotal,   \* MAX_TOTAL_ATTEMPTS
  MaxActive,  \* MAX_ACTIVE_AGENTS
  Flags,      \* values of the runtime flags a process may read at a step
  Batch,      \* REAPER_BATCH, ORCHESTRATOR_BATCH and the limit of classify()
  MaxFaults,  \* bound on injected faults: abandoned tasks, stalled heartbeats, lost rows
  NoOwner,    \* lease_owner IS NULL
  Idle        \* what a worker without a task holds

Seqs == 0 .. MaxPlan - 1
Tasks == Agents \X Seqs
Tiers == 1 .. NTiers
NoTier == 0
BaseTier == 1
NextTier(k) == IF k < NTiers THEN k + 1 ELSE NoTier
Ids == {WorkerId[w] : w \in Workers}

FailureClasses == {"INFRA", "CAPABILITY", "POISON"}
Outcomes == {"succeeded", "reclaimed"} \cup FailureClasses

AgentStatuses == {"absent", "running", "completed", "failed"}
TaskStatuses == {"absent", "pending", "running", "succeeded", "failed", "dead"}

Row == [status  : TaskStatuses,
        tier    : Tiers,
        attempt : Nat,
        owner   : Ids \cup {NoOwner},
        due     : BOOLEAN,
        expired : BOOLEAN,
        class   : FailureClasses \cup {"none"}]

\* What process_one keeps of the row claim_one returned.  `gen` stands for the
\* row's UUID, `lost` is Heartbeat.lost, and `phase` is "commit" once
\* process_one has read hb.lost and is about to checkpoint.
Claim == [task    : Tasks,
          gen     : Nat,
          tier    : Tiers,
          attempt : Nat,
          lost    : BOOLEAN,
          phase   : {"run", "commit"}]

ASSUME PlanAssumption ==
  /\ MaxPlan \in Nat \ {0}
  /\ PlanLen \in [Agents -> 0 .. MaxPlan]
ASSUME WorkerAssumption ==
  /\ NoOwner \notin Ids
  /\ Idle \notin Claim
  /\ PoolTier \in [Workers -> Tiers]
ASSUME LimitAssumption ==
  /\ NTiers \in Nat \ {0}
  /\ MaxPerTier \in Nat \ {0}
  /\ MaxInfra \in Nat \ {0}
  /\ MaxTotal \in Nat \ {0}
  /\ MaxActive \in Nat \ {0}
  /\ Batch \in Nat \ {0}
  /\ MaxFaults \in Nat
ASSUME FlagsAssumption ==
  Flags \subseteq [retries : BOOLEAN, escalation : BOOLEAN, force : {NoTier} \cup Tiers]

VARIABLES
  agentStatus, \* agents.status, "absent" before the agent is submitted
  cursor,      \* agents.cursor
  row,         \* task_instances by (agent_id, seq), status "absent" for no row
  gen,         \* how many rows (agent_id, seq) had before: a new row has a new UUID
  attempts,    \* attempts[t][k][o]: rows of t's current row at tier k with outcome o
  dlq,         \* dlq[t]: dead letters written for t
  hold,        \* hold[w]: what worker w works on, or Idle
  faults       \* faults injected so far

vars == <<agentStatus, cursor, row, gen, attempts, dlq, hold, faults>>

NoEvidence == [k \in Tiers |-> [o \in Outcomes |-> 0]]

NoRow == [status |-> "absent", tier |-> BaseTier, attempt |-> 0, owner |-> NoOwner,
          due |-> TRUE, expired |-> FALSE, class |-> "none"]

\* An INSERT INTO task_instances that gives the tier and leaves the defaults.
NewRow(k) == [NoRow EXCEPT !.status = "pending", !.tier = k]

Init ==
  /\ agentStatus = [a \in Agents |-> "absent"]
  /\ cursor = [a \in Agents |-> 0]
  /\ row = [t \in Tasks |-> NoRow]
  /\ gen = [t \in Tasks |-> 0]
  /\ attempts = [t \in Tasks |-> NoEvidence]
  /\ dlq = [t \in Tasks |-> 0]
  /\ hold = [w \in Workers |-> Idle]
  /\ faults = 0

AgentOf(t) == t[1]
SeqOf(t) == t[2]
AtCursor(t) == SeqOf(t) = cursor[AgentOf(t)]
Active == {a \in Agents : agentStatus[a] = "running"}

\* Every attempt recorded at tier k, whatever became of it.
Recorded(t, k) ==
  LET n == attempts[t][k]
  IN n["succeeded"] + n["reclaimed"] + n["INFRA"] + n["CAPABILITY"] + n["POISON"]

Record(t, k, o) == attempts' = [attempts EXCEPT ![t][k][o] = @ + 1]

Fenced_AnyOwner(w) ==  \* mutant: lease_owner is not compared
  gen[hold[w].task] = hold[w].gen /\ row[hold[w].task].status = "running"
\* The fence of MARK_SUCCEEDED, REPORT_FAILURE and RENEW: the row still exists,
\* is running, and carries this worker's id.
Fenced(w) ==
  LET t == hold[w].task
  IN /\ gen[t] = hold[w].gen
     /\ row[t].status = "running"
     /\ row[t].owner = WorkerId[w]

TypeOK ==
  /\ agentStatus \in [Agents -> AgentStatuses]
  /\ cursor \in [Agents -> Nat]
  /\ row \in [Tasks -> Row]
  /\ gen \in [Tasks -> Nat]
  /\ attempts \in [Tasks -> [Tiers -> [Outcomes -> Nat]]]
  /\ dlq \in [Tasks -> Nat]
  /\ hold \in [Workers -> Claim \cup {Idle}]
  /\ faults \in 0 .. MaxFaults
=============================================================================

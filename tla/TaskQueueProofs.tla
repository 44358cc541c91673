-------------------------- MODULE TaskQueueProofs --------------------------
(***************************************************************************)
(* Theorems about TaskQueue for every number of agents, workers and tiers, *)
(* every plan, every budget and every bound on the faults.                 *)
(***************************************************************************)
EXTENDS TaskQueue, TLAPS

\* A row built by an INSERT is a row.
LEMMA NewRowType ==
  ASSUME NEW k \in Tiers
  PROVE NoRow \in Row /\ NewRow(k) \in Row
<1>1. BaseTier \in Tiers
  BY LimitAssumption DEF BaseTier, Tiers
<1>2. NoRow \in Row
  BY <1>1 DEF NoRow, Row, TaskStatuses
<1> QED
  BY <1>2 DEF NewRow, Row, TaskStatuses

\* Every update the workers and sweeps make turns a row into a row.
LEMMA RowUpdateType ==
  ASSUME NEW r \in Row
  PROVE /\ \A id \in Ids : Leased(r, id) \in Row
        /\ Succeeded(r) \in Row
        /\ \A fc \in FailureClasses : Failed(r, fc) \in Row
        /\ Killed(r) \in Row
        /\ Retried(r) \in Row
        /\ NextTier(r.tier) # NoTier => Promoted(r) \in Row
<1>1. ASSUME NEW id \in Ids PROVE Leased(r, id) \in Row
  <2>1. r.attempt + 1 \in Nat
    BY DEF Row
  <2> QED
    BY <2>1 DEF Leased, Row, TaskStatuses
<1>2. Succeeded(r) \in Row
  BY DEF Succeeded, Row, TaskStatuses
<1>3. ASSUME NEW fc \in FailureClasses PROVE Failed(r, fc) \in Row
  BY DEF Failed, Row, TaskStatuses
<1>4. Killed(r) \in Row
  BY DEF Killed, Row, TaskStatuses
<1>5. Retried(r) \in Row
  BY DEF Retried, Row, TaskStatuses
<1>6. ASSUME NextTier(r.tier) # NoTier PROVE Promoted(r) \in Row
  <2>1. NextTier(r.tier) \in Tiers
    BY <1>6, LimitAssumption DEF NextTier, Row, Tiers
  <2> QED
    BY <2>1 DEF Promoted, Row, TaskStatuses
<1> QED
  BY <1>1, <1>2, <1>3, <1>4, <1>5, <1>6

LEMMA NoEvidenceType == NoEvidence \in [Tiers -> [Outcomes -> Nat]]
BY DEF NoEvidence

\* Recording one attempt keeps the table of attempts well-typed.
LEMMA RecordType ==
  ASSUME TypeOK, NEW t \in Tasks, NEW k \in Tiers, NEW o \in Outcomes, Record(t, k, o)
  PROVE attempts' \in [Tasks -> [Tiers -> [Outcomes -> Nat]]]
BY DEF TypeOK, Record

LEMMA TypeInit == Init => TypeOK
BY LimitAssumption, NewRowType, NoEvidenceType DEF Init, TypeOK, AgentStatuses, Tiers, BaseTier

LEMMA TypeSubmission ==
  ASSUME TypeOK, AnySubmission
  PROVE TypeOK'
<1>1. \A k \in Tiers : NewRow(k) \in Row
  BY NewRowType
<1>2. \A f \in Flags : StartTier(f) \in Tiers
  BY FlagsAssumption, LimitAssumption DEF StartTier, Tiers, BaseTier, NoTier
<1>3. BaseTier \in Tiers
  BY LimitAssumption DEF BaseTier, Tiers
<1>4. ASSUME NEW B \in SUBSET Agents, NEW k \in Tiers, InsertAgents(B, k)
      PROVE TypeOK'
  BY <1>1, <1>4 DEF InsertAgents, TypeOK, AgentStatuses
<1> QED
  BY <1>2, <1>3, <1>4 DEF AnySubmission, Submit, Seed

LEMMA TypeWorker ==
  ASSUME TypeOK, NEW w \in Workers, Worker(w)
  PROVE TypeOK'
<1>1. ASSUME NEW t \in Tasks, ClaimOne(w, t) PROVE TypeOK'
  <2>1. row[t] \in Row /\ row[t].attempt + 1 \in Nat
    BY DEF TypeOK, Row
  <2>2. row' \in [Tasks -> Row]
    <3>1. WorkerId[w] \in Ids
      BY DEF Ids
    <3> QED
      BY <1>1, <2>1, <3>1, RowUpdateType DEF TypeOK, ClaimOne
  <2>3. hold' \in [Workers -> Claim \cup {Idle}]
    BY <1>1, <2>1 DEF TypeOK, Row, ClaimOne, Claim
  <2> QED
    BY <1>1, <2>2, <2>3 DEF ClaimOne, TypeOK
<1>2. CASE Renew(w)
  <2>1. hold[w].task \in Tasks
    BY <1>2 DEF Renew, TypeOK, Claim
  <2>2. row[hold[w].task] \in Row
    BY <2>1 DEF TypeOK
  <2>3. row' \in [Tasks -> Row]
    BY <1>2, <2>1, <2>2 DEF Renew, TypeOK, Row
  <2> QED
    BY <1>2, <2>3 DEF Renew, TypeOK
<1>3. CASE NoticeLoss(w)
  BY <1>3, WorkerAssumption DEF NoticeLoss, TypeOK, Claim
<1>4. CASE PassLossCheck(w)
  BY <1>4, WorkerAssumption DEF PassLossCheck, TypeOK, Claim
<1>5. CASE DiscardLost(w) \/ CheckpointRefused(w) \/ ReportRefused(w)
  BY <1>5 DEF DiscardLost, CheckpointRefused, ReportRefused, Drop, TypeOK
<1>6. CASE CheckpointSuccess(w)
  <2> DEFINE t == hold[w].task
  <2>1. t \in Tasks /\ hold[w].tier \in Tiers /\ AgentOf(t) \in Agents
    BY <1>6 DEF CheckpointSuccess, TypeOK, Claim, Tasks, AgentOf
  <2>2. attempts' \in [Tasks -> [Tiers -> [Outcomes -> Nat]]]
    BY <1>6, <2>1, RecordType DEF CheckpointSuccess, Outcomes
  <2>3. row' \in [Tasks -> Row]
    BY <1>6, <2>1, RowUpdateType DEF CheckpointSuccess, TypeOK
  <2>4. cursor' \in [Agents -> Nat] /\ agentStatus' \in [Agents -> AgentStatuses]
    BY <1>6, <2>1 DEF CheckpointSuccess, TypeOK, NextStatus, AgentStatuses
  <2> QED
    BY <1>6, <2>2, <2>3, <2>4 DEF CheckpointSuccess, Drop, TypeOK
<1>7. ASSUME NEW fc \in FailureClasses, ReportFailure(w, fc) PROVE TypeOK'
  <2> DEFINE t == hold[w].task
  <2>1. t \in Tasks /\ hold[w].tier \in Tiers
    BY <1>7 DEF ReportFailure, TypeOK, Claim
  <2>2. attempts' \in [Tasks -> [Tiers -> [Outcomes -> Nat]]]
    BY <1>7, <2>1, RecordType DEF ReportFailure, Outcomes
  <2>3. row' \in [Tasks -> Row]
    BY <1>7, <2>1, RowUpdateType DEF ReportFailure, TypeOK
  <2> QED
    BY <1>7, <2>2, <2>3 DEF ReportFailure, Drop, TypeOK
<1>8. CASE Abandon(w)
  BY <1>8, LimitAssumption DEF Abandon, Drop, TypeOK
<1> QED
  BY <1>1, <1>2, <1>3, <1>4, <1>5, <1>6, <1>7, <1>8 DEF Worker, WorkerStep

LEMMA TypeOrchestrator ==
  ASSUME TypeOK, Orchestrator
  PROVE TypeOK'
<1>1. ASSUME NEW B \in SUBSET Tasks, Reap(B) PROVE TypeOK'
  <2>1. ASSUME NEW t \in Tasks PROVE row[t] \in Row /\ Reclaimed(t) \in Row
    <3>1. row[t] \in Row
      BY DEF TypeOK
    <3> QED
      BY <3>1 DEF Row, Reclaimed, TaskStatuses, FailureClasses
  <2>2. row' \in [Tasks -> Row]
    BY <1>1, <2>1 DEF Reap, TypeOK
  <2>3. attempts' \in [Tasks -> [Tiers -> [Outcomes -> Nat]]]
    <3>1. ASSUME NEW t \in B
          PROVE [attempts[t] EXCEPT ![row[t].tier]["reclaimed"] = @ + 1]
                  \in [Tiers -> [Outcomes -> Nat]]
      <4>1. row[t].tier \in Tiers
        BY <2>1 DEF Row
      <4>2. attempts[t] \in [Tiers -> [Outcomes -> Nat]] /\ "reclaimed" \in Outcomes
        BY DEF TypeOK, Outcomes
      <4> QED
        BY <4>1, <4>2
    <3> QED
      BY <1>1, <3>1 DEF Reap, TypeOK
  <2> QED
    BY <1>1, <2>2, <2>3 DEF Reap, TypeOK
<1>2. ASSUME NEW B \in SUBSET Agents, Repair(B) PROVE TypeOK'
  <2>1. NewRow(BaseTier) \in Row
    BY NewRowType, LimitAssumption DEF BaseTier, Tiers
  <2> QED
    BY <1>2, <2>1 DEF Repair, TypeOK
<1>3. ASSUME NEW B \in SUBSET Agents, Finalise(B) PROVE TypeOK'
  BY <1>3 DEF Finalise, TypeOK, AgentStatuses
<1>4. ASSUME NEW B \in SUBSET Tasks, NEW f \in [B -> Flags], Classify(B, f) PROVE TypeOK'
  <2>1. \A t \in Tasks : row[t] \in Row /\ Killed(row[t]) \in Row /\ Retried(row[t]) \in Row
    BY RowUpdateType DEF TypeOK
  <2>2. ASSUME NEW t \in Tasks, NextTier(row[t].tier) # NoTier PROVE Promoted(row[t]) \in Row
    BY <2>1, <2>2, RowUpdateType
  <2>3. \A t \in B : Routed(t, f[t]) \in Row
    BY <2>1, <2>2 DEF Routed, Doomed, NowhereToGo
  <2>4. row' \in [Tasks -> Row]
    BY <1>4, <2>1, <2>3 DEF Classify
  <2>5. agentStatus' \in [Agents -> AgentStatuses] /\ dlq' \in [Tasks -> Nat]
    BY <1>4 DEF Classify, TypeOK, AgentStatuses
  <2> QED
    BY <1>4, <2>4, <2>5 DEF Classify, TypeOK
<1> QED
  BY <1>1, <1>2, <1>3, <1>4 DEF Orchestrator

LEMMA TypeEnvironment ==
  ASSUME TypeOK, Environment
  PROVE TypeOK'
<1>1. ASSUME NEW t \in Tasks, LeaseRunsOut(t) \/ HeartbeatStalls(t) \/ BackoffElapses(t)
      PROVE TypeOK'
  <2>1. row[t] \in Row
    BY DEF TypeOK
  <2>2. row' \in [Tasks -> Row]
    <3>1. [row[t] EXCEPT !.expired = TRUE] \in Row /\ [row[t] EXCEPT !.due = TRUE] \in Row
      BY <2>1 DEF Row
    <3> QED
      BY <1>1, <3>1 DEF LeaseRunsOut, HeartbeatStalls, BackoffElapses, Expire, TypeOK
  <2>3. faults' \in 0 .. MaxFaults
    BY <1>1, LimitAssumption DEF LeaseRunsOut, HeartbeatStalls, BackoffElapses, TypeOK
  <2> QED
    BY <1>1, <2>2, <2>3
    DEF LeaseRunsOut, HeartbeatStalls, BackoffElapses, Expire, TypeOK
<1>2. ASSUME NEW t \in Tasks, LoseRow(t) PROVE TypeOK'
  <2>1. NoRow \in Row
    BY NewRowType, LimitAssumption DEF Tiers
  <2> QED
    BY <1>2, <2>1, NoEvidenceType, LimitAssumption DEF LoseRow, TypeOK
<1> QED
  BY <1>1, <1>2 DEF Environment

LEMMA TypeStep ==
  ASSUME TypeOK, [Next]_vars
  PROVE TypeOK'
<1>1. CASE UNCHANGED vars
  BY <1>1 DEF vars, TypeOK
<1> QED
  BY <1>1, TypeSubmission, TypeWorker, TypeOrchestrator, TypeEnvironment DEF Next

\* The tables never leave their types: in particular a promotion never leads
\* above the top of the ladder.
THEOREM TypeCorrect == Spec => []TypeOK
BY TypeInit, TypeStep, PTL DEF Spec
=============================================================================

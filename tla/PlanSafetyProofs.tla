------------------------- MODULE PlanSafetyProofs --------------------------
(***************************************************************************)
(* The safety of plans: the cursor is the committed prefix, work happens   *)
(* only at the cursor of a running agent, failure closes an agent and      *)
(* completion means the whole plan.  None of it needs worker ids to be     *)
(* distinct: it rests on the cursor fence and on the row being running.    *)
(***************************************************************************)
EXTENDS TaskQueueProofs

\* A row exists only within the plan of an agent that was submitted.
RowsInPlan ==
  \A t \in Tasks : Present(t) =>
    SeqOf(t) < PlanLen[AgentOf(t)] /\ agentStatus[AgentOf(t)] # "absent"

\* A task is dead only when its agent is given up.
DeadIsFailed ==
  \A t \in Tasks : row[t].status = "dead" => agentStatus[AgentOf(t)] = "failed"

CursorInPlan ==
  \A a \in Agents : cursor[a] <= PlanLen[a] /\ (agentStatus[a] = "absent" => cursor[a] = 0)

PlanInv ==
  /\ TypeOK
  /\ CommittedPrefix
  /\ WorkAtCursor
  /\ FailureClosesAgent
  /\ CompletedIsComplete
  /\ RowsInPlan
  /\ DeadIsFailed
  /\ CursorInPlan

Live == {"pending", "running", "failed"}

\* What most steps may do to a task: leave its status, lose its row, or move it
\* between the live statuses at the cursor of a running agent.
QuietChange(t) ==
  \/ row'[t].status = row[t].status
  \/ row'[t].status = "absent"
  \/ /\ row[t].status \in Live /\ row'[t].status \in Live
     /\ AtCursor(t) /\ agentStatus[AgentOf(t)] = "running"

LEMMA TaskIdentity ==
  ASSUME NEW t \in Tasks
  PROVE /\ AgentOf(t) \in Agents /\ SeqOf(t) \in Nat
        /\ \A u \in Tasks : AgentOf(u) = AgentOf(t) /\ SeqOf(u) = SeqOf(t) => u = t
BY PlanAssumption DEF Tasks, Seqs, AgentOf, SeqOf

\* A step that touches neither agents nor dead letters, and tasks only quietly,
\* keeps the invariant.
LEMMA QuietStep ==
  ASSUME PlanInv, TypeOK', UNCHANGED <<agentStatus, cursor, dlq>>,
         \A t \in Tasks : QuietChange(t)
  PROVE PlanInv'
<1>1. \A t \in Tasks : AgentOf(t) \in Agents /\ SeqOf(t) \in Nat
  BY TaskIdentity
<1>2. CommittedPrefix'
  BY <1>1 DEF PlanInv, CommittedPrefix, Present, QuietChange, Live, AtCursor, TypeOK
<1>3. WorkAtCursor'
  BY <1>1 DEF PlanInv, WorkAtCursor, QuietChange, Live, AtCursor
<1>4. FailureClosesAgent'
  BY <1>1 DEF PlanInv, FailureClosesAgent, QuietChange, Live, AtCursor
<1>5. CompletedIsComplete'
  BY <1>1 DEF PlanInv, CompletedIsComplete, QuietChange, Live, AtCursor
<1>6. (RowsInPlan /\ DeadIsFailed /\ CursorInPlan)'
  BY <1>1 DEF PlanInv, RowsInPlan, DeadIsFailed, CursorInPlan, Present, QuietChange, Live
<1> QED
  BY <1>2, <1>3, <1>4, <1>5, <1>6 DEF PlanInv

LEMMA PlanInit == Init => PlanInv
<1> SUFFICES ASSUME Init PROVE PlanInv
  OBVIOUS
<1>1. TypeOK
  BY TypeInit
<1>2. \A t \in Tasks : row[t].status = "absent" /\ AgentOf(t) \in Agents
  BY TaskIdentity DEF Init, NoRow
<1> QED
  BY <1>1, <1>2, PlanAssumption
  DEF Init, PlanInv, CommittedPrefix, WorkAtCursor, FailureClosesAgent, CompletedIsComplete,
      RowsInPlan, DeadIsFailed, CursorInPlan, Present

LEMMA PlanSubmission ==
  ASSUME PlanInv, TypeOK', AnySubmission
  PROVE PlanInv'
<1>1. ASSUME NEW B \in SUBSET Agents, NEW k \in Tiers, InsertAgents(B, k),
             \A a \in B : agentStatus[a] = "absent"
      PROVE PlanInv'
  <2>1. \A t \in Tasks : AgentOf(t) \in Agents /\ SeqOf(t) \in Nat
    BY TaskIdentity
  <2>2. \A t \in Tasks : AgentOf(t) \in B =>
          /\ row[t].status = "absent" /\ cursor[AgentOf(t)] = 0
          /\ row'[t].status = IF SeqOf(t) < PlanLen[AgentOf(t)] THEN "pending" ELSE "absent"
    BY <1>1, <2>1 DEF PlanInv, RowsInPlan, CursorInPlan, Present, InsertAgents, NewRow, NoRow
  <2>3. \A t \in Tasks : AgentOf(t) \notin B =>
          row'[t] = row[t] /\ agentStatus'[AgentOf(t)] = agentStatus[AgentOf(t)]
    BY <1>1, <2>1 DEF InsertAgents
  <2>4. \A a \in Agents : agentStatus'[a] = IF a \in B THEN "running" ELSE agentStatus[a]
    BY <1>1 DEF InsertAgents
  <2>5. UNCHANGED <<cursor, dlq>>
    BY <1>1 DEF InsertAgents
  <2>6. CommittedPrefix' /\ WorkAtCursor'
    BY <2>1, <2>2, <2>3, <2>5 DEF PlanInv, CommittedPrefix, WorkAtCursor, Present, AtCursor
  <2>7. FailureClosesAgent'
    BY <1>1, <2>1, <2>2, <2>3, <2>4, <2>5 DEF PlanInv, FailureClosesAgent, AtCursor
  <2>8. CompletedIsComplete'
    BY <2>1, <2>3, <2>4, <2>5 DEF PlanInv, CompletedIsComplete
  <2>9. (RowsInPlan /\ DeadIsFailed /\ CursorInPlan)'
    BY <2>1, <2>2, <2>3, <2>4, <2>5
    DEF PlanInv, RowsInPlan, DeadIsFailed, CursorInPlan, Present
  <2> QED
    BY <2>6, <2>7, <2>8, <2>9 DEF PlanInv
<1>2. \A f \in Flags : StartTier(f) \in Tiers
  BY FlagsAssumption, LimitAssumption DEF StartTier, Tiers, BaseTier, NoTier
<1>3. BaseTier \in Tiers
  BY LimitAssumption DEF BaseTier, Tiers
<1> QED
  BY <1>1, <1>2, <1>3 DEF AnySubmission, Submit, Seed

\* The checkpoint: the row fenced on is running, so it is the one at the cursor,
\* and advancing the cursor past it makes it the last of the committed prefix.
LEMMA PlanCheckpoint ==
  ASSUME PlanInv, TypeOK', NEW w \in Workers, CheckpointSuccess(w)
  PROVE PlanInv'
<1> DEFINE t == hold[w].task
<1> DEFINE a == AgentOf(t)
<1>1. t \in Tasks /\ a \in Agents
  BY TaskIdentity DEF CheckpointSuccess, PlanInv, TypeOK, Claim
<1>2. row[t].status = "running" /\ SeqOf(t) = cursor[a] /\ agentStatus[a] = "running"
  BY <1>1 DEF CheckpointSuccess, CheckpointFence, Fenced, AtCursor, PlanInv, WorkAtCursor
<1>3. \A u \in Tasks : AgentOf(u) = a /\ SeqOf(u) = cursor[a] => u = t
  BY <1>1, <1>2, TaskIdentity
<1>4. \A u \in Tasks : AgentOf(u) \in Agents /\ SeqOf(u) \in Nat
  BY TaskIdentity
<1>5. row'[t].status = "succeeded" /\ \A u \in Tasks : u # t => row'[u] = row[u]
  BY <1>1 DEF CheckpointSuccess, Succeeded, PlanInv, TypeOK, Row
<1>6. cursor'[a] = cursor[a] + 1 /\ \A b \in Agents : b # a => cursor'[b] = cursor[b]
  BY <1>1 DEF CheckpointSuccess, PlanInv, TypeOK
<1>7. /\ agentStatus'[a] = IF cursor[a] + 1 >= PlanLen[a] THEN "completed" ELSE "running"
      /\ \A b \in Agents : b # a => agentStatus'[b] = agentStatus[b]
  BY <1>1, <1>2 DEF CheckpointSuccess, NextStatus, PlanInv, TypeOK
<1>8. dlq' = dlq
  BY DEF CheckpointSuccess
<1>9. cursor[a] \in Nat /\ PlanLen[a] \in Nat /\ cursor[a] < PlanLen[a]
  BY <1>1, <1>2, PlanAssumption DEF PlanInv, TypeOK, RowsInPlan, Present
<1>10. CommittedPrefix'
  BY <1>1, <1>2, <1>3, <1>4, <1>5, <1>6, <1>9 DEF PlanInv, CommittedPrefix, Present
<1>11. WorkAtCursor'
  BY <1>1, <1>2, <1>3, <1>4, <1>5, <1>6, <1>7 DEF PlanInv, WorkAtCursor, AtCursor
<1>12. FailureClosesAgent'
  <2>1. \A u \in Tasks : dlq'[u] =
          IF agentStatus'[AgentOf(u)] = "failed" /\ SeqOf(u) = cursor'[AgentOf(u)] THEN 1 ELSE 0
    BY <1>1, <1>2, <1>4, <1>6, <1>7, <1>8 DEF PlanInv, FailureClosesAgent, AtCursor
  <2>2. \A u \in Tasks : agentStatus'[AgentOf(u)] = "failed" =>
          row'[u].status \notin {"pending", "running", "failed"}
    BY <1>4, <1>5, <1>7 DEF PlanInv, FailureClosesAgent
  <2>3. \A b \in Agents : agentStatus'[b] = "failed" => cursor'[b] < PlanLen[b]
    BY <1>6, <1>7 DEF PlanInv, FailureClosesAgent
  <2> QED
    BY <2>1, <2>2, <2>3 DEF FailureClosesAgent, AtCursor
<1>13. CompletedIsComplete'
  <2>1. ASSUME NEW b \in Agents, b # a, agentStatus'[b] = "completed"
        PROVE /\ cursor'[b] = PlanLen[b]
              /\ \A u \in Tasks : AgentOf(u) = b => row'[u].status \in {"absent", "succeeded"}
    BY <2>1, <1>5, <1>6, <1>7 DEF PlanInv, CompletedIsComplete
  <2>2. ASSUME agentStatus'[a] = "completed"
        PROVE /\ cursor'[a] = PlanLen[a]
              /\ \A u \in Tasks : AgentOf(u) = a => row'[u].status \in {"absent", "succeeded"}
    <3>1. cursor'[a] = PlanLen[a]
      BY <2>2, <1>6, <1>7, <1>9
    <3>2. ASSUME NEW u \in Tasks, AgentOf(u) = a, row'[u].status # "absent"
          PROVE row'[u].status = "succeeded"
      <4>1. SeqOf(u) < PlanLen[a]
        BY <3>2, <1>1, <1>2, <1>5 DEF PlanInv, RowsInPlan, Present
      <4> QED
        BY <4>1, <3>1, <3>2, <1>10 DEF CommittedPrefix, Present
    <3> QED
      BY <3>1, <3>2
  <2> QED
    BY <2>1, <2>2 DEF CompletedIsComplete
<1>14. (RowsInPlan /\ DeadIsFailed /\ CursorInPlan)'
  BY <1>1, <1>2, <1>4, <1>5, <1>6, <1>7, <1>9
  DEF PlanInv, RowsInPlan, DeadIsFailed, CursorInPlan, Present
<1> QED
  BY <1>10, <1>11, <1>12, <1>13, <1>14 DEF PlanInv

LEMMA PlanWorker ==
  ASSUME PlanInv, TypeOK', NEW w \in Workers, Worker(w)
  PROVE PlanInv'
<1> USE DEF QuietChange, Live
<1>1. ASSUME NEW t \in Tasks, ClaimOne(w, t) PROVE PlanInv'
  <2>1. \A u \in Tasks : QuietChange(u)
    BY <1>1 DEF ClaimOne, Claimable, Leased, PlanInv, TypeOK, Row
  <2> QED
    BY <1>1, <2>1, QuietStep DEF ClaimOne
<1>2. ASSUME NEW fc \in FailureClasses, ReportFailure(w, fc) PROVE PlanInv'
  <2>1. hold[w].task \in Tasks
    BY <1>2 DEF ReportFailure, PlanInv, TypeOK, Claim
  <2>2. \A u \in Tasks : QuietChange(u)
    BY <1>2, <2>1
    DEF ReportFailure, Fenced, Failed, PlanInv, WorkAtCursor, TypeOK, Row
  <2> QED
    BY <1>2, <2>2, QuietStep DEF ReportFailure
<1>3. CASE Renew(w)
  <2>1. hold[w].task \in Tasks
    BY <1>3 DEF Renew, PlanInv, TypeOK, Claim
  <2>2. \A u \in Tasks : QuietChange(u)
    BY <1>3, <2>1 DEF Renew, PlanInv, TypeOK, Row
  <2> QED
    BY <1>3, <2>2, QuietStep DEF Renew
<1>4. ASSUME UNCHANGED <<agentStatus, cursor, row, dlq>> PROVE PlanInv'
  BY <1>4, QuietStep
<1> QED
  BY <1>1, <1>2, <1>3, <1>4, PlanCheckpoint
  DEF Worker, WorkerStep, NoticeLoss, PassLossCheck, DiscardLost, CheckpointRefused,
      ReportRefused, Abandon

LEMMA PlanEnvironment ==
  ASSUME PlanInv, TypeOK', Environment
  PROVE PlanInv'
<1> USE DEF QuietChange, Live
<1>1. ASSUME NEW t \in Tasks,
             LeaseRunsOut(t) \/ HeartbeatStalls(t) \/ BackoffElapses(t) \/ LoseRow(t)
      PROVE PlanInv'
  <2>1. ASSUME LoseRow(t) PROVE \A u \in Tasks : QuietChange(u)
    BY <2>1 DEF LoseRow, NoRow, PlanInv, TypeOK
  <2>2. ASSUME Expire(t) \/ BackoffElapses(t) PROVE \A u \in Tasks : QuietChange(u)
    <3>1. \A u \in Tasks : row[u] \in Row
      BY DEF PlanInv, TypeOK
    <3>2. /\ [row[t] EXCEPT !.expired = TRUE].status = row[t].status
          /\ [row[t] EXCEPT !.due = TRUE].status = row[t].status
      BY <3>1 DEF Row
    <3>3. \A u \in Tasks : row'[u].status = row[u].status
      BY <2>2, <3>2 DEF BackoffElapses, Expire, PlanInv, TypeOK
    <3> QED
      BY <3>3
  <2> QED
    BY <1>1, <2>1, <2>2, QuietStep
    DEF LeaseRunsOut, HeartbeatStalls, BackoffElapses, LoseRow, Expire
<1> QED
  BY <1>1 DEF Environment

LEMMA PlanReap ==
  ASSUME PlanInv, TypeOK', NEW B \in SUBSET Tasks, Reap(B)
  PROVE PlanInv'
<1>1. \A u \in Tasks : QuietChange(u)
  <2>1. \A u \in Tasks : row[u] \in Row
    BY DEF PlanInv, TypeOK
  <2>2. \A u \in Tasks : Reclaimed(u).status = "pending"
    BY <2>1 DEF Reclaimed, Row
  <2> QED
    BY <2>2 DEF Reap, Reclaimable, PlanInv, WorkAtCursor, QuietChange, Live
<1> QED
  BY <1>1, QuietStep DEF Reap

LEMMA PlanRepair ==
  ASSUME PlanInv, TypeOK', NEW B \in SUBSET Agents, Repair(B)
  PROVE PlanInv'
<1>1. \A t \in Tasks : AgentOf(t) \in Agents /\ SeqOf(t) \in Nat
  BY TaskIdentity
<1>2. UNCHANGED <<agentStatus, cursor, dlq>>
  BY DEF Repair
<1>3. ASSUME NEW t \in Tasks
      PROVE \/ row'[t].status = row[t].status
            \/ /\ row[t].status = "absent" /\ row'[t].status = "pending"
               /\ AtCursor(t) /\ agentStatus[AgentOf(t)] = "running"
               /\ SeqOf(t) < PlanLen[AgentOf(t)]
  <2>1. CASE AgentOf(t) \in B /\ AtCursor(t)
    <3>1. t = <<AgentOf(t), cursor[AgentOf(t)]>>
      BY <2>1 DEF AtCursor, AgentOf, SeqOf, Tasks
    <3> QED
      BY <2>1, <3>1 DEF Repair, Stalled, NewRow, NoRow, AtCursor
  <2>2. CASE ~(AgentOf(t) \in B /\ AtCursor(t))
    BY <2>2 DEF Repair
  <2> QED
    BY <2>1, <2>2
<1>4. CommittedPrefix' /\ WorkAtCursor'
  <2>1. \A t \in Tasks : AtCursor(t) => ~(SeqOf(t) < cursor[AgentOf(t)])
    BY <1>1 DEF AtCursor
  <2>2. CommittedPrefix'
    BY <1>2, <1>3, <2>1 DEF PlanInv, CommittedPrefix, Present
  <2>3. WorkAtCursor'
    BY <1>2, <1>3 DEF PlanInv, WorkAtCursor, AtCursor
  <2> QED
    BY <2>2, <2>3
<1>5. FailureClosesAgent' /\ CompletedIsComplete'
  BY <1>1, <1>2, <1>3 DEF PlanInv, FailureClosesAgent, CompletedIsComplete, AtCursor
<1>6. (RowsInPlan /\ DeadIsFailed /\ CursorInPlan)'
  BY <1>1, <1>2, <1>3 DEF PlanInv, RowsInPlan, DeadIsFailed, CursorInPlan, Present
<1> QED
  BY <1>4, <1>5, <1>6 DEF PlanInv

LEMMA PlanFinalise ==
  ASSUME PlanInv, TypeOK', NEW B \in SUBSET Agents, Finalise(B)
  PROVE PlanInv'
<1>1. \A t \in Tasks : AgentOf(t) \in Agents /\ SeqOf(t) \in Nat
  BY TaskIdentity
<1>2. UNCHANGED <<cursor, row, dlq>>
  BY DEF Finalise
<1>3. \A a \in Agents : agentStatus'[a] = IF a \in B THEN "completed" ELSE agentStatus[a]
  BY DEF Finalise
<1>4. \A a \in B : agentStatus[a] = "running" /\ cursor[a] = PlanLen[a]
  <2>1. \A a \in Agents : cursor[a] \in Nat /\ PlanLen[a] \in Nat /\ cursor[a] <= PlanLen[a]
    BY PlanAssumption DEF PlanInv, CursorInPlan, TypeOK
  <2> QED
    BY <2>1 DEF Finalise, Exhausted
<1>5. \A a \in B : \A t \in Tasks : AgentOf(t) = a => row[t].status \in {"absent", "succeeded"}
  BY DEF Finalise, Exhausted
<1>6. CommittedPrefix' /\ WorkAtCursor' /\ CompletedIsComplete'
  BY <1>1, <1>2, <1>3, <1>4, <1>5
  DEF PlanInv, CommittedPrefix, WorkAtCursor, CompletedIsComplete, Present, AtCursor
<1>7. FailureClosesAgent'
  BY <1>1, <1>2, <1>3, <1>4 DEF PlanInv, FailureClosesAgent, AtCursor
<1>8. (RowsInPlan /\ DeadIsFailed /\ CursorInPlan)'
  BY <1>1, <1>2, <1>3, <1>4, <1>5 DEF PlanInv, RowsInPlan, DeadIsFailed, CursorInPlan, Present
<1> QED
  BY <1>6, <1>7, <1>8 DEF PlanInv

\* Routing a batch: a failed row is the one at the cursor of a running agent, so
\* its dead letter is the agent's first and every other live row is pending and
\* gets cancelled.
LEMMA PlanClassify ==
  ASSUME PlanInv, TypeOK', NEW B \in SUBSET Tasks, NEW f \in [B -> Flags], Classify(B, f)
  PROVE PlanInv'
<1> DEFINE doomed == {t \in B : Doomed(t, f[t])}
<1> DEFINE ended == {AgentOf(t) : t \in doomed}
<1>1. \A t \in Tasks : AgentOf(t) \in Agents /\ SeqOf(t) \in Nat
  BY TaskIdentity
<1>2. UNCHANGED cursor
  BY DEF Classify
<1>3. \A t \in B : row[t].status = "failed" /\ AtCursor(t) /\ agentStatus[AgentOf(t)] = "running"
  BY DEF Classify, PlanInv, WorkAtCursor
<1>4. \A a \in Agents : agentStatus'[a] = IF a \in ended THEN "failed" ELSE agentStatus[a]
  BY DEF Classify
<1>5. \A t \in Tasks : dlq'[t] = IF t \in doomed THEN dlq[t] + 1 ELSE dlq[t]
  BY DEF Classify
<1>6. \A a \in ended : \E t \in doomed : AgentOf(t) = a
  OBVIOUS
<1>7. \A t \in Tasks : AgentOf(t) \in ended /\ AtCursor(t) => t \in doomed
  BY <1>1, <1>3, <1>6, TaskIdentity DEF AtCursor
<1>8. \A t \in doomed : AgentOf(t) \in ended
  OBVIOUS
<1>9. \A t \in Tasks :
        /\ Killed(row[t]).status = "dead" /\ Retried(row[t]).status = "pending"
        /\ Promoted(row[t]).status = "pending"
  BY DEF Killed, Retried, Promoted, PlanInv, TypeOK, Row
<1>10. \A t \in Tasks : row'[t] =
         IF t \in B THEN Routed(t, f[t])
         ELSE IF AgentOf(t) \in ended /\ Cancelled(t) THEN Killed(row[t])
         ELSE row[t]
  BY DEF Classify
<1>11. ASSUME NEW t \in Tasks
       PROVE row'[t].status =
               IF t \in doomed THEN "dead"
               ELSE IF t \in B THEN "pending"
               ELSE IF AgentOf(t) \in ended /\ row[t].status = "pending" THEN "dead"
               ELSE row[t].status
  BY <1>9, <1>10 DEF Routed, Cancelled
<1> HIDE DEF doomed, ended
<1>12. CommittedPrefix' /\ WorkAtCursor'
  <2>1. doomed \subseteq B
    BY DEF doomed
  <2>2. \A t \in B : ~(SeqOf(t) < cursor[AgentOf(t)])
    BY <1>1, <1>3 DEF AtCursor
  <2>3. CommittedPrefix'
    BY <1>1, <1>2, <1>3, <1>11, <2>1, <2>2 DEF PlanInv, CommittedPrefix, Present
  <2>4. WorkAtCursor'
    BY <1>1, <1>2, <1>4, <1>7, <1>11, <2>1 DEF PlanInv, WorkAtCursor, AtCursor
  <2> QED
    BY <2>3, <2>4
<1>13. FailureClosesAgent'
  <2>1. doomed \subseteq B
    BY DEF doomed
  <2>2. ASSUME NEW t \in Tasks
        PROVE dlq'[t] = IF agentStatus'[AgentOf(t)] = "failed" /\ AtCursor(t)' THEN 1 ELSE 0
    <3>1. dlq[t] = IF agentStatus[AgentOf(t)] = "failed" /\ AtCursor(t) THEN 1 ELSE 0
      BY DEF PlanInv, FailureClosesAgent
    <3>2. AtCursor(t)' <=> AtCursor(t)
      BY <1>2 DEF AtCursor
    <3>3. CASE t \in doomed
      BY <1>1, <1>3, <1>4, <1>5, <1>8, <2>1, <3>1, <3>2, <3>3
    <3>4. CASE t \notin doomed
      BY <1>1, <1>4, <1>5, <1>7, <3>1, <3>2, <3>4
    <3> QED
      BY <3>3, <3>4
  <2>3. ASSUME NEW t \in Tasks, agentStatus'[AgentOf(t)] = "failed"
        PROVE row'[t].status \notin {"pending", "running", "failed"}
    <3>1. CASE AgentOf(t) \in ended
      <4>1. row[t].status \in {"running", "failed"} => t \in doomed
        BY <1>7, <3>1 DEF PlanInv, WorkAtCursor
      <4> QED
        BY <1>3, <1>7, <1>11, <2>1, <3>1, <4>1
    <3>2. CASE AgentOf(t) \notin ended
      <4>1. agentStatus[AgentOf(t)] = "failed"
        BY <1>1, <1>4, <2>3, <3>2
      <4> QED
        BY <1>3, <1>8, <1>11, <2>1, <3>2, <4>1 DEF PlanInv, FailureClosesAgent
    <3> QED
      BY <3>1, <3>2
  <2>4. ASSUME NEW a \in Agents, agentStatus'[a] = "failed"
        PROVE cursor'[a] < PlanLen[a]
    BY <1>1, <1>2, <1>3, <1>4, <1>6, <2>1, <2>4
    DEF PlanInv, FailureClosesAgent, RowsInPlan, Present, AtCursor
  <2> QED
    BY <2>2, <2>3, <2>4 DEF FailureClosesAgent
<1>14. CompletedIsComplete'
  <2>1. doomed \subseteq B
    BY DEF doomed
  <2> QED
    BY <1>1, <1>2, <1>3, <1>4, <1>8, <1>11, <2>1 DEF PlanInv, CompletedIsComplete
<1>15. (RowsInPlan /\ DeadIsFailed /\ CursorInPlan)'
  <2>1. doomed \subseteq B
    BY DEF doomed
  <2> QED
    BY <1>1, <1>2, <1>3, <1>4, <1>6, <1>8, <1>11, <2>1
    DEF PlanInv, RowsInPlan, DeadIsFailed, CursorInPlan, Present
<1> QED
  BY <1>12, <1>13, <1>14, <1>15 DEF PlanInv

LEMMA PlanStep ==
  ASSUME PlanInv, [Next]_vars
  PROVE PlanInv'
<1>1. TypeOK'
  BY TypeStep DEF PlanInv
<1>2. CASE UNCHANGED vars
  BY <1>1, <1>2, QuietStep DEF vars, QuietChange
<1>3. CASE Orchestrator
  <2>1. ASSUME NEW B \in SUBSET {t \in Tasks : row[t].status = "failed"},
               NEW f \in [B -> Flags], Classify(B, f)
        PROVE PlanInv'
    <3>1. B \in SUBSET Tasks
      OBVIOUS
    <3> QED
      BY <1>1, <2>1, <3>1, PlanClassify
  <2> QED
    BY <1>1, <1>3, <2>1, PlanReap, PlanRepair, PlanFinalise DEF Orchestrator
<1> QED
  BY <1>1, <1>2, <1>3, PlanSubmission, PlanWorker, PlanEnvironment DEF Next

LEMMA PlanInvariant == Spec => []PlanInv
BY PlanInit, PlanStep, PTL DEF Spec

\* The cursor is the committed prefix of the plan in every reachable state.
THEOREM CommittedPrefixHolds == Spec => []CommittedPrefix
<1>1. PlanInv => CommittedPrefix
  BY DEF PlanInv
<1> QED
  BY <1>1, PlanInvariant, PTL

\* No worker holds, and no router waits for, a task that is not next in line.
THEOREM WorkAtCursorHolds == Spec => []WorkAtCursor
<1>1. PlanInv => WorkAtCursor
  BY DEF PlanInv
<1> QED
  BY <1>1, PlanInvariant, PTL

\* One dead letter for each failed agent, and nothing claimable left behind.
THEOREM FailureClosesAgentHolds == Spec => []FailureClosesAgent
<1>1. PlanInv => FailureClosesAgent
  BY DEF PlanInv
<1> QED
  BY <1>1, PlanInvariant, PTL

\* Completed means committed to the end of the plan.
THEOREM CompletedIsCompleteHolds == Spec => []CompletedIsComplete
<1>1. PlanInv => CompletedIsComplete
  BY DEF PlanInv
<1> QED
  BY <1>1, PlanInvariant, PTL

----------------------------------------------------------------------------
(* The queue implements PlanProgress *)

\* The facts about a checkpoint that a step of the abstract machine needs.
LEMMA CheckpointFacts ==
  ASSUME PlanInv, NEW w \in Workers, CheckpointSuccess(w)
  PROVE \E t \in Tasks :
          LET a == AgentOf(t)
          IN /\ a \in Agents /\ t = <<a, cursor[a]>>
             /\ row[t].status = "running" /\ row'[t].status = "succeeded"
             /\ agentStatus[a] = "running"
             /\ cursor[a] \in Nat /\ cursor[a] < PlanLen[a] /\ PlanLen[a] \in Nat
             /\ cursor' = [cursor EXCEPT ![a] = @ + 1]
             /\ agentStatus' = [agentStatus EXCEPT ![a] =
                                  IF cursor[a] + 1 >= PlanLen[a] THEN "completed" ELSE "running"]
<1> DEFINE t == hold[w].task
<1> DEFINE a == AgentOf(t)
<1>1. t \in Tasks /\ a \in Agents
  BY TaskIdentity DEF CheckpointSuccess, PlanInv, TypeOK, Claim
<1>2. row[t].status = "running" /\ SeqOf(t) = cursor[a] /\ agentStatus[a] = "running"
  BY <1>1 DEF CheckpointSuccess, CheckpointFence, Fenced, AtCursor, PlanInv, WorkAtCursor
<1>3. t = <<a, cursor[a]>>
  BY <1>1, <1>2 DEF Tasks, AgentOf, SeqOf
<1>4. row'[t].status = "succeeded"
  BY <1>1 DEF CheckpointSuccess, Succeeded, PlanInv, TypeOK, Row
<1>5. cursor[a] \in Nat /\ PlanLen[a] \in Nat /\ cursor[a] < PlanLen[a]
  BY <1>1, <1>2, PlanAssumption DEF PlanInv, TypeOK, RowsInPlan, Present
<1>6. /\ cursor' = [cursor EXCEPT ![a] = @ + 1]
      /\ agentStatus' = [agentStatus EXCEPT ![a] =
                           IF cursor[a] + 1 >= PlanLen[a] THEN "completed" ELSE "running"]
  BY <1>2 DEF CheckpointSuccess, NextStatus
<1> QED
  BY <1>1, <1>2, <1>3, <1>4, <1>5, <1>6

LEMMA RefineCheckpoint ==
  ASSUME PlanInv, NEW w \in Workers, CheckpointSuccess(w)
  PROVE \E a \in Agents : Progress!Advance(a)
<1>1. PICK t \in Tasks :
          LET a == AgentOf(t)
          IN /\ a \in Agents /\ t = <<a, cursor[a]>>
             /\ row[t].status = "running" /\ row'[t].status = "succeeded"
             /\ agentStatus[a] = "running"
             /\ cursor[a] \in Nat /\ cursor[a] < PlanLen[a] /\ PlanLen[a] \in Nat
             /\ cursor' = [cursor EXCEPT ![a] = @ + 1]
             /\ agentStatus' = [agentStatus EXCEPT ![a] =
                                  IF cursor[a] + 1 >= PlanLen[a] THEN "completed" ELSE "running"]
  BY CheckpointFacts
<1> DEFINE a == AgentOf(t)
<1>2. cursor[a] + 1 >= PlanLen[a] <=> cursor[a] + 1 = PlanLen[a]
  BY <1>1
<1>3. agentStatus' = [b \in Agents |-> IF b \in {a} \cap {c \in Agents : cursor[c] + 1 = PlanLen[c]}
                                      THEN "completed" ELSE agentStatus[b]]
  BY <1>1, <1>2 DEF PlanInv, TypeOK
<1> QED
  BY <1>1, <1>3 DEF Progress!Advance, Progress!SetStatus

LEMMA RefineClassify ==
  ASSUME PlanInv, NEW B \in SUBSET Tasks, NEW f \in [B -> Flags], Classify(B, f)
  PROVE UNCHANGED <<agentStatus, cursor>> \/ \E A \in SUBSET Agents : Progress!Fail(A)
<1> DEFINE ended == {AgentOf(t) : t \in {t \in B : Doomed(t, f[t])}}
<1>1. cursor' = cursor
      /\ agentStatus' = [a \in Agents |-> IF a \in ended THEN "failed" ELSE agentStatus[a]]
  BY DEF Classify
<1>2. \A a \in ended : \E t \in B : a = AgentOf(t)
  OBVIOUS
<1>3. \A t \in B : /\ AgentOf(t) \in Agents
                   /\ agentStatus[AgentOf(t)] = "running"
                   /\ cursor[AgentOf(t)] < PlanLen[AgentOf(t)]
  BY TaskIdentity DEF Classify, PlanInv, WorkAtCursor, RowsInPlan, Present, AtCursor
<1> HIDE DEF ended
<1>4. CASE ended = {}
  BY <1>1, <1>4 DEF PlanInv, TypeOK
<1>5. CASE ended # {}
  <2>1. ended \in SUBSET Agents
    BY <1>2, <1>3
  <2> QED
    BY <1>1, <1>2, <1>3, <1>5, <2>1 DEF Progress!Fail, Progress!SetStatus
<1> QED
  BY <1>4, <1>5

LEMMA RefineStep ==
  ASSUME PlanInv, [Next]_vars
  PROVE [Progress!Next]_(Progress!progress)
<1> USE DEF Progress!progress
<1>1. CASE UNCHANGED vars
  BY <1>1 DEF vars
<1>2. CASE AnySubmission
  <2>1. PICK B \in SUBSET Agents, k \in {BaseTier} \cup {StartTier(f) : f \in Flags} :
          B # {} /\ (\A a \in B : agentStatus[a] = "absent") /\ InsertAgents(B, k)
    BY <1>2 DEF AnySubmission, Submit, Seed
  <2>2. Progress!Start(B)
    BY <2>1 DEF InsertAgents, Progress!Start, Progress!SetStatus
  <2> QED
    BY <2>2 DEF Progress!Next
<1>3. ASSUME NEW w \in Workers, Worker(w) PROVE [Progress!Next]_(Progress!progress)
  <2>1. CASE CheckpointSuccess(w)
    BY <2>1, RefineCheckpoint DEF Progress!Next
  <2>2. CASE ~CheckpointSuccess(w)
    BY <1>3, <2>2
    DEF Worker, WorkerStep, ClaimOne, Renew, NoticeLoss, PassLossCheck, DiscardLost,
        CheckpointRefused, ReportFailure, ReportRefused, Abandon
  <2> QED
    BY <2>1, <2>2
<1>4. CASE Orchestrator
  <2>1. ASSUME NEW B \in SUBSET Agents, Finalise(B) PROVE Progress!Close(B)
    <3>1. \A a \in Agents : cursor[a] \in Nat /\ PlanLen[a] \in Nat /\ cursor[a] <= PlanLen[a]
      BY PlanAssumption DEF PlanInv, CursorInPlan, TypeOK
    <3> QED
      BY <2>1, <3>1 DEF Finalise, Exhausted, Progress!Close, Progress!SetStatus
  <2>2. ASSUME NEW B \in SUBSET {t \in Tasks : row[t].status = "failed"},
               NEW f \in [B -> Flags], Classify(B, f)
        PROVE [Progress!Next]_(Progress!progress)
    <3>1. B \in SUBSET Tasks
      OBVIOUS
    <3> QED
      BY <2>2, <3>1, RefineClassify DEF Progress!Next
  <2> QED
    BY <1>4, <2>1, <2>2 DEF Orchestrator, Reap, Repair, Progress!Next
<1>5. CASE Environment
  BY <1>5 DEF Environment, LeaseRunsOut, HeartbeatStalls, BackoffElapses, LoseRow, Expire
<1> QED
  BY <1>1, <1>2, <1>3, <1>4, <1>5 DEF Next

\* Every behaviour of the queue, seen through agents.status and agents.cursor, is
\* one of PlanProgress: tasks commit one at a time and in order, and an agent that
\* ended stays ended.
THEOREM QueueImplementsPlanProgress == Spec => Progress!Spec
<1>1. Init => Progress!Init
  BY DEF Init, Progress!Init
<1> QED
  BY <1>1, RefineStep, PlanInvariant, PTL DEF Spec, Progress!Spec

\* The cursor moves by one, with the commit of the task it points at, and ended
\* agents stay ended.
THEOREM AgentProgressHolds == Spec => AgentProgress
<1> DEFINE Step(a) ==
      /\ cursor'[a] # cursor[a] =>
           /\ cursor'[a] = cursor[a] + 1
           /\ agentStatus[a] = "running"
           /\ row[<<a, cursor[a]>>].status = "running"
           /\ row'[<<a, cursor[a]>>].status = "succeeded"
      /\ agentStatus[a] \in {"completed", "failed"} => agentStatus'[a] = agentStatus[a]
<1>1. ASSUME PlanInv, [Next]_vars, NEW a \in Agents PROVE Step(a)
  <2>1. CASE \E w \in Workers : CheckpointSuccess(w)
    <3>1. PICK w \in Workers : CheckpointSuccess(w)
      BY <2>1
    <3> QED
      BY <1>1, <3>1, CheckpointFacts DEF PlanInv, TypeOK
  <2>2. CASE cursor' = cursor /\ [Progress!Next]_(Progress!progress)
    BY <2>2
    DEF Progress!Next, Progress!progress, Progress!Start, Progress!Advance, Progress!Fail,
        Progress!Close, Progress!SetStatus
  <2>3. cursor' = cursor \/ \E w \in Workers : CheckpointSuccess(w)
    BY <1>1
    DEF Next, vars, AnySubmission, Submit, Seed, InsertAgents, Worker, WorkerStep, ClaimOne,
        Renew, NoticeLoss, PassLossCheck, DiscardLost, CheckpointRefused, ReportFailure,
        ReportRefused, Abandon, Orchestrator, Reap, Repair, Finalise, Classify, Environment,
        LeaseRunsOut, HeartbeatStalls, BackoffElapses, LoseRow, Expire
  <2> QED
    BY <1>1, <2>1, <2>2, <2>3, RefineStep
<1>2. PlanInv /\ [Next]_vars => [\A a \in Agents : Step(a)]_vars
  BY <1>1
<1> QED
  BY <1>2, PlanInvariant, PTL DEF Spec, AgentProgress
=============================================================================

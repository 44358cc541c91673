----------------------------- MODULE TaskQueue -----------------------------
(***************************************************************************)
(* The durable task queue as a whole: submissions, worker pools, reaper,   *)
(* queue repair and classifier interleaving on the tables of TaskTable.    *)
(***************************************************************************)
EXTENDS Submission, WorkerPool, Reaper, QueueRepair, Classifier

AnySubmission ==
  \/ \E B \in SUBSET Agents, f \in Flags : Submit(B, f)
  \/ \E B \in SUBSET Agents : Seed(B)

\* What a worker process does with the task it holds, faults aside.
WorkerStep(w) ==
  \/ PassLossCheck(w)
  \/ DiscardLost(w)
  \/ CheckpointSuccess(w)
  \/ CheckpointRefused(w)
  \/ \E fc \in FailureClasses : ReportFailure(w, fc)
  \/ ReportRefused(w)

Worker(w) ==
  \/ \E t \in Tasks : ClaimOne(w, t)
  \/ Renew(w)
  \/ NoticeLoss(w)
  \/ WorkerStep(w)
  \/ Abandon(w)

\* Any number of orchestrators run the same sweeps; they keep nothing between two
\* of them, so one more instance adds no behaviour.
Orchestrator ==
  \/ \E B \in SUBSET Tasks : Reap(B)
  \/ \E B \in SUBSET Agents : Repair(B)
  \/ \E B \in SUBSET Agents : Finalise(B)
  \/ \E B \in SUBSET {t \in Tasks : row[t].status = "failed"} :
       \E f \in [B -> Flags] : Classify(B, f)

Environment ==
  \E t \in Tasks : LeaseRunsOut(t) \/ HeartbeatStalls(t) \/ BackoffElapses(t) \/ LoseRow(t)

Next ==
  \/ AnySubmission
  \/ \E w \in Workers : Worker(w)
  \/ Orchestrator
  \/ Environment

Spec == Init /\ [][Next]_vars

\* Processes that run keep running: workers finish the task they hold, the
\* orchestrator's sweeps come round every tick and take the oldest rows first, and
\* time passes.  A claimable row is claimed though workers are only now and then
\* idle, for CLAIM_SQL serves rows in the order of next_run_at.  No fault is fair.
Fairness ==
  /\ \A w \in Workers : WF_vars(WorkerStep(w))
  /\ \A t \in Tasks :
       /\ SF_vars(\E w \in Workers : ClaimOne(w, t))
       /\ WF_vars(LeaseRunsOut(t))
       /\ WF_vars(BackoffElapses(t))
       /\ WF_vars(\E B \in SUBSET Tasks : t \in B /\ Reap(B))
       /\ WF_vars(\E B \in SUBSET Tasks : t \in B /\ \E f \in [B -> Flags] : Classify(B, f))
  /\ \A a \in Agents :
       /\ WF_vars(\E B \in SUBSET Agents : a \in B /\ Repair(B))
       /\ WF_vars(\E B \in SUBSET Agents : a \in B /\ Finalise(B))

FairSpec == Spec /\ Fairness
----------------------------------------------------------------------------
(* Safety *)

Present(t) == row[t].status # "absent"

\* The cursor is exactly the committed prefix of the plan: a task before it has
\* succeeded and a task at or after it has not, whatever was reaped, lost,
\* repaired or replayed in between (checkpoint_success).
CommittedPrefix ==
  \A t \in Tasks : Present(t) => (row[t].status = "succeeded" <=> SeqOf(t) < cursor[AgentOf(t)])

\* A task is with a worker, or waits for its routing, only at the cursor of an
\* agent that runs (the claim query's sequential dependency, kept by every sweep).
WorkAtCursor ==
  \A t \in Tasks : row[t].status \in {"running", "failed"} =>
    AtCursor(t) /\ agentStatus[AgentOf(t)] = "running"

\* An agent is failed exactly when one dead letter was written for the task at
\* its cursor, no other task has one, and nothing claimable is left behind
\* (_kill with CANCEL_SIBLINGS, run by any number of orchestrators).
FailureClosesAgent ==
  /\ \A t \in Tasks :
       dlq[t] = IF agentStatus[AgentOf(t)] = "failed" /\ AtCursor(t) THEN 1 ELSE 0
  /\ \A t \in Tasks :
       agentStatus[AgentOf(t)] = "failed" => row[t].status \notin {"pending", "running", "failed"}
  /\ \A a \in Agents : agentStatus[a] = "failed" => cursor[a] < PlanLen[a]

\* A completed agent has committed its whole plan.
CompletedIsComplete ==
  \A a \in Agents : agentStatus[a] = "completed" =>
    /\ cursor[a] = PlanLen[a]
    /\ \A t \in Tasks : AgentOf(t) = a => row[t].status \in {"absent", "succeeded"}

\* attempts is the evidence: task_instances.attempt, the handouts at the current
\* tier, is what attempts records at that tier plus the handout that is still
\* out, and nothing is recorded above the current tier.  A worker reaped while
\* slow adds no row and takes none away.
AttemptsHonest ==
  \A t \in Tasks : Present(t) =>
    /\ row[t].attempt = Recorded(t, row[t].tier) + (IF row[t].status = "running" THEN 1 ELSE 0)
    /\ \A k \in Tiers : k > row[t].tier => Recorded(t, k) = 0

\* A task commits once, and the commit is recorded at the tier the row has.
OneCommitPerTask ==
  \A t \in Tasks, k \in Tiers :
    attempts[t][k]["succeeded"] =
      IF row[t].status = "succeeded" /\ k = row[t].tier THEN 1 ELSE 0

\* A tier a task has left was paid for with a full budget of capability failures
\* at that tier: no reclaim, however many, ever funds a promotion.
PromotionPaid ==
  \A t \in Tasks, k \in Tiers : k < row[t].tier =>
    Recorded(t, k) = 0 \/ attempts[t][k]["CAPABILITY"] = MaxPerTier

\* A task never outruns its retry budgets, however its failure classes, reclaims
\* and promotions interleave.
BudgetsHold ==
  \A t \in Tasks :
    /\ InfraReports(t) <= MaxInfra
    /\ \A k \in Tiers : attempts[t][k]["CAPABILITY"] <= MaxPerTier

\* With retries and escalation on and no tier pinned, a dead-lettered task used up a
\* budget of failures that workers reported, or reported one when its handouts at
\* the tier had reached MAX_TOTAL_ATTEMPTS; only that limit counts reclaims.  So
\* classify.py:72-80, its query and its test; classify.py:36-38 ("the total number of
\* handouts is exactly the right measure" for INFRA) and README.md:203 (a lease
\* expiry goes to "DLQ after 5") say otherwise, and the code does not follow them.
KilledForCause ==
  \A t \in Tasks : row[t].status = "dead" /\ AtCursor(t) =>
    \/ \E k \in Tiers : attempts[t][k]["POISON"] > 0
    \/ row[t].attempt >= MaxTotal
    \/ InfraReports(t) = MaxInfra
    \/ row[t].tier = NTiers /\ attempts[t][NTiers]["CAPABILITY"] = MaxPerTier

\* The fence is exact: a worker that would pass it holds the latest handout of
\* the row, and no other worker would pass it.  "If the reaper reclaimed this
\* task while we were slow, our lease no longer matches" (worker/main.py).
FenceExact ==
  \A w \in Workers : hold[w] # Idle /\ Fenced(w) =>
    LET t == hold[w].task
    IN /\ hold[w].attempt = row[t].attempt
       /\ hold[w].tier = row[t].tier
       /\ \A v \in Workers \ {w} : hold[v] # Idle /\ hold[v].task = t => ~Fenced(v)

\* "A backstop on total handouts, so a task that is somehow reclaimed forever
\* still terminates" (classify.py:82-84).  The code reads the limit only when it
\* routes a failure a worker reported, and resets the count on promotion.
HandoutsCapped == \A t \in Tasks : row[t].attempt <= MaxTotal

\* The cursor moves one task at a time and only with that task's commit, and an
\* agent that ended never starts again.
AgentProgress ==
  [][\A a \in Agents :
       /\ cursor'[a] # cursor[a] =>
            /\ cursor'[a] = cursor[a] + 1
            /\ agentStatus[a] = "running"
            /\ row[<<a, cursor[a]>>].status = "running"
            /\ row'[<<a, cursor[a]>>].status = "succeeded"
       /\ agentStatus[a] \in {"completed", "failed"} => agentStatus'[a] = agentStatus[a]]_vars
----------------------------------------------------------------------------
(* Liveness and refinement *)

\* Every agent that runs ends: a crashed worker, a stalled heartbeat, a lost row
\* or any sequence of failures is worked off by the sweeps.
AgentsEnd ==
  \A a \in Agents : agentStatus[a] = "running" ~> agentStatus[a] \in {"completed", "failed"}

Progress == INSTANCE PlanProgress WITH status <- agentStatus, done <- cursor

\* Seen through status and cursor alone, the queue is the abstract machine of
\* PlanProgress: in order, one commit at a time, and always moving.
ImplementsPlan == Progress!FairSpec
=============================================================================

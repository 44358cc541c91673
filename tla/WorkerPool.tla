---------------------------- MODULE WorkerPool -----------------------------
(***************************************************************************)
(* The worker processes: claim.py, heartbeat.py and process_one,           *)
(* checkpoint_success and report_failure of main.py under src/worker.      *)
(* What a task computes is abstracted to how it ends: with a result, with  *)
(* a TaskFailure of some class, or with the process or loop gone.          *)
(***************************************************************************)
EXTENDS TaskTable

\* The WHERE of CLAIM_SQL.  Its ORDER BY next_run_at is in the fairness of the
\* specification: any due row may be first in line.
Claimable_AnySeq(w, t) ==  \* mutant: t.seq = a.cursor dropped
  /\ row[t].status = "pending"
  /\ row[t].due
  /\ row[t].tier = PoolTier[w]
  /\ agentStatus[AgentOf(t)] = "running"
Claimable(w, t) ==
  /\ row[t].status = "pending"
  /\ row[t].due
  /\ row[t].tier = PoolTier[w]
  /\ agentStatus[AgentOf(t)] = "running"
  /\ AtCursor(t)

Leased(r, id) ==
  [r EXCEPT !.status = "running", !.owner = id, !.expired = FALSE, !.attempt = @ + 1]

ClaimOne(w, t) ==
  /\ hold[w] = Idle
  /\ Claimable(w, t)
  /\ row' = [row EXCEPT ![t] = Leased(row[t], WorkerId[w])]
  /\ hold' = [hold EXCEPT ![w] =
                [task |-> t, gen |-> gen[t], tier |-> row[t].tier,
                 attempt |-> row[t].attempt + 1, lost |-> FALSE, phase |-> "run"]]
  /\ UNCHANGED <<agentStatus, cursor, gen, attempts, dlq, faults>>

\* The backoff or jitter written to next_run_at has passed.
BackoffElapses(t) ==
  /\ row[t].status = "pending"
  /\ ~row[t].due
  /\ row' = [row EXCEPT ![t].due = TRUE]
  /\ UNCHANGED <<agentStatus, cursor, gen, attempts, dlq, hold, faults>>

Drop(w) == hold' = [hold EXCEPT ![w] = Idle]

\* A heartbeat that renews: RENEW_SQL does not ask whether the lease had expired.
Renew(w) ==
  /\ hold[w] # Idle /\ ~hold[w].lost
  /\ Fenced(w)
  /\ row[hold[w].task].expired
  /\ row' = [row EXCEPT ![hold[w].task].expired = FALSE]
  /\ UNCHANGED <<agentStatus, cursor, gen, attempts, dlq, hold, faults>>

\* A heartbeat that updates no row sets hb.lost and ends its thread.
NoticeLoss(w) ==
  /\ hold[w] # Idle /\ ~hold[w].lost
  /\ ~Fenced(w)
  /\ hold' = [hold EXCEPT ![w].lost = TRUE]
  /\ UNCHANGED <<agentStatus, cursor, row, gen, attempts, dlq, faults>>

\* run_task returned: process_one reads hb.lost once ...
PassLossCheck(w) ==
  /\ hold[w] # Idle /\ hold[w].phase = "run"
  /\ ~hold[w].lost
  /\ hold' = [hold EXCEPT ![w].phase = "commit"]
  /\ UNCHANGED <<agentStatus, cursor, row, gen, attempts, dlq, faults>>

DiscardLost(w) ==
  /\ hold[w] # Idle /\ hold[w].phase = "run"
  /\ hold[w].lost
  /\ Drop(w)
  /\ UNCHANGED <<agentStatus, cursor, row, gen, attempts, dlq, faults>>

\* ... and then commits, whatever the heartbeat has seen since.  Both updates of
\* the transaction must find their row.
CheckpointFence_CursorOnly(w) == AtCursor(hold[w].task)  \* mutant: no lease fence
CheckpointFence(w) == Fenced(w) /\ AtCursor(hold[w].task)

NextStatus_Early(a) ==  \* mutant: off by one
  IF cursor[a] + 2 >= PlanLen[a] THEN "completed" ELSE agentStatus[a]
NextStatus_Late(a) ==  \* mutant: the cursor before the increment
  IF cursor[a] >= PlanLen[a] THEN "completed" ELSE agentStatus[a]
NextStatus(a) == IF cursor[a] + 1 >= PlanLen[a] THEN "completed" ELSE agentStatus[a]

\* lease_owner and lease_expires stay behind; only a running row is asked for them.
Succeeded(r) == [r EXCEPT !.status = "succeeded", !.class = "none", !.expired = FALSE]
Failed(r, fc) == [r EXCEPT !.status = "failed", !.class = fc, !.expired = FALSE]

CheckpointSuccess(w) ==
  /\ hold[w] # Idle /\ hold[w].phase = "commit"
  /\ CheckpointFence(w)
  /\ LET t == hold[w].task
         a == AgentOf(t)
     IN /\ row' = [row EXCEPT ![t] = Succeeded(row[t])]
        /\ cursor' = [cursor EXCEPT ![a] = @ + 1]
        /\ agentStatus' = [agentStatus EXCEPT ![a] = NextStatus(a)]
        /\ Record(t, hold[w].tier, "succeeded")
  /\ Drop(w)
  /\ UNCHANGED <<gen, dlq, faults>>

\* Rolled back: the worker goes on as if the task had never been its own.
CheckpointRefused(w) ==
  /\ hold[w] # Idle /\ hold[w].phase = "commit"
  /\ ~CheckpointFence(w)
  /\ Drop(w)
  /\ UNCHANGED <<agentStatus, cursor, row, gen, attempts, dlq, faults>>

\* run_task raised a TaskFailure of class fc.
ReportFailure(w, fc) ==
  /\ hold[w] # Idle /\ hold[w].phase = "run"
  /\ Fenced(w)
  /\ row' = [row EXCEPT ![hold[w].task] = Failed(row[hold[w].task], fc)]
  /\ Record(hold[w].task, hold[w].tier, fc)
  /\ Drop(w)
  /\ UNCHANGED <<agentStatus, cursor, gen, dlq, faults>>

ReportRefused(w) ==
  /\ hold[w] # Idle /\ hold[w].phase = "run"
  /\ ~Fenced(w)
  /\ Drop(w)
  /\ UNCHANGED <<agentStatus, cursor, row, gen, attempts, dlq, faults>>

\* The process is killed (and later restarted), or process_one raises something
\* that is not a TaskFailure.  The row stays running until its lease runs out.
Abandon(w) ==
  /\ hold[w] # Idle
  /\ faults < MaxFaults
  /\ Drop(w)
  /\ faults' = faults + 1
  /\ UNCHANGED <<agentStatus, cursor, row, gen, attempts, dlq>>
=============================================================================

------------------------------ MODULE Reaper -------------------------------
(***************************************************************************)
(* The reaper sweep of src/orchestrator/reaper.py, and the passing of time *)
(* that makes a lease run out.                                             *)
(***************************************************************************)
EXTENDS TaskTable

\* A heartbeat thread is still renewing the lease on t.
Renewed(t) ==
  \E w \in Workers : hold[w] # Idle /\ hold[w].task = t /\ ~hold[w].lost /\ Fenced(w)

Expire(t) ==
  /\ row[t].status = "running"
  /\ ~row[t].expired
  /\ row' = [row EXCEPT ![t].expired = TRUE]
  /\ UNCHANGED <<agentStatus, cursor, gen, attempts, dlq, hold>>

\* Nobody renews the lease: it runs out.
LeaseRunsOut(t) ==
  /\ ~Renewed(t)
  /\ Expire(t)
  /\ UNCHANGED faults

\* The owner is alive, but a pause or failed renewals outlast the lease.
HeartbeatStalls(t) ==
  /\ Renewed(t)
  /\ faults < MaxFaults
  /\ faults' = faults + 1
  /\ Expire(t)

Reclaimable(t) == row[t].status = "running" /\ row[t].expired

\* `attempt` and `tier` survive a reclaim, next_run_at gets a jitter.
Reclaimed(t) ==
  [row[t] EXCEPT !.status = "pending", !.owner = NoOwner, !.expired = FALSE,
                 !.class = "INFRA", !.due = FALSE]

\* REAP_SQL: requeue a batch and record the evidence for the same rows.  SKIP
\* LOCKED lets other instances or a renewal hold any of the expired rows, so the
\* batch is any subset of them.
Reap(B) ==
  /\ B # {} /\ Cardinality(B) <= Batch
  /\ \A t \in B : Reclaimable(t)
  /\ row' = [t \in Tasks |-> IF t \in B THEN Reclaimed(t) ELSE row[t]]
  /\ attempts' = [t \in Tasks |->
                    IF t \in B
                    THEN [attempts[t] EXCEPT ![row[t].tier]["reclaimed"] = @ + 1]
                    ELSE attempts[t]]
  /\ UNCHANGED <<agentStatus, cursor, gen, dlq, hold, faults>>
=============================================================================

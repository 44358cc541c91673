---------------------------- MODULE RetryTiming ----------------------------
(***************************************************************************)
(* One task that creates a ticket (tasks/registry.py) through one tool     *)
(* call (tasks/tools.py), on a clock: how the backoff of the classifier,   *)
(* the retry budget and the age at which a reservation is reconciled       *)
(* compare.  Workers live and are idle, so nothing waits longer than a     *)
(* poll.  Times are in seconds.                                            *)
(***************************************************************************)
EXTENDS Integers

CONSTANTS
  LeaseTtl,      \* LEASE_TTL_SECONDS
  WorkerPoll,    \* the longest an idle worker sleeps between two claims
  OrchPoll,      \* ORCHESTRATOR_POLL_SECONDS
  MaxInfra,      \* MAX_INFRA_ATTEMPTS
  BackoffCap,    \* the cap of backoff_seconds
  Horizon        \* where the clock stops

VARIABLES
  now,      \* the clock
  task,     \* the task's row: `since` is next_run_at or the last update
  reported, \* INFRA failures in attempts
  entry     \* the task's row in the table idempotency

clockvars == <<now, task, reported, entry>>

Init ==
  /\ now = 0
  /\ task = [status |-> "pending", attempt |-> 0, since |-> 0]
  /\ reported = 0
  /\ entry = [state |-> "absent", since |-> 0]

To(s) == task' = [task EXCEPT !.status = s, !.since = now]

Backoff(n) == IF 2 ^ n < BackoffCap THEN 2 ^ n ELSE BackoffCap

Claim ==
  /\ task.status = "pending" /\ task.since <= now
  /\ task' = [status |-> "running", attempt |-> task.attempt + 1, since |-> now]
  /\ UNCHANGED <<now, reported, entry>>

\* begin found no row: the call is made, and answers.
CallAnswers ==
  /\ task.status = "running" /\ entry.state = "absent"
  /\ entry' = [state |-> "done", since |-> now]
  /\ To("succeeded")
  /\ UNCHANGED <<now, reported>>

\* The tool is unavailable, or what implements it raises: an InfraFailure, and a
\* reservation nobody will settle.
CallFails ==
  /\ task.status = "running" /\ entry.state = "absent"
  /\ entry' = [state |-> "in_flight", since |-> now]
  /\ To("failed")
  /\ reported' = reported + 1
  /\ UNCHANGED now

\* begin found a reservation: an InfraFailure.
Refused ==
  /\ task.status = "running" /\ entry.state = "in_flight"
  /\ To("failed")
  /\ reported' = reported + 1
  /\ UNCHANGED <<now, entry>>

Replayed ==
  /\ task.status = "running" /\ entry.state = "done"
  /\ To("succeeded")
  /\ UNCHANGED <<now, reported, entry>>

Route ==
  /\ task.status = "failed"
  /\ task' = IF reported >= MaxInfra
             THEN [task EXCEPT !.status = "dead", !.since = now]
             ELSE [task EXCEPT !.status = "pending", !.since = now + Backoff(task.attempt)]
  /\ UNCHANGED <<now, reported, entry>>

ReconcileAge == 2 * LeaseTtl

Reconcile ==
  /\ entry.state = "in_flight" /\ now - entry.since > ReconcileAge
  /\ entry' = [state |-> "done", since |-> now]
  /\ UNCHANGED <<now, task, reported>>

\* A second passes when nobody is late: a worker polls, an orchestrator ticks, and
\* a call answers or fails within a second.
Tick ==
  /\ now < Horizon
  /\ task.status = "pending" => now < task.since + WorkerPoll
  /\ task.status = "running" => now < task.since + 1
  /\ task.status = "failed" => now < task.since + OrchPoll
  /\ entry.state = "in_flight" => now <= entry.since + ReconcileAge + OrchPoll
  /\ now' = now + 1
  /\ UNCHANGED <<task, reported, entry>>

Next ==
  \/ Claim \/ CallAnswers \/ CallFails \/ Refused \/ Replayed
  \/ Route \/ Reconcile \/ Tick

Spec == Init /\ [][Next]_clockvars
----------------------------------------------------------------------------
\* "Report it as INFRA so the task is retried once the ambiguity resolves: by then
\* the twin has either settled the id ... or is provably gone" (executor.py:106-109):
\* the retries last until there is an answer, they do not end in a dead letter
\* while the reservation is still open.
RetryOutlivesAmbiguity == task.status = "dead" => entry.state = "done"
=============================================================================

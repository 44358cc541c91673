# Verification of the agent runtime

TLA+ modules, TLC configurations and TLAPS proofs for the runtime in this
repository: a durable task queue in Postgres whose workers, orchestrators and
API processes never talk to each other and meet only in tables.

Run a check with `tlc -config MCTaskQueue_core.cfg MCTaskQueue.tla`, a proof
with `tlapm PlanSafetyProofs.tla`. `PROJECT.json` lists the runs, the
mutants that show each property can fail, the source lines of every definition,
the hazards and the theorems.

## 1. The system

| part | state it keeps | operations | meets others through |
|---|---|---|---|
| tables (`db/schema.sql`) | agents, task_instances, attempts, dlq, idempotency, tiers, runtime_config | transactions of the others | is the meeting point |
| submission (`api/main.py`, `chaos/harness.py`) | none | `submit_agents`, `seed` | inserts agents and all their rows |
| worker (`worker/`) | the claimed row, `Heartbeat.lost` | `claim_one`, renewals, `checkpoint_success`, `report_failure` | lease columns, cursor, attempts |
| executor and ledger (`worker/executor.py`, `orchestrator/ledger.py`) | idempotency rows | `begin`, `settle`, `release`, `audit`, `reconcile` | the key (agent, seq, action) |
| reaper (`orchestrator/reaper.py`) | none | `reap` | expired leases, attempts |
| queue repair (`orchestrator/queue.py`) | none | `repair_stalled`, `finalise_agents` | agents without a row, exhausted plans |
| classifier (`orchestrator/classify.py`) | none | `classify` (`route_one`, `_kill`) | failed rows, attempts, dlq |
| orchestrator loop (`orchestrator/main.py`) | a shutdown flag | `tick`: the sweeps in order | any number of instances |
| tier ladder, flags (`common/tiers.py`, `common/runtime.py`) | per-process caches | reads, `invalidate` | tables tiers, runtime_config |
| autoscaler (`scale/autoscaler.py`) | time of the last scale-in | `tick` | docker, counts in the tables |
| admission (`api/main.py`) | an advisory lock | count and insert in one transaction | running agents |
| connection pool (`db/pool.py`) | free connections of a process | check out, wait, time out, give back | every transaction of the process |
| tasks, tools, metrics, harness UI | in-memory registries | task bodies, tool calls, read queries | how a task ends |

What is hard about it:

- **Zombies.** A lease is the only failure detector. A slow worker and its
  replacement run the same task; a fence on `lease_owner` has to keep the first
  from committing, failing or renewing what it lost. The heartbeat's flag is
  read once, before the checkpoint, and everything can happen after.
- **Sweeps by any number of orchestrators** over the same rows, in batches, with
  `SKIP LOCKED`, in any order, with any of them failing.
- **Two counters.** `task_instances.attempt` counts handouts at a tier,
  `attempts` is evidence. Budgets and promotions must read the second, and
  reclaims must not count.
- **Cascades.** A dead letter ends the agent and cancels its queued rows in one
  transaction, beside other rows of the same batch.
- **Rows that vanish**: only the repair sweep notices, and the worker that held
  the old row must not touch its replacement.
- **Flags that change** between two reads (2 s caches per process).
- **Exactly-once effects** over at-least-once execution: executions overlap, die
  between the effect and its acknowledgement, and are retried (the ledger).
- **Retries against the clock.** A call that failed leaves its reservation open;
  every retry before the sweep closes it is one more INFRA failure.
- **Nested checkouts.** A transaction that reads the flags or the ladder asks for
  a second connection while it holds the first, and the ladder is filled under a
  lock: threads of one process can all wait for each other until a timeout.
- **Copies that never age.** The ladder is cached for the life of a process, so
  processes disagree on what comes next after a tier is inserted.
- **Check, then insert** by requests that race, beside a seed that never checks.
- **Two-step control** of the replica count: load and containers change between
  the autoscaler's reads and its command, and its commands fail unnoticed.

## 2. Modules

Four groups of modules. The queue: `TaskTable` holds the constants with their
assumptions and all shared variables, each component module EXTENDS it and adds
that component's transactions, `TaskQueue` EXTENDS the components, interleaves
them, and states the properties. The ledger: `Ledger`, alone, for any executors.
The runtime: `AgentRuntime` EXTENDS `TaskQueue` and composes it with an INSTANCE
of `Ledger`. The control plane: `TierLadder`, `ConnPool`, `Admission` and
`ControlPlane` each EXTEND the one before. `Autoscaler` stands beside them.

| module | code | contents |
|---|---|---|
| `TaskTable` | `db/schema.sql`, columns and fences | `row`, `agentStatus`, `cursor`, `attempts`, `dlq`, `hold`; `Fenced`, `TypeOK` |
| `Submission` | `api/main.py`, `chaos/harness.py` | `Submit` (admission, plan check, pinned tier), `Seed` |
| `WorkerPool` | `worker/claim.py`, `heartbeat.py`, `main.py` | `ClaimOne`, `Renew`, `NoticeLoss`, `PassLossCheck`, `DiscardLost`, `CheckpointSuccess`, `CheckpointRefused`, `ReportFailure`, `ReportRefused`, `Abandon` |
| `Reaper` | `orchestrator/reaper.py` | `LeaseRunsOut`, `HeartbeatStalls`, `Reap` |
| `QueueRepair` | `orchestrator/queue.py` | `LoseRow` (fault), `Repair`, `Finalise` |
| `Classifier` | `orchestrator/classify.py` | `Routed` by branch of `route_one`, `Classify` over a batch |
| `TaskQueue` | `orchestrator/main.py` and all above | `Next`, `Fairness`, safety, liveness, refinement |
| `PlanProgress` | what `GET /agents/{id}` shows | abstract specification: `Start`, `Advance`, `Fail`, `Close` |
| `Ledger` | `orchestrator/ledger.py`, `worker/executor.py` | `Proceed`, `Replay`, `Refuse` (the answers of `begin`), `Perform`, `Raise`, `Die`, `Settle`, `Age`, `Reconcile` |
| `AtMostOnce` | what the ledger promises | abstract specification: `Ask`, `Fire`, `Confirm`, `GiveUp` |
| `Autoscaler` | `scale/autoscaler.py` | `Desired`, `Count`, `Size`, `Look`, `Up`, `Wake`, and the faults |
| `AgentRuntime` | `worker/main.py` (`process_one`), `worker/executor.py` (`run_task`) | queue and ledger composed: `Loads`, `Begins`, `Acts`, `Passes`, `Checkpoints`, `Leaves`, `Dies` |
| `RetryTiming` | `worker/executor.py`, `orchestrator/classify.py`, `ledger.py`, `tasks/tools.py` | one task, one tool call and one reservation on a clock |
| `TierLadder` | `common/tiers.py` | the ladder, the copy of each process, `NextTier`, `InsertTier` |
| `ConnPool` | `db/pool.py`, `common/runtime.py`, `common/tiers.py` | `Checkout`, the two cached reads, `Ends`, `Restarts` |
| `Admission` | `api/main.py`, `chaos/harness.py` | `Locks`, `Counts`, `Inserts`, `Seeds` |
| `ControlPlane` | the callers of the three above | `Steps` of each kind of call, `Takes`, `Routes`, `Claims`, `Costs`, `TimesOut`, `Fails`, `Restart` |
| `LullObserver` | `scale/autoscaler.py` | `Autoscaler` with a history variable for one property |
| `MCTaskQueue`, `MCLedger`, `MCAutoscaler`, `MCAgentRuntime`, `MCControlPlane` | - | instances for TLC |
| `TaskQueueProofs`, `PlanSafetyProofs`, `EvidenceProofs`, `CauseProofs` | - | theorems on `TaskQueue`; each EXTENDS the one before |
| `RuntimeProofs` | - | theorems on `AgentRuntime`; EXTENDS `CauseProofs` |
| `LedgerProofs`, `AutoscalerProofs`, `ControlProofs` | - | theorems on `Ledger`, `Autoscaler`, `ControlPlane` |

In `Ledger` any executor may run any action at any time, which contains every
order in which the queue hands tasks out. `AgentRuntime` then says which of them
happen: its steps are a queue step, a ledger step, or one of each at once (only a
crash in the middle of a task body is both), and it adds what neither part has:
the results that `load_agent` read, and the results committed to the context.
The control plane looks at the same sweeps and requests from another side: what
each asks of its process, one checkout at a time. The queue appears there as one
task, because its leases and budgets are the subject of `TaskQueue`. The
autoscaler sees the queue only as two counts, which change at any time.

How state corresponds to the code:

- **One action is one transaction**, or one step of a process between two. The
  code's statements are single SQL statements or short transactions on row locks,
  so nothing finer is visible to another process. `FOR UPDATE SKIP LOCKED` with a
  `LIMIT` becomes "any nonempty set of at most `Batch` matching rows": other
  transactions may hold any of the rows.
- **Clocks are comparisons.** `expired` is `lease_expires < now()`, `due` is
  `next_run_at <= now()`; time passing is `LeaseRunsOut`, `HeartbeatStalls` and
  `BackoffElapses`. `expired` is kept only on running rows, where it is read.
- **A tier is its rank**, 1 to `NTiers`; `common/tiers.py` walks ranks.
- **A row's UUID** is the pair (agent, seq) with `gen`, the number of rows that
  position had before: a worker that holds an old row does not match a new one.
- **attempts** is kept as a count for each task, tier and outcome, which is all
  the code's queries ask of it. It belongs to the current row: deleting the row
  cascades.
- **hold[w]** is the local state of `process_one`: the row as claimed,
  `Heartbeat.lost`, and whether the flag was already read (`phase`).
- **Flags** are read as any member of the constant `Flags`, once for each row of
  a batch, so that a stale cache is always among the choices.
- **The ledger's clock** is one bit of a reservation, `old`: `created_at` is more
  than `RECONCILE_AFTER` leases ago. `run[e]` is how far `run_task` is, and its
  last outcome. `effects` is not in the code: it counts what happened outside.
- **The autoscaler's clock** is `rested`, the intervals since the last scale-in
  up to the cooldown. `docker compose ps` and `up` are two steps.
- **stage[w]** is how far `process_one` is: claimed, agent loaded, or past
  `ledger.begin`. **committed** is the part of `agents.context` that matters: a
  real result, or the marker of an unresolved one.
- **todo[r]** is what the call that thread `r` serves has left to do, as a list of
  steps. The steps that can wait (a connection, the ladder's lock, the advisory
  lock) and those that matter to others (count, insert, route) are steps of their
  own. `Steps` gives the list for each kind of call, in the order of the code.
- The short transactions of a worker and of its heartbeat hold nothing while
  they ask for a connection; they are left out of the pool's model.
- **calls[p]** has no counterpart in the code: it bounds the calls, restarts, seeds
  and inserts of a process.
- A task's computation is how it ends: a result, a `TaskFailure` of one of the
  three classes, or `Abandon` (killed, or an exception that is not a
  `TaskFailure`).

## 3. Properties and runs

| run | instance | properties |
|---|---|---|
| `core` | 1 agent, plan of 2, workers j1 j2 (junior) s1 (senior), 1 capability failure a tier, 2 INFRA, 4 handouts, 2 faults | `TypeOK`, `CommittedPrefix`, `WorkAtCursor`, `FailureClosesAgent`, `CompletedIsComplete`, `AttemptsHonest`, `BudgetsHold`, `KilledForCause`, `AgentProgress` |
| `flags` | 2 agents, plan of 1, 3 workers, any flags at each read, batches of 2, admission cap 1, 2 capability failures a tier, 1 fault | `OneCommitPerTask`, `PromotionPaid`, `FenceExact` |
| `live` | 3 agents (one empty plan), 2 workers, 1 fault, fairness | `AgentsEnd`, `ImplementsPlan` |
| `sharedids` | every worker has the same id | `FenceExact` is violated |
| `backstop` | 3 faults, 2 handouts allowed | `HandoutsCapped` is violated |
| `ledger` | 2 actions, 3 executors, batches of 1, fairness | `TypeOK`, `AtMostOneEffect`, `ReplayFinal`, `ReservationsClose`, `ImplementsAtMostOnce` |
| `slowowner` | the same | `LiveOwnerKept` is violated |
| `autoscaler` | 3 replicas at most, 2 agents each, 3 leases for one more, cap of 6 agents, load up to 8, cooldown 3, 1 fault, fairness | `TypeOK`, `LeastThatCarries`, `Settles` |
| `lull` | the same without a fault | `LullOutlasted` is violated |
| `runtime` | 1 agent, plan of 2 whose first task has a side effect, 2 workers of one tier, 2 INFRA failures, 4 handouts, 1 fault, fairness | `ContextIsBacked`, `DoneOnceOrFlagged`, `PriorIsPlanPrefix`, `ImplementsQueue`, `ImplementsLedger` |
| `retrytiming` | the defaults of `config.py`: lease 30 s, polls of 3 s and 2 s, 5 INFRA failures, backoff up to 30 s; 90 s | `RetryOutlivesAmbiguity` is violated |
| `control` | an API process with 3 threads, 2 orchestrators, 2 workers, pools of 2, ladders of 2 to which a third tier is added, limit of 2 agents, fairness | `AdmittedWithinLimit`, `CostKnown`, `TwoAreAmple`, `StarvedOnlyCold`, `PromotionClimbs`, `LadderFollowed`, `CallsEnd` |

- `CommittedPrefix`: a row is succeeded exactly when its position is before the
  cursor. It relates two tables over every crash, zombie, cancellation, repair.
- `WorkAtCursor`: running and failed rows exist only at the cursor of a running
  agent, which is the sequential dependency the claim query relies on.
- `FailureClosesAgent`: failed agent, one dead letter at its cursor, nothing
  claimable behind.
- `CompletedIsComplete`: completion by checkpoint or by sweep, only of a whole plan.
- `AttemptsHonest`: `attempt` equals the evidence at the tier plus the handout
  that is out; no evidence above the tier.
- `OneCommitPerTask`, `FenceExact`: one commit whatever the zombies do; who
  passes the fence holds the latest handout, alone.
- `PromotionPaid`, `BudgetsHold`, `KilledForCause`: the cost claim. A tier left
  was paid for in full with capability failures; a dead task had a poison failure
  or used up a budget of reported failures, which reclaims do not count in, or it
  had reached the limit on handouts at its tier, in which they do, when a failure
  of it was routed.
- `AgentProgress` (a step property), `AgentsEnd` (liveness), `ImplementsPlan`
  (refinement of `PlanProgress` with its fairness).
- `AtMostOneEffect`: whoever runs an action, however often and however it dies.
- `ReplayFinal`: a replay and the ledger never disagree afterwards, also when a
  settlement arrives after the sweep closed the reservation.
- `ReservationsClose` (liveness), `ImplementsAtMostOnce` (refinement of
  `AtMostOnce` with its fairness).
- `LeastThatCarries`: `desired_replicas` against its declarative meaning, and that
  the ceiling never limits a load admission lets in.
- `Settles` (liveness): a service whose load stays ends at the size it needs,
  through cooldown, failed commands, stopped containers and restarts. It says
  nothing of single ticks: that one asks for too much or too little, or takes
  containers away too early, is made good by a later one.
- `ContextIsBacked`: what a context says of an external action is so. It relates
  a commit fenced by a lease to an effect guarded by a reservation, two protocols
  that know nothing of each other.
- `DoneOnceOrFlagged`: at the end of an agent's life, each external action was
  done exactly once, or the context says the outcome is unknown.
- `PriorIsPlanPrefix`: `load_agent` is a transaction of its own after the claim;
  still, who may commit computed from exactly the results before its task.
- `ImplementsQueue`, `ImplementsLedger`: the composition is a behaviour of both
  parts with their fairness, so `AgentsEnd`, `ReservationsClose` and the other
  properties hold of it, and a task body never blocks the queue.
- `AdmittedWithinLimit`: the advisory lock makes check and insert one, across
  rollbacks and crashes of its holder.
- `CostKnown`: a worker never finishes a task whose tier its copy lacks, although
  the copy is never renewed. It holds because the copy is taken at the first
  task and a pool serves one tier, and would not for a copy taken at start-up.
- `PromotionClimbs`: true with any copy, however old. `LadderFollowed`: with a
  current copy, promotion never skips a tier nor stops short of the top. With an
  outdated one it may do either; see below.
- `TwoAreAmple`, `StarvedOnlyCold`, `CallsEnd`: what nested checkouts can and
  cannot do. An orchestrator with two connections never waits; an API process can
  be starved by its own threads only before its ladder is cached, and then until
  a timeout; no wait lasts for ever.

**Bounds.** `MaxFaults` bounds abandoned tasks, stalled heartbeats and lost rows;
retries are bounded by the code's own budgets, so nothing else needs a bound.
Two faults are a zombie and the crash of its replacement; three workers are a
zombie, its replacement and a tier above. The budgets are smaller than 2, 5 and
25, but in the same order and with each one reachable before the next. A plan of
two has a first and a last task. Two agents suffice for what is shared between
agents (batches, admission). The junior workers are symmetric in the runs
without liveness. For the ledger, three executors are an owner, one that replays
and one that comes between, and two actions are more than a batch of one takes;
nothing there grows without limit once effects are at most one. The autoscaler's
numbers keep the ratios of the defaults: the ceiling is what the admission cap
needs, and the load exceeds the cap by the harness, so that the clamp is met.
In `runtime` the plan has a task with a side effect and one without; one fault is
a zombie or a crash at any point of the body, and the two workers are the zombie
and its replacement. With two faults the three invariants hold too (730 thousand
states), but the liveness check no longer fits a short run. `retrytiming` needs
no interleaving: its workers live and nothing waits longer than a poll, so what
it shows happens on a quiet system; the clock stops after the last reservation
could have been closed. In `control` three threads are one more than the pool
holds; the API is busy in one scenario, the orchestrators and workers in the two
others, since they share only the ladder and the count of agents. The third tier
goes on top of the ladder in one and in between in the other.

**Deadlock** checking is off in the runs of `MCTaskQueue` and `MCAgentRuntime`:
when all agents have ended there is nothing to do. It is off in `RetryTiming`,
whose clock stops, and in `MCControlPlane`, whose calls run out. It is on in the
others.

**Fairness** (run `live`). Weak fairness for a worker's own steps, for each sweep
on each row or agent it should take, and for time: the loops of `worker/main.py`
and `orchestrator/main.py` come round for ever, catch every exception, and take
the oldest rows first. Strong fairness for the claim of each task, since workers
are idle only now and then, which `ORDER BY next_run_at` justifies. It assumes
what a deployment must provide: a pool for each tier, at least one orchestrator,
task bodies that return. No fault is fair, and fairness is not assumed of
renewals: a lease that is being renewed does not expire except by a fault. Run
`ledger` assumes that time passes and that the reconcile sweep, which comes round
in `orchestrator/main.py:96-103` and takes the oldest first, reaches each
reservation; executors owe nothing. Run `autoscaler` assumes that its `while
True` goes on, whatever a tick raises (`scale/autoscaler.py:179-193`). Run
`runtime` has the fairness of the queue and of the ledger, and weak fairness for
the step a living worker takes next: tools and database answer, or the worker
dies, which is no fair action. Run `control` assumes only that while some thread
can go on, some thread does; the wait for a connection ends in the pool's
timeout, which `db/pool.py` leaves at its default. Calls are bounded, so no thread is passed over for ever.

**Findings.** `sharedids`: `WORKER_ID` defaults to `worker-{pid}`, and in the
compose file every worker is PID 1, so the ids are equal and the fence of
`worker/main.py:58-60` does not hold. The progress properties survive (they are
proved for any ids), and a task is still dead-lettered only for a cause: what is
lost is the tier of the evidence, since a zombie then commits or fails the handout
of another. `backstop`: the limit on handouts
(`orchestrator/classify.py:82-85`) does not stop a task that is reclaimed for
ever, because only the routing of a reported failure reads it. `slowowner`: the
comment that a slow worker with a renewable lease is never reconciled out from
under (`orchestrator/ledger.py:103-105`) does not hold, since the sweep reads the
age of the reservation only; no second effect follows, but the real result is
lost to the marker. `lull`: `cooldown_down` is not the time a lull must persist
(`scale/autoscaler.py:53`) but a least time between two scale-ins (of one process whose `ps` does not
fail: a count that failed reads as zero, and scaling from zero asks no cooldown).
`retrytiming`: a task whose first tool call fails spends its five INFRA failures
in about half a minute, refused by its own reservation, which is reconciled only
after two leases; with the default lease of 30 s it is dead-lettered first,
against `worker/executor.py:106-109`. With the lease of 10 s that
`docker-compose.yml` sets the property holds.

Met in passing, with no run of their own: `db/pool.py:19-20` says that an
orchestrator never needs more than one connection, but `classify` and `repair_stalled` use two
(`TwoAreAmple` says that two are enough). And `db/schema.sql:76-78` says that an
inserted tier is picked up, but a process that has read the ladder keeps its copy
until it restarts: it promotes past the new tier, or dead-letters below it. That
is why `LadderFollowed` is conditional on current copies: it says nothing of what
an outdated copy does, of which only `PromotionClimbs` is certain.

Two properties that hold contradict a text of the repository on the very case they
are about; in both, the code and the comments beside it agree with the property,
and the text is not followed:

- `KilledForCause`. `orchestrator/classify.py:36-38` says that INFRA retries "still
  use `attempt`, deliberately", since for that budget "the total number of handouts
  is exactly the right measure", and `src/README.md:203` lists lease expiry and a
  killed worker among what goes to the "DLQ after 5". Both would let reclaims use
  up the INFRA budget. `infra_attempts` counts only failures that a worker
  reported, as `classify.py:72-80` explains and `TestInfraReclaimsDoNotDeadLetter`
  (`tests/test_distributed_concepts.py:550`) demands. The mutant of the property,
  `InfraSpent_Reclaims`, is the behaviour of the docstring, and TLC finds healthy
  work dead-lettered under it.
- `AdmittedWithinLimit`. `src/README.md:339-341` says "No admission control or load
  shedding. The queue absorbs whatever is submitted", and `SUBMISSION.md:98` lists
  admission control as unimplemented. `api/main.py:151-176` implements it, answering
  429 past `MAX_ACTIVE_AGENTS`, as `common/config.py:40-50` and `demo.txt:237-246`
  describe. What the queue does absorb without asking is the harness's seed, which
  the model has and the property leaves out.

The autoscaler's `running_replicas` runs `docker compose ps` with `check=False`: when
it fails the count is zero, and a scale-in then passes for a scale-out that asks no
cooldown. Agents and backlog are read in two transactions, so a size can be one
for a load that never was. No property forbids either, since the code does both;
`Settles` says that they do not last.

## 4. Proofs

`TaskQueueProofs` proves `TypeCorrect`, one lemma for each action.
`PlanSafetyProofs` proves `CommittedPrefix`, `WorkAtCursor`, `FailureClosesAgent`,
`CompletedIsComplete`, `AgentProgress` and `Spec => Progress!Spec`, for every
number of agents, workers, tiers, any plans, limits, batch sizes, flags and fault
bounds. The assumptions are those named in `TaskTable`: the constants have their
types, the limits are positive, `NoOwner` is no worker's id, `Idle` is no claim.
Nothing is assumed about the ids being distinct.

None of the four invariants is inductive alone. `PlanInv` is their conjunction
with `TypeOK` and three facts they lean on:

- `RowsInPlan`: a row, and any task held or in the dead letters, lies within the plan;
- `DeadIsFailed`: a dead row belongs to a failed agent (so a kill never meets a
  row that another kill already ended);
- `CursorInPlan`: the cursor is between 0 and the plan's length.

A checkpoint needs `WorkAtCursor` to know that its agent runs, `CommittedPrefix`
after it needs the cursor fence, a classification needs `WorkAtCursor` to know
that the failed row is its agent's only one, and the finalisation needs
`CommittedPrefix`. Each action has one lemma; actions that leave the plan's state
alone share `QuietStep`. The refinement follows because `PlanInv` turns every
action into a `PlanProgress` step or a stutter.

`LedgerProofs` proves `TypeOK`, `AtMostOneEffect`, `ReplayFinal` and
`Spec => Once!Spec` of the ledger for any actions, executors and batch size, from
`LedgerAssumption`. `AtMostOneEffect` says nothing of who may act next, so
`LedgerInv` adds `OwnReservation` (who acts holds a reservation, and no two hold
the same) and `EffectOfOwner` (no effect before the reservation or before its
owner acts; one once the owner acted or the row says "real"). `Proceed` keeps it
since only an absent row can be reserved and rows are never deleted; `Perform`
because the actor is the one owner. `SweepKeeps` serves both ageing and
reconciliation, which touch open reservations and settle none as real.

`RuntimeProofs` proves, for any plans, side effects, workers and limits, from the
assumptions of `TaskTable` and `SideEffectAssumption`, that the composition
implements both parts (`RuntimeImplementsQueue`, `RuntimeImplementsLedger`), and
`ContextIsBacked`, `DoneOnceOrFlagged` and `PriorIsPlanPrefix`. The first makes
the theorems on `Spec` hold of the composition as they stand;
`RuntimeCommitsInOrder` is one spelled out. The ledger's facts are needed about
the instance `L`, where the theorems of `LedgerProofs` cannot be cited, so
`GuardInv` states and proves what is needed of it: reservations have one holder,
answers are settled entries. `RuntimeInv` adds:

- `WorkerInv`: how far a worker is determines what its execution of the ledger
  holds; one in phase "commit" has a returned or replayed result, and it read at
  least the results before its task;
- `ContextIsPrefix`: only tasks before the cursor have a result in the context;
- `ContextIsBacked` itself.

A checkpoint keeps `ContextIsBacked` because its worker returned or replayed, so
the entry is settled; `Settles`, that a settled entry and its effect never change,
keeps it afterwards. `DoneOnceOrFlagged` needs `ContextIsPrefix` and, of the queue,
`CompletedIsComplete`. `PriorIsPlanPrefix` needs that cursors only grow
and that the fence pins the cursor.

`EvidenceProofs` proves `FenceExact`, `AttemptsHonest`, `OneCommitPerTask`,
`PromotionPaid` and `BudgetsHold` from one hypothesis, `IdsDistinct`: no two
workers share a `WORKER_ID`. Run `sharedids` shows that without it the first
fails (and TLC refutes the other four under the same configuration): a worker that
passes another's fence records its outcome at a tier and attempt that are no longer
the row's. The inductive
invariant `EvidenceInv` adds to `PlanInv`:

- `HoldsHandout`: a worker that passes the fence knows the attempt and the tier
  of the row, so what it records is recorded where the row is;
- `Accounted`, for each task: the properties themselves, and two facts they do not
  say. `Headroom`: a task that may still be handed out, or that failed for another
  reason, has one failure of each budget left; this is what keeps `BudgetsHold`
  when the next failure is recorded. `ClassRecorded`: a failed row has a recorded
  report of its class.

INFRA failures are counted over all tiers; the model counts the rows of `attempts`
as a set (`AttemptRows`), so that one more record is one more element and the
library's facts on cardinality apply.

`CauseProofs` drops `IdsDistinct` and so bounds the damage of the finding
`sharedids`. Its `TallyInv` keeps the part of the account that no fence protects:

- `HoldsBehind`: a claim is on a row that has since been replaced, or on one whose
  tier is the claim's or a later one, because rows only climb;
- `Tallied`, for each task: nothing is recorded above the tier of the row; a commit
  is recorded once, at whatever tier; the INFRA count over all tiers, and the
  capability failures at the tier the row has now, are within their budgets, with
  headroom as above; a failed row has a report of its class at some tier.

It follows (`SharedIdsBounded`) that a task still commits once and never exceeds
`MAX_INFRA_ATTEMPTS`: what sharing an id breaks is at which tier an outcome is
recorded, so the budget of a lower tier can be exceeded and the attempt number
disagrees. And `KilledForCause` holds: it needs only `FlagsNormal` (retries and
escalation on, no tier forced: with other flags the classifier kills for less, as
it is told to) and `CauseInv`, since a dead row keeps the cause it had only because
nothing but a loss of the row touches it.

`RuntimeProofs` carries all three groups over to the composition
(`RuntimeCommitsInOrder`, `RuntimeEvidenceHolds`, `RuntimeSharedIdsBounded`,
`RuntimeKilledForCause`).

`AutoscalerProofs` proves `TypeOK` and `LeastThatCarries`. The second is
arithmetic: rounding up gives the least number of groups that hold the load
(`CeilDivLeast`), and the maximum of least numbers is the least that does all of it
(`NeededIsLeast`). Its hypothesis `CapsConsistent` is what
`scale/autoscaler.py:64-67` demands of the constants: the largest service carries
the admission cap. The defaults satisfy it (10 times 10, and 9 times 50, for 100).

`ControlProofs` proves all six safety properties of `ControlPlane` for any number
of processes, threads and connections, any limit and counts, any ladder and any
rows inserted. Besides the types of the constants it assumes what the code fixes:
an orchestrator has two connections and one thread (`OneLoop`: `tick` runs its
sweeps one after another, `orchestrator/main.py:95-114`). The argument rests on the
*place* of a thread: the step its call is at, together with the steps after it.
There are finitely many (`Places`), every step of a call leads from one to another,
and a place determines what the thread holds:

- `OnCourse`: each thread is at a place of a call that its process serves;
- `PoolCounted`: a thread holds the connections its place says (`Held`), and those
  of all threads of a process, counted as a set of pairs, make `DB_POOL_MAX` with
  those in the pool. It is a theorem of its own, `ConnectionsAccounted`;
- `LadderLocked`: the ladder's lock is taken exactly while some thread of the
  process fills the copy, which is then empty;
- `AdmissionLocked`: between count and commit a thread holds the advisory lock, and
  from the count on there is room for what it inserts;
- `TaskHeld`: who has a price to find, or a failure to route, holds the task, which
  has the tier of its pool, or is failed;
- `CopiesOld`: every copy is part of the table, and a worker's has its pool's tier.

`ControlInv` is their conjunction with the types. `TwoAreAmple` follows because a
waiting thread holds at most one connection, and is alone; `StarvedOnlyCold` because
with a warm copy nobody holds the ladder's lock and only an orchestrator can wait
with a connection in hand. `Lowest` is a CHOOSE: that it picks a least element is
proved for any nonempty set of numbers from the well-foundedness of finite
subsets (`LowestIsLeast`), the copies not being assumed finite.

The theorems on `Autoscaler` are about `FairSpec`; those on `ControlPlane` about
`ControlSpec`, which the checked `ControlFairSpec` implies. Every invariant and
every step property of the passing runs is thus proved.

Only model-checked: liveness (`AgentsEnd`, `ReservationsClose`, `Settles`,
`CallsEnd`), and the refinements with their fairness (`ImplementsPlan`,
`ImplementsAtMostOnce`, `ImplementsQueue`, `ImplementsLedger`), whose safety parts
are proved. Liveness under fairness needs ENABLED, which is beyond the prover.

## 5. Not modelled

Task bodies beyond how they end, the tools' mock and live implementations, plugin
discovery, the numbers that metrics and other read-only queries compute, the
dashboard, the command line, the chaos harness beyond its seeding and faults,
result payloads and cost accounting: none of them decides anything about the
state above. `ledger.release` and `ledger.lookup` have no caller in the runtime;
`stranded`, `audit` and `counts` read only. `tiers.invalidate` has no caller in
the running system. Deleting an agent row is not modelled; nothing in the code
does it.

## 6. Plan

Done: the queue with its progress and evidence properties and the proofs of
both; the ledger, the autoscaler, the composition of queue and ledger, and the
control plane, each with its proofs; retry timing. Left:

1. The autoscaler's claim behind the finding `lull`, as a theorem about
   `LullObserver`: two scale-ins are at least the cooldown apart, as long as the
   process lives and its `ps` does not fail.
2. An abstract specification of admission (a counter that never passes its limit)
   and the proof that the control plane implements it.

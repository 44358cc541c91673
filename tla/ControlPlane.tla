---------------------------- MODULE ControlPlane ---------------------------
(***************************************************************************)
(* The calls that the processes of the system serve, each of them through  *)
(* its own pool, ladder and flags: requests of the API, sweeps of an       *)
(* orchestrator, tasks of a worker.  Between them they admit agents, climb *)
(* the ladder with a failed task, and charge for a finished one.           *)
(*                                                                         *)
(* One task stands for the queue (its leases and budgets are the subject   *)
(* of TaskQueue); here what matters is whose copy of the ladder moves it.  *)
(***************************************************************************)
EXTENDS Admission

CONSTANTS
  Role,       \* Role[p]: what process p is
  PoolTier,   \* PoolTier[p]: POOL_TIER of process p; of no worker, NoTier
  Scenarios   \* first contents of tiers, and the bound on what each process does

ASSUME ControlAssumption ==
  /\ Role \in [Processes -> {"api", "orchestrator", "worker", "harness", "operator"}]
  /\ PoolTier \in [Processes -> Tiers \cup {NoTier}]
  /\ \A p \in Processes : Role[p] = "orchestrator" => PoolMax[p] = 2
  /\ Scenarios \subseteq [ladder : (SUBSET Tiers) \ {{}}, calls : [Processes -> Nat]]

\* An orchestrator is one loop: tick() runs its sweeps one after another.
ASSUME OneLoop ==
  \A r, q \in Threads : Home[r] = Home[q] /\ Role[Home[r]] = "orchestrator" => r = q

VARIABLES
  tier,    \* task_instances.tier
  status,  \* task_instances.status
  holder,  \* the thread whose row lock, or whose lease, the task is under
  calls    \* calls[p]: calls to serve, restarts, seeds or inserts that p has left

qvars == <<tier, status, holder>>
cvars == <<ladder, pvars, avars, qvars, calls>>

\* The count read ahead of the lock it is to be read under.
Steps_CountFirst(call) ==
  CASE call = "submit"   -> <<"flags", "tiers", "open", "count", "lock", "insert">>
    [] call = "pinned"   -> <<"flags", "open", "count", "lock", "insert">>
    [] call = "nested"   -> <<"open", "tiers", "close">>
    [] call = "config"   -> <<"tiers", "open", "close">>
    [] call = "plain"    -> <<"open", "close">>
    [] call = "classify" -> <<"open", "take", "flags", "tiers", "route">>
    [] call = "run"      -> <<"claim", "tiers", "cost">>

\* The order in which each kind of call asks for what it needs.
Steps(call) ==
  CASE call = "submit"   -> <<"flags", "tiers", "open", "lock", "count", "insert">>
    [] call = "pinned"   -> <<"flags", "open", "lock", "count", "insert">>
    [] call = "nested"   -> <<"open", "tiers", "close">>
    [] call = "config"   -> <<"tiers", "open", "close">>
    [] call = "plain"    -> <<"open", "close">>
    [] call = "classify" -> <<"open", "take", "flags", "tiers", "route">>
    [] call = "run"      -> <<"claim", "tiers", "cost">>

\* submit, with force_tier set or not; metrics and repair_stalled (nested);
\* chaos_config; the reads of one table and the other sweeps (plain).
Serves(p) ==
  CASE Role[p] = "api"          -> {"submit", "pinned", "nested", "config", "plain"}
    [] Role[p] = "orchestrator" -> {"classify", "nested", "plain"}
    [] Role[p] = "worker"       -> {"run"}
    [] OTHER                    -> {}

ControlInit ==
  /\ \E s \in Scenarios : ladder = s.ladder /\ calls = s.calls
  /\ PoolInit
  /\ AdmissionInit
  /\ tier = Lowest(ladder) /\ status = "pending" /\ holder = Nobody

Spends(p) == calls[p] > 0 /\ calls' = [calls EXCEPT ![p] = @ - 1]

Begins(r) ==
  /\ ~Serving(r) /\ Spends(Home[r])
  /\ \E call \in Serves(Home[r]) : Goes(r, Steps(call))
  /\ UNCHANGED <<ladder, free, conns, lock, fresh, cache, avars, qvars>>

\* What only touches the pool and the caches.
Plumbing(r) ==
  /\ \/ Checkout(r) \/ AsksFlags(r) \/ LoadsFlags(r) \/ AsksTiers(r) \/ FillsTiers(r)
     \/ Doing(r, "close") /\ Ends(r)
  /\ UNCHANGED <<ladder, avars, qvars, calls>>

Admits(r) ==
  /\ Locks(r) \/ Counts(r) \/ Inserts(r)
  /\ UNCHANGED <<ladder, qvars, calls>>

\* claim_one: a task of the pool's own tier, or none.
Claims(r) ==
  /\ Doing(r, "claim")
  /\ \/ /\ status = "pending" /\ tier = PoolTier[Home[r]]
        /\ status' = "running" /\ holder' = r
        /\ Passes(r)
        /\ UNCHANGED <<free, conns, lock, fresh, cache, tier>>
     \/ /\ ~(status = "pending" /\ tier = PoolTier[Home[r]])
        /\ Ends(r)
        /\ UNCHANGED qvars
  /\ UNCHANGED <<ladder, avars, calls>>

\* cost_of, and the task done or failed.  A tier that is not in the copy is a
\* KeyError: nothing is written, and the task stays with its lease.
Costs(r) ==
  /\ Doing(r, "cost")
  /\ status' \in IF tier \in cache[Home[r]] THEN {"succeeded", "failed"} ELSE {"running"}
  /\ holder' = Nobody
  /\ Ends(r)
  /\ UNCHANGED <<ladder, tier, avars, calls>>

\* TAKE_FAILED_SQL, SKIP LOCKED: without a row there is nothing to route.
Takes(r) ==
  /\ Doing(r, "take")
  /\ \/ /\ status = "failed" /\ holder = Nobody
        /\ holder' = r
        /\ Passes(r)
     \/ /\ ~(status = "failed" /\ holder = Nobody)
        /\ Goes(r, <<"close">>)
        /\ UNCHANGED holder
  /\ UNCHANGED <<ladder, free, conns, lock, fresh, cache, tier, status, avars, calls>>

\* The end of route_one: the failure has used up its tier.
Routes(r) ==
  /\ Doing(r, "route")
  /\ LET promoted == NextTier(cache[Home[r]], tier)
     IN  IF promoted = NoTier
         THEN status' = "dead" /\ UNCHANGED tier
         ELSE status' = "pending" /\ tier' = promoted
  /\ holder' = Nobody
  /\ Ends(r)
  /\ UNCHANGED <<ladder, avars, calls>>

\* Rollback: what the thread held in the database is free again.
RollsBack(r) ==
  /\ Unlocks(r)
  /\ holder' = IF holder = r THEN Nobody ELSE holder
  /\ Ends(r)
  /\ UNCHANGED <<ladder, admitted, seeded, tier, status, calls>>

\* PoolTimeout.
TimesOut(r) == Waiting(r) /\ RollsBack(r)

\* A statement fails.
Fails(r) == conns[r] > 0 /\ RollsBack(r)

\* The reaper, once the lease that nobody renews has run out.
Reaped ==
  /\ status = "running" /\ holder = Nobody
  /\ status' = "pending"
  /\ UNCHANGED <<ladder, pvars, avars, tier, holder, calls>>

\* A process that loads the ladder as it comes up.
Restart_Eager(p) ==
  /\ Spends(p)
  /\ free' = [free EXCEPT ![p] = PoolMax[p]]
  /\ conns' = [r \in Threads |-> IF Home[r] = p THEN 0 ELSE conns[r]]
  /\ todo' = [r \in Threads |-> IF Home[r] = p THEN <<>> ELSE todo[r]]
  /\ lock' = [lock EXCEPT ![p] = Nobody]
  /\ fresh' = [fresh EXCEPT ![p] = FALSE]
  /\ cache' = [cache EXCEPT ![p] = ladder]
  /\ advisory' = IF advisory \in Threads /\ Home[advisory] = p THEN Nobody ELSE advisory
  /\ holder' = IF holder \in Threads /\ Home[holder] = p THEN Nobody ELSE holder
  /\ UNCHANGED <<ladder, admitted, seeded, tier, status>>

\* A process dies, with its transactions, and is started again.
Restart(p) ==
  /\ Spends(p)
  /\ Restarts(p)
  /\ advisory' = IF advisory \in Threads /\ Home[advisory] = p THEN Nobody ELSE advisory
  /\ holder' = IF holder \in Threads /\ Home[holder] = p THEN Nobody ELSE holder
  /\ UNCHANGED <<ladder, admitted, seeded, tier, status>>

ThreadStep(r) ==
  /\ Serving(r)
  /\ \/ Plumbing(r) \/ Admits(r) \/ TimesOut(r)
     \/ Claims(r) \/ Costs(r) \/ Takes(r) \/ Routes(r)

\* What happens outside the calls: the INSERT of an operator, the harness, time.
Around ==
  \/ \E p \in Processes :
       /\ Role[p] = "operator" /\ Spends(p) /\ InsertTier
       /\ UNCHANGED <<todo, free, conns, lock, fresh, avars, qvars>>
  \/ \E p \in Processes :
       Role[p] = "harness" /\ Spends(p) /\ Seeds /\ UNCHANGED <<ladder, qvars>>
  \/ AgentEnds /\ UNCHANGED <<ladder, qvars, calls>>
  \/ \E p \in Processes : FlagsAge(p) /\ UNCHANGED <<ladder, avars, qvars, calls>>
  \/ Reaped

ControlNext ==
  \/ \E r \in Threads : Begins(r) \/ ThreadStep(r) \/ Fails(r)
  \/ \E p \in Processes : Restart(p)
  \/ Around

ControlSpec == ControlInit /\ [][ControlNext]_cvars

\* While some thread can go on, some thread does; a wait for a connection ends
\* in a timeout.
ControlFairSpec == ControlSpec /\ WF_cvars(\E r \in Threads : ThreadStep(r))

-----------------------------------------------------------------------------
(* Properties. *)

\* Between the count and the commit nobody else is admitted: the agents that
\* POST /agents let in never pass the limit (src/api/main.py:151-157), whatever
\* the harness seeds beside them.  README.md:339-341 ("The queue absorbs whatever is
\* submitted") and SUBMISSION.md:98 say there is no such limit; the code has it.
AdmittedWithinLimit == admitted <= MaxActive

\* However old a worker's copy of the ladder is, it prices every task that the
\* worker finishes: the copy is taken at the first task, after its tier was
\* inserted (src/worker/executor.py:135).
CostKnown == \A r \in Threads : Doing(r, "cost") => tier \in cache[Home[r]]

\* Whatever copy of the ladder a classifier holds, promotion moves a task up to
\* a tier that exists, never down or sideways (src/common/tiers.py:65-76).
PromotionClimbs == [][tier' # tier => tier' > tier /\ tier' \in ladder]_cvars

\* While no process holds an outdated copy, promotion takes the very next tier
\* of the table and a task is dead-lettered only at the top of it.  With an outdated
\* copy it may be otherwise, and this does not say how.
Current == \A p \in Processes : cache[p] \in {Cold, ladder}
LadderFollowed ==
  [][Current => /\ tier' # tier => tier' = Lowest(Above(ladder, tier))
                /\ status' = "dead" /\ status # "dead" => Above(ladder, tier) = {}]_cvars

\* Two connections are enough for an orchestrator: none of its sweeps ever waits
\* for one (src/scale/autoscaler.py:57), although classify and repair_stalled
\* each ask for a second inside their transaction.
TwoAreAmple ==
  \A r \in Threads : Role[Home[r]] = "orchestrator" => ~Waiting(r)

\* Every connection of p is with a thread that waits for another, or for the
\* lock of one that does: nothing but a timeout gets p going again.
Starved(p) ==
  /\ free[p] = 0
  /\ \A r \in Threads : Home[r] = p /\ conns[r] > 0 =>
       \/ Waiting(r)
       \/ Doing(r, "tiers") /\ lock[p] # Nobody

\* A pool can only be starved by the first use of the ladder in the life of its
\* process (src/common/metrics.py:92-96); with the copy filled it never is.
StarvedOnlyCold == \A p \in Processes : Starved(p) => cache[p] = Cold

\* Every call ends, in an answer or in an exception: no wait for the pool, for
\* the ladder's lock or for the admission lock lasts for ever.
CallsEnd == []<>(\A r \in Threads : ~Serving(r))
=============================================================================

--------------------------- MODULE AgentRuntime ----------------------------
(***************************************************************************)
(* The queue and the ledger together: what a worker does with a task from  *)
(* the claim to the checkpoint (process_one of src/worker/main.py around   *)
(* run_task of src/worker/executor.py).  Every step is a step of           *)
(* TaskQueue, a step of Ledger, or one of each at the same time.           *)
(***************************************************************************)
EXTENDS TaskQueue

CONSTANTS
  SideEffects,  \* tasks whose definition is side-effecting
  NoAction      \* what a worker that never ran a side effect ran last

ASSUME SideEffectAssumption == SideEffects \subseteq Tasks /\ NoAction \notin SideEffects

VARIABLES
  ledger, run, effects,  \* as in Ledger; the worker processes execute
  stage,     \* stage[w]: how far process_one of w is with the task it holds
  prior,     \* prior[w]: how many results the context had that load_agent read
  committed  \* committed[t]: the result of t in agents.context

L == INSTANCE Ledger WITH Actions <- SideEffects, Executors <- Workers

lvars == <<ledger, run, effects>>
local == <<stage, prior, committed>>
rvars == <<vars, lvars, local>>

Results == {"none", "real", "unresolved"}

RuntimeInit ==
  /\ Init
  /\ L!Init
  /\ stage = [w \in Workers |-> "fresh"]
  /\ prior = [w \in Workers |-> 0]
  /\ committed = [t \in Tasks |-> "none"]

\* process_one starts afresh with every task.
Forgets(w) ==
  /\ stage' = [stage EXCEPT ![w] = "fresh"]
  /\ prior' = [prior EXCEPT ![w] = 0]

Claims(w, t) ==
  /\ ClaimOne(w, t)
  /\ UNCHANGED <<lvars, local>>

\* load_agent is a transaction of its own, any time after the claim.
Loads(w) ==
  /\ hold[w] # Idle /\ stage[w] = "fresh"
  /\ stage' = [stage EXCEPT ![w] = "loaded"]
  /\ prior' = [prior EXCEPT ![w] = cursor[AgentOf(hold[w].task)]]
  /\ UNCHANGED <<vars, lvars, committed>>

\* ledger.begin, which only a side-effecting task calls.
Begins(w) ==
  /\ hold[w] # Idle /\ stage[w] = "loaded"
  /\ hold[w].task \in SideEffects
  /\ L!Proceed(w, hold[w].task) \/ L!Replay(w, hold[w].task) \/ L!Refuse(w, hold[w].task)
  /\ stage' = [stage EXCEPT ![w] = "guarded"]
  /\ UNCHANGED <<vars, prior, committed>>

Acts_Release(w) ==  \* mutant: a body that raised gives its reservation back
  /\ \/ L!Perform(w) \/ L!Settle(w)
     \/ /\ run[w].step \in L!Acting
        /\ L!Goes(w, "failed", run[w].act, "none")
        /\ ledger' = [ledger EXCEPT ![run[w].act].state = "absent", ![run[w].act].old = FALSE]
        /\ UNCHANGED effects
  /\ UNCHANGED <<vars, local>>
\* The task body, and ledger.settle once it returned.
Acts(w) ==
  /\ L!Perform(w) \/ L!Raise(w) \/ L!Settle(w)
  /\ UNCHANGED <<vars, local>>

\* run_task has a result to return.
BodyReturned_Unsettled(w) ==  \* mutant: the checkpoint does not wait for settle
  IF hold[w].task \in SideEffects
  THEN stage[w] = "guarded" /\ run[w].step \in {"acted", "returned", "replayed"}
  ELSE stage[w] = "loaded"
BodyReturned(w) ==
  IF hold[w].task \in SideEffects
  THEN stage[w] = "guarded" /\ run[w].step \in {"returned", "replayed"}
  ELSE stage[w] = "loaded"

BodyFailed_Silent(w, fc) ==  \* mutant: what the body raised is not reported
  \/ stage[w] = "loaded" /\ (fc = "POISON" \/ hold[w].task \notin SideEffects)
  \/ stage[w] = "guarded" /\ run[w].step = "refused" /\ fc = "INFRA"
\* run_task raises a TaskFailure of class fc: a task id that is not in the registry,
\* a refusal by the ledger, or what the body raised.
BodyFailed(w, fc) ==
  \/ stage[w] = "loaded" /\ (fc = "POISON" \/ hold[w].task \notin SideEffects)
  \/ stage[w] = "guarded" /\ run[w].step = "refused" /\ fc = "INFRA"
  \/ stage[w] = "guarded" /\ run[w].step = "failed"

ResultOf_Real(w) == "real"  \* mutant: a replayed marker is committed as a result
ResultOf(w) ==
  IF hold[w].task \in SideEffects /\ run[w].step = "replayed" THEN run[w].result ELSE "real"

Checkpoints(w) ==
  /\ CheckpointSuccess(w)
  /\ committed' = [committed EXCEPT ![hold[w].task] = ResultOf(w)]
  /\ Forgets(w)
  /\ UNCHANGED lvars

Passes(w) ==
  /\ PassLossCheck(w)
  /\ BodyReturned(w)
  /\ UNCHANGED <<lvars, local>>

\* What follows run_task and commits nothing.
Leaves(w) ==
  /\ \/ DiscardLost(w) /\ BodyReturned(w)
     \/ CheckpointRefused(w)
     \/ \E fc \in FailureClasses : (ReportFailure(w, fc) \/ ReportRefused(w)) /\ BodyFailed(w, fc)
  /\ Forgets(w)
  /\ UNCHANGED <<lvars, committed>>

ProcessStep(w) ==
  Loads(w) \/ Begins(w) \/ Acts(w) \/ Passes(w) \/ Checkpoints(w) \/ Leaves(w)

\* The process dies at any point, in the middle of the body too, or one of its
\* transactions raises.
Dies(w) ==
  /\ Abandon(w)
  /\ IF run[w].step \in L!Acting THEN L!Die(w) ELSE UNCHANGED lvars
  /\ Forgets(w)
  /\ UNCHANGED committed

QueueAlone ==
  /\ \/ AnySubmission
     \/ \E w \in Workers : Renew(w) \/ NoticeLoss(w)
     \/ Orchestrator
     \/ Environment
  /\ UNCHANGED <<lvars, local>>

LedgerAlone ==
  /\ \/ \E k \in SideEffects : L!Age(k)
     \/ \E B \in SUBSET SideEffects : L!Reconcile(B)
  /\ UNCHANGED <<vars, local>>

RuntimeNext ==
  \/ \E w \in Workers : ProcessStep(w) \/ Dies(w) \/ \E t \in Tasks : Claims(w, t)
  \/ QueueAlone
  \/ LedgerAlone

RuntimeSpec == RuntimeInit /\ [][RuntimeNext]_rvars

\* The fairness of the queue and of the ledger.  A worker that lives gets on with
\* the task it holds: tools and database answer.
Alone == UNCHANGED <<lvars, local>>
RuntimeFairness ==
  /\ \A w \in Workers : WF_rvars(ProcessStep(w))
  /\ \A t \in Tasks :
       /\ SF_rvars(\E w \in Workers : Claims(w, t))
       /\ WF_rvars(LeaseRunsOut(t) /\ Alone)
       /\ WF_rvars(BackoffElapses(t) /\ Alone)
       /\ WF_rvars(\E B \in SUBSET Tasks : t \in B /\ Reap(B) /\ Alone)
       /\ WF_rvars(\E B \in SUBSET Tasks : t \in B
                     /\ (\E f \in [B -> Flags] : Classify(B, f)) /\ Alone)
  /\ \A a \in Agents :
       /\ WF_rvars(\E B \in SUBSET Agents : a \in B /\ Repair(B) /\ Alone)
       /\ WF_rvars(\E B \in SUBSET Agents : a \in B /\ Finalise(B) /\ Alone)
  /\ \A k \in SideEffects :
       /\ WF_rvars(L!Age(k) /\ UNCHANGED <<vars, local>>)
       /\ WF_rvars(\E B \in SUBSET SideEffects :
                     k \in B /\ L!Reconcile(B) /\ UNCHANGED <<vars, local>>)

RuntimeFairSpec == RuntimeSpec /\ RuntimeFairness
----------------------------------------------------------------------------
RuntimeTypeOK ==
  /\ stage \in [Workers -> {"fresh", "loaded", "guarded"}]
  /\ prior \in [Workers -> Nat]
  /\ committed \in [Tasks -> Results]

\* What an agent's context says of an external action is so: behind a real result
\* there is exactly one effect, behind a marker an entry the sweep gave up on, and
\* no result is in the context before the ledger can replay it (settle before
\* checkpoint_success).
ContextIsBacked ==
  \A t \in SideEffects : committed[t] # "none" =>
    /\ ledger[t].state = "done"
    /\ committed[t] = "real" => effects[t] = 1
    /\ committed[t] = "unresolved" => ledger[t].result = "unresolved"

\* An agent that completed did each of its external actions exactly once, or says
\* of it that the outcome is unknown: crashes, zombies, refusals, repairs and
\* reconciliations included.
DoneOnceOrFlagged ==
  \A t \in SideEffects :
    agentStatus[AgentOf(t)] = "completed" /\ SeqOf(t) < PlanLen[AgentOf(t)] =>
      effects[t] = 1 \/ committed[t] = "unresolved"

\* "A PROMOTED task receives the SAME `prior` dict as the attempt that failed"
\* (protocol.py:36-37): whoever works on a task sees all results before it, and who
\* may still commit it sees no other.
PriorIsPlanPrefix ==
  \A w \in Workers : hold[w] # Idle /\ stage[w] # "fresh" =>
    /\ prior[w] >= SeqOf(hold[w].task)
    /\ CheckpointFence(w) => prior[w] = SeqOf(hold[w].task)

\* The queue's own specification, with its fairness, and the ledger's.
ImplementsQueue == FairSpec
ImplementsLedger == L!FairSpec
=============================================================================

--------------------------- MODULE RuntimeProofs ---------------------------
(***************************************************************************)
(* Queue and ledger together, for any number of agents, workers and side   *)
(* effects: the composition implements both parts, and what the context of *)
(* an agent says of an external action is true.  Worker ids need not be    *)
(* distinct.                                                               *)
(***************************************************************************)
EXTENDS AgentRuntime, CauseProofs

(* The composition implements its parts. *)

LEMMA ProcessIsQueueStep ==
  ASSUME NEW w \in Workers, ProcessStep(w)
  PROVE WorkerStep(w) \/ UNCHANGED vars
BY DEF ProcessStep, Loads, Begins, Acts, Passes, Checkpoints, Leaves, WorkerStep

LEMMA RuntimeIsQueueStep == [RuntimeNext]_rvars => [Next]_vars
<1> SUFFICES ASSUME [RuntimeNext]_rvars PROVE [Next]_vars
  OBVIOUS
<1>1. CASE UNCHANGED rvars
  BY <1>1 DEF rvars
<1>2. ASSUME NEW w \in Workers, ProcessStep(w) PROVE [Next]_vars
  BY <1>2, ProcessIsQueueStep DEF Next, Worker
<1>3. ASSUME NEW w \in Workers, Dies(w) \/ \E t \in Tasks : Claims(w, t) PROVE [Next]_vars
  BY <1>3 DEF Dies, Claims, Next, Worker
<1>4. CASE QueueAlone
  BY <1>4 DEF QueueAlone, Next, Worker
<1>5. CASE LedgerAlone
  BY <1>5 DEF LedgerAlone
<1> QED
  BY <1>1, <1>2, <1>3, <1>4, <1>5 DEF RuntimeNext

LEMMA RuntimeIsLedgerStep == [RuntimeNext]_rvars => [L!Next]_(L!lvars)
<1> SUFFICES ASSUME [RuntimeNext]_rvars PROVE L!Next \/ UNCHANGED lvars
  BY DEF L!lvars, lvars
<1>1. CASE UNCHANGED rvars
  BY <1>1 DEF rvars
<1>2. ASSUME NEW w \in Workers, Begins(w) PROVE L!Next
  BY <1>2 DEF Begins, L!Next, L!RunTask
<1>3. ASSUME NEW w \in Workers, Acts(w) PROVE L!Next
  BY <1>3 DEF Acts, L!Next, L!RunTask
<1>4. ASSUME NEW w \in Workers, Dies(w) PROVE L!Next \/ UNCHANGED lvars
  BY <1>4 DEF Dies, L!Next, L!RunTask
<1>5. ASSUME NEW w \in Workers, Loads(w) \/ Passes(w) \/ Checkpoints(w) \/ Leaves(w)
      PROVE UNCHANGED lvars
  BY <1>5 DEF Loads, Passes, Checkpoints, Leaves
<1>6. ASSUME NEW w \in Workers, NEW t \in Tasks, Claims(w, t) PROVE UNCHANGED lvars
  BY <1>6 DEF Claims
<1>7. CASE QueueAlone
  BY <1>7 DEF QueueAlone
<1>8. CASE LedgerAlone
  BY <1>8 DEF LedgerAlone, L!Next
<1> QED
  BY <1>1, <1>2, <1>3, <1>4, <1>5, <1>6, <1>7, <1>8 DEF RuntimeNext, ProcessStep

\* The composition does nothing to the tables of the queue that the queue's own
\* specification does not allow; all that is proved of the queue holds of it.
THEOREM RuntimeImplementsQueue == RuntimeSpec => Spec
<1>1. RuntimeInit => Init
  BY DEF RuntimeInit
<1> QED
  BY <1>1, RuntimeIsQueueStep, PTL DEF RuntimeSpec, Spec

\* Nor does it do anything to the ledger that the ledger's specification does not
\* allow: each worker is one of its executors.
THEOREM RuntimeImplementsLedger == RuntimeSpec => L!Spec
<1>1. RuntimeInit => L!Init
  BY DEF RuntimeInit
<1> QED
  BY <1>1, RuntimeIsLedgerStep, PTL DEF RuntimeSpec, L!Spec

\* The tasks of a plan commit in order in the composition too.
THEOREM RuntimeCommitsInOrder == RuntimeSpec => []CommittedPrefix
<1> QED
  BY RuntimeImplementsQueue, CommittedPrefixHolds, PTL

\* Whatever the ledger answers a worker, and however often it makes one fail: with
\* distinct ids the fence is exact, a task commits once, a tier left is paid for, and
\* no budget is exceeded.
THEOREM RuntimeEvidenceHolds ==
  ASSUME IdsDistinct
  PROVE RuntimeSpec => []FenceExact /\ []OneCommitPerTask /\ []PromotionPaid /\ []BudgetsHold
<1> QED
  BY RuntimeImplementsQueue, FenceExactHolds, OneCommitPerTaskHolds, PromotionPaidHolds,
     BudgetsHoldHolds, PTL

\* Without that hypothesis a task still commits once and keeps its limit on
\* infrastructure failures, the ledger's refusals, which count as such, included.
THEOREM RuntimeSharedIdsBounded == RuntimeSpec => [](OneCommitSomewhere /\ InfraBudgetHolds)
<1> QED
  BY RuntimeImplementsQueue, SharedIdsBounded, PTL

\* Nothing the ledger answers dead-letters a task without a cause.
THEOREM RuntimeKilledForCause ==
  ASSUME FlagsNormal
  PROVE RuntimeSpec => []KilledForCause
<1> QED
  BY RuntimeImplementsQueue, KilledForCauseHolds, PTL

----------------------------------------------------------------------------
(* What the ledger guarantees the worker that asks it. *)

\* Who acts holds a reservation of its own, and no effect has happened before it
\* acts; what the ledger says of an effect is so.
ReservedOnce ==
  /\ \A e \in Workers : run[e].step \in L!Acting =>
       run[e].act \in SideEffects /\ ledger[run[e].act].state # "absent"
  /\ \A e, f \in Workers :
       run[e].step \in L!Acting /\ run[f].step \in L!Acting /\ run[e].act = run[f].act => e = f
  /\ \A e \in Workers :
       /\ run[e].step = "acting" => effects[run[e].act] = 0
       /\ run[e].step = "acted" => effects[run[e].act] = 1
  /\ \A k \in SideEffects :
       /\ ledger[k].state = "absent" => effects[k] = 0
       /\ ledger[k].result = "real" => effects[k] = 1

\* What an execution brought back is settled.
AnswerSettled ==
  \A e \in Workers : run[e].step \in {"returned", "replayed"} =>
    /\ run[e].act \in SideEffects
    /\ ledger[run[e].act].state = "done"
    /\ run[e].step = "returned" => effects[run[e].act] = 1
    /\ run[e].step = "replayed" => run[e].result = ledger[run[e].act].result

GuardInv == L!TypeOK /\ L!AtMostOneEffect /\ ReservedOnce /\ AnswerSettled

\* What is settled stays as it is, and an effect that happened happens no second time.
Settles ==
  \A k \in SideEffects :
    /\ ledger[k].state = "done" => ledger'[k] = ledger[k]
    /\ effects[k] = 1 => effects'[k] = 1

LEMMA GuardInit == L!Init => GuardInv
BY DEF L!Init, GuardInv, L!TypeOK, L!AtMostOneEffect, L!Entry, L!Run, L!Acting, L!Ended,
       ReservedOnce, AnswerSettled

LEMMA RunGoes ==
  ASSUME L!TypeOK, NEW e \in Workers, NEW s \in L!Acting \cup L!Ended,
         NEW k \in SideEffects, NEW r \in Results, L!Goes(e, s, k, r)
  PROVE /\ run' \in [Workers -> L!Run]
        /\ run'[e] = [step |-> s, act |-> k, result |-> r]
        /\ \A f \in Workers \ {e} : run'[f] = run[f]
BY DEF L!Goes, L!TypeOK, L!Run, Results

LEMMA GuardProceed ==
  ASSUME GuardInv, NEW e \in Workers, NEW k \in SideEffects, L!Proceed(e, k)
  PROVE GuardInv' /\ Settles
<1>1. /\ run' \in [Workers -> L!Run]
      /\ run'[e] = [step |-> "acting", act |-> k, result |-> "none"]
      /\ \A f \in Workers \ {e} : run'[f] = run[f]
  BY RunGoes DEF GuardInv, L!Proceed, L!Acting, L!Ended, Results
<1>2. /\ ledger[k].state = "absent"
      /\ ledger' \in [SideEffects -> L!Entry]
      /\ ledger'[k] = [state |-> "in_flight", result |-> "none", old |-> FALSE]
      /\ \A j \in SideEffects \ {k} : ledger'[j] = ledger[j]
  BY DEF GuardInv, L!TypeOK, L!Proceed, L!Vacant, L!Entry
<1>3. effects' = effects
  BY DEF L!Proceed
<1>4. L!TypeOK' /\ L!AtMostOneEffect' /\ Settles
  BY <1>1, <1>2, <1>3 DEF GuardInv, L!TypeOK, L!AtMostOneEffect, Settles
<1>5. ReservedOnce'
  BY <1>1, <1>2, <1>3 DEF GuardInv, ReservedOnce, L!Acting
<1>6. AnswerSettled'
  BY <1>1, <1>2, <1>3 DEF GuardInv, AnswerSettled
<1> QED
  BY <1>4, <1>5, <1>6 DEF GuardInv

\* An execution that ends without touching table or world.
LEMMA GuardEnd ==
  ASSUME GuardInv, NEW e \in Workers, NEW s \in L!Ended \ {"returned"}, NEW k \in SideEffects,
         NEW r \in Results, L!Goes(e, s, k, r), UNCHANGED <<ledger, effects>>,
         s = "replayed" => ledger[k].state = "done" /\ ledger[k].result = r
  PROVE GuardInv' /\ Settles
<1>1. /\ run' \in [Workers -> L!Run]
      /\ run'[e] = [step |-> s, act |-> k, result |-> r]
      /\ \A f \in Workers \ {e} : run'[f] = run[f]
  BY RunGoes DEF GuardInv
<1>2. s \notin L!Acting /\ s # "returned"
  BY DEF L!Acting, L!Ended
<1>3. L!TypeOK' /\ L!AtMostOneEffect' /\ Settles
  BY <1>1 DEF GuardInv, L!TypeOK, L!AtMostOneEffect, Settles
<1>4. ReservedOnce'
  BY <1>1, <1>2 DEF GuardInv, ReservedOnce, L!Acting
<1>5. AnswerSettled'
  BY <1>1, <1>2 DEF GuardInv, AnswerSettled
<1> QED
  BY <1>3, <1>4, <1>5 DEF GuardInv

LEMMA GuardPerform ==
  ASSUME GuardInv, NEW e \in Workers, L!Perform(e)
  PROVE GuardInv' /\ Settles
<1> DEFINE k == run[e].act
<1>0. run[e].step = "acting" /\ k \in SideEffects /\ ledger[k].state # "absent" /\ effects[k] = 0
  BY DEF GuardInv, ReservedOnce, L!Perform, L!Acting
<1>1. /\ run' \in [Workers -> L!Run]
      /\ run'[e] = [step |-> "acted", act |-> k, result |-> "none"]
      /\ \A f \in Workers \ {e} : run'[f] = run[f]
  BY <1>0, RunGoes DEF GuardInv, L!Perform, L!Acting, L!Ended, Results
<1>2. /\ effects' \in [SideEffects -> Nat]
      /\ effects'[k] = 1
      /\ \A j \in SideEffects \ {k} : effects'[j] = effects[j]
  BY <1>0 DEF GuardInv, L!TypeOK, L!Perform
<1>3. ledger' = ledger
  BY DEF L!Perform
<1>4. \A f \in Workers \ {e} : run[f].step \in L!Acting => run[f].act # k
  BY <1>0 DEF GuardInv, ReservedOnce, L!Acting
<1>5. L!TypeOK' /\ L!AtMostOneEffect' /\ Settles
  BY <1>0, <1>1, <1>2, <1>3 DEF GuardInv, L!TypeOK, L!AtMostOneEffect, Settles
<1>6. ReservedOnce'
  BY <1>0, <1>1, <1>2, <1>3, <1>4 DEF GuardInv, ReservedOnce, L!Acting
<1>7. AnswerSettled'
  BY <1>0, <1>1, <1>2, <1>3 DEF GuardInv, AnswerSettled
<1> QED
  BY <1>5, <1>6, <1>7 DEF GuardInv

LEMMA GuardSettle ==
  ASSUME GuardInv, NEW e \in Workers, L!Settle(e)
  PROVE GuardInv' /\ Settles
<1> DEFINE k == run[e].act
<1>0. run[e].step = "acted" /\ k \in SideEffects /\ ledger[k].state # "absent" /\ effects[k] = 1
  BY DEF GuardInv, ReservedOnce, L!Settle, L!Acting
<1>1. /\ run' \in [Workers -> L!Run]
      /\ run'[e] = [step |-> "returned", act |-> k, result |-> "real"]
      /\ \A f \in Workers \ {e} : run'[f] = run[f]
  BY <1>0, RunGoes DEF GuardInv, L!Settle, L!Acting, L!Ended, Results
<1>2. /\ ledger' \in [SideEffects -> L!Entry]
      /\ ledger'[k].state = "done"
      /\ ledger[k].state = "done" => ledger'[k] = ledger[k]
      /\ \A j \in SideEffects \ {k} : ledger'[j] = ledger[j]
  BY <1>0 DEF GuardInv, L!TypeOK, L!Settle, L!Settled, L!Entry
<1>3. effects' = effects
  BY DEF L!Settle
<1>4. L!TypeOK' /\ L!AtMostOneEffect' /\ Settles
  BY <1>1, <1>2, <1>3 DEF GuardInv, L!TypeOK, L!AtMostOneEffect, Settles
<1>5. ReservedOnce'
  BY <1>0, <1>1, <1>2, <1>3 DEF GuardInv, ReservedOnce, L!Acting
<1>6. AnswerSettled'
  BY <1>0, <1>1, <1>2, <1>3 DEF GuardInv, AnswerSettled
<1> QED
  BY <1>4, <1>5, <1>6 DEF GuardInv

\* Age and Reconcile touch reservations only, and settle none as real.
LEMMA GuardSweep ==
  ASSUME GuardInv, UNCHANGED <<run, effects>>, ledger' \in [SideEffects -> L!Entry],
         \A k \in SideEffects :
           \/ ledger'[k] = ledger[k]
           \/ /\ ledger[k].state = "in_flight"
              /\ ledger'[k].state # "absent" /\ ledger'[k].result # "real"
  PROVE GuardInv' /\ Settles
<1>1. L!TypeOK' /\ L!AtMostOneEffect' /\ Settles
  BY DEF GuardInv, L!TypeOK, L!AtMostOneEffect, Settles
<1>2. ReservedOnce'
  BY DEF GuardInv, ReservedOnce
<1>3. AnswerSettled'
  BY DEF GuardInv, AnswerSettled
<1> QED
  BY <1>1, <1>2, <1>3 DEF GuardInv

LEMMA GuardStep ==
  ASSUME GuardInv, [L!Next]_(L!lvars)
  PROVE GuardInv' /\ Settles
<1>1. ASSUME NEW e \in Workers, L!RunTask(e) PROVE GuardInv' /\ Settles
  <2>1. ASSUME NEW k \in SideEffects, L!Replay(e, k) PROVE GuardInv' /\ Settles
    <3>1. ledger[k].result \in Results
      BY DEF GuardInv, L!TypeOK, L!Entry, Results
    <3> QED
      BY <2>1, <3>1, GuardEnd DEF L!Replay, L!Ended
  <2>2. ASSUME NEW k \in SideEffects, L!Refuse(e, k) PROVE GuardInv' /\ Settles
    BY <2>2, GuardEnd DEF L!Refuse, L!Ended, Results
  <2>3. ASSUME run[e].step \in L!Acting PROVE run[e].act \in SideEffects
    BY <2>3 DEF GuardInv, ReservedOnce
  <2>4. CASE L!Raise(e)
    BY <2>3, <2>4, GuardEnd DEF L!Raise, L!Ended, Results
  <2>5. CASE L!Die(e)
    BY <2>3, <2>5, GuardEnd DEF L!Die, L!Ended, Results
  <2> QED
    BY <1>1, <2>1, <2>2, <2>4, <2>5, GuardProceed, GuardPerform, GuardSettle DEF L!RunTask
<1>2. ASSUME NEW k \in SideEffects, L!Age(k) PROVE GuardInv' /\ Settles
  <2>1. UNCHANGED <<run, effects>>
    BY <1>2 DEF L!Age
  <2>2. /\ ledger' \in [SideEffects -> L!Entry]
        /\ \A j \in SideEffects :
             \/ ledger'[j] = ledger[j]
             \/ /\ ledger[j].state = "in_flight" /\ ledger'[j].state = "in_flight"
                /\ ledger'[j].result = "none"
    BY <1>2 DEF GuardInv, L!TypeOK, L!Age, L!Entry
  <2> QED
    BY <2>1, <2>2, GuardSweep
<1>3. ASSUME NEW B \in SUBSET SideEffects, L!Reconcile(B) PROVE GuardInv' /\ Settles
  <2>1. UNCHANGED <<run, effects>>
    BY <1>3 DEF L!Reconcile
  <2>2. /\ ledger' \in [SideEffects -> L!Entry]
        /\ \A k \in B : ledger[k].state = "in_flight" /\ ledger'[k].state = "done"
                        /\ ledger'[k].result = "unresolved"
        /\ \A k \in SideEffects \ B : ledger'[k] = ledger[k]
    BY <1>3 DEF GuardInv, L!TypeOK, L!Reconcile, L!Orphaned, L!Entry
  <2> QED
    BY <2>1, <2>2, GuardSweep
<1>4. CASE UNCHANGED L!lvars
  BY <1>4 DEF L!lvars, GuardInv, L!TypeOK, L!AtMostOneEffect, ReservedOnce, AnswerSettled, Settles
<1> QED
  BY <1>1, <1>2, <1>3, <1>4 DEF L!Next

LEMMA GuardInvariant == L!Spec => []GuardInv
<1> QED
  BY GuardInit, GuardStep, PTL DEF L!Spec
----------------------------------------------------------------------------
(* Worker and ledger together. *)

\* What process_one of w knows agrees with what run_task of w did, and what it has
\* read of the context is no older than its claim.
WorkerInv(w) ==
  /\ hold[w] = Idle => stage[w] = "fresh"
  /\ run[w].step \in L!Acting => stage[w] = "guarded"
  /\ stage[w] = "guarded" => hold[w].task \in SideEffects /\ run[w].act = hold[w].task
  /\ hold[w] # Idle /\ hold[w].phase = "commit" => BodyReturned(w)
  /\ hold[w] # Idle => SeqOf(hold[w].task) <= cursor[AgentOf(hold[w].task)]
  /\ hold[w] # Idle /\ stage[w] # "fresh" =>
       prior[w] \in SeqOf(hold[w].task) .. cursor[AgentOf(hold[w].task)]

\* The context holds the results of the committed prefix.
ContextIsPrefix ==
  \A t \in Tasks : committed[t] # "none" <=> SeqOf(t) < cursor[AgentOf(t)]

RuntimeInv ==
  /\ TypeOK
  /\ RuntimeTypeOK
  /\ GuardInv
  /\ \A w \in Workers : WorkerInv(w)
  /\ ContextIsPrefix
  /\ ContextIsBacked

SameWork(v) ==
  /\ stage'[v] = stage[v] /\ prior'[v] = prior[v] /\ run'[v] = run[v]
  /\ hold[v] = Idle => hold'[v] = Idle
  /\ hold[v] # Idle =>
       hold'[v] # Idle /\ hold'[v].task = hold[v].task /\ hold'[v].phase = hold[v].phase

CursorKept == \A a \in Agents : cursor'[a] >= cursor[a]

LEMMA HeldTask ==
  ASSUME TypeOK, NEW w \in Workers, hold[w] # Idle
  PROVE /\ hold[w] \in Claim /\ hold[w].task \in Tasks
        /\ AgentOf(hold[w].task) \in Agents /\ SeqOf(hold[w].task) \in Nat
        /\ cursor[AgentOf(hold[w].task)] \in Nat
<1>1. hold[w] \in Claim /\ hold[w].task \in Tasks
  BY DEF TypeOK, Claim
<1> QED
  BY <1>1, TaskIdentity DEF TypeOK

LEMMA WorkKept ==
  ASSUME RuntimeInv, TypeOK', NEW v \in Workers, SameWork(v), CursorKept
  PROVE WorkerInv(v)'
<1>1. WorkerInv(v)
  BY DEF RuntimeInv
<1>2. CASE hold[v] = Idle
  BY <1>1, <1>2 DEF WorkerInv, SameWork
<1>3. CASE hold[v] # Idle
  <2>1. /\ AgentOf(hold[v].task) \in Agents /\ SeqOf(hold[v].task) \in Nat
        /\ cursor[AgentOf(hold[v].task)] \in Nat /\ cursor'[AgentOf(hold[v].task)] \in Nat
    BY <1>3, HeldTask DEF RuntimeInv, TypeOK
  <2>2. cursor'[AgentOf(hold[v].task)] >= cursor[AgentOf(hold[v].task)]
    BY <2>1 DEF CursorKept
  <2> QED
    BY <1>1, <1>3, <2>1, <2>2 DEF WorkerInv, SameWork, BodyReturned
<1> QED
  BY <1>2, <1>3

LEMMA OthersKept ==
  ASSUME RuntimeInv, TypeOK', NEW w \in Workers, CursorKept,
         \A v \in Workers \ {w} :
           /\ stage'[v] = stage[v] /\ prior'[v] = prior[v]
           /\ run'[v] = run[v] /\ hold'[v] = hold[v]
  PROVE \A v \in Workers \ {w} : WorkerInv(v)'
<1> TAKE v \in Workers \ {w}
<1>1. SameWork(v)
  BY DEF SameWork
<1> QED
  BY <1>1, WorkKept

\* A step that commits nothing keeps the context true.
LEMMA ContextKept ==
  ASSUME RuntimeInv, Settles, UNCHANGED <<committed, cursor>>
  PROVE ContextIsPrefix' /\ ContextIsBacked'
<1>1. ContextIsPrefix'
  BY DEF RuntimeInv, ContextIsPrefix
<1>2. ContextIsBacked'
  BY DEF RuntimeInv, ContextIsBacked, Settles
<1> QED
  BY <1>1, <1>2

\* The worker lets go of its task and starts afresh.
LEMMA WorkEnds ==
  ASSUME RuntimeInv, NEW w \in Workers, hold'[w] = Idle, Forgets(w),
         run'[w].step \notin L!Acting
  PROVE WorkerInv(w)'
<1>1. stage'[w] = "fresh"
  BY DEF RuntimeInv, RuntimeTypeOK, Forgets
<1> QED
  BY <1>1 DEF WorkerInv

LEMMA RuntimeInitInv == RuntimeInit => RuntimeInv
<1> SUFFICES ASSUME RuntimeInit PROVE RuntimeInv
  OBVIOUS
<1>1. TypeOK /\ GuardInv
  BY TypeInit, GuardInit DEF RuntimeInit
<1>2. RuntimeTypeOK
  BY DEF RuntimeInit, RuntimeTypeOK, Results
<1>3. \A w \in Workers : WorkerInv(w)
  BY DEF RuntimeInit, Init, L!Init, WorkerInv, L!Acting
<1>4. ContextIsPrefix /\ ContextIsBacked
  <2>1. \A t \in Tasks : AgentOf(t) \in Agents /\ SeqOf(t) \in Nat
    BY TaskIdentity
  <2> QED
    BY <2>1, SideEffectAssumption DEF RuntimeInit, Init, ContextIsPrefix, ContextIsBacked
<1> QED
  BY <1>1, <1>2, <1>3, <1>4 DEF RuntimeInv

\* What is to be shown of every step, once queue and ledger are known to keep theirs.
RuntimeKept ==
  /\ RuntimeTypeOK'
  /\ \A w \in Workers : WorkerInv(w)'
  /\ ContextIsPrefix'
  /\ ContextIsBacked'

LEMMA ClaimsKeeps ==
  ASSUME RuntimeInv, TypeOK', Settles, NEW w \in Workers, NEW t \in Tasks, Claims(w, t)
  PROVE RuntimeKept
<1>1. /\ hold[w] = Idle /\ AtCursor(t)
      /\ hold' = [hold EXCEPT ![w] = [task |-> t, gen |-> gen[t], tier |-> row[t].tier,
                    attempt |-> row[t].attempt + 1, lost |-> FALSE, phase |-> "run"]]
      /\ UNCHANGED <<cursor, run, stage, prior, committed>>
  BY DEF Claims, ClaimOne, Claimable, lvars, local
<1>2. /\ hold'[w].task = t /\ hold'[w].phase = "run"
      /\ \A v \in Workers \ {w} : hold'[v] = hold[v]
  BY <1>1 DEF RuntimeInv, TypeOK
<1>3. SeqOf(t) = cursor[AgentOf(t)] /\ AgentOf(t) \in Agents /\ SeqOf(t) \in Nat
  BY <1>1, TaskIdentity DEF AtCursor
<1>4. CursorKept
  BY <1>1 DEF RuntimeInv, TypeOK, CursorKept
<1>5. \A v \in Workers \ {w} : WorkerInv(v)'
  BY <1>1, <1>2, <1>4, OthersKept
<1>6. WorkerInv(w)'
  BY <1>1, <1>2, <1>3 DEF RuntimeInv, WorkerInv
<1>7. RuntimeTypeOK'
  BY <1>1 DEF RuntimeInv, RuntimeTypeOK
<1> QED
  BY <1>1, <1>5, <1>6, <1>7, ContextKept DEF RuntimeKept

LEMMA LoadsKeeps ==
  ASSUME RuntimeInv, TypeOK', Settles, NEW w \in Workers, Loads(w)
  PROVE RuntimeKept
<1>1. /\ hold[w] # Idle /\ stage[w] = "fresh"
      /\ stage' = [stage EXCEPT ![w] = "loaded"]
      /\ prior' = [prior EXCEPT ![w] = cursor[AgentOf(hold[w].task)]]
      /\ UNCHANGED <<cursor, hold, run, committed>>
  BY DEF Loads, vars, lvars
<1>2. /\ AgentOf(hold[w].task) \in Agents /\ SeqOf(hold[w].task) \in Nat
      /\ cursor[AgentOf(hold[w].task)] \in Nat
  BY <1>1, HeldTask DEF RuntimeInv
<1>3. RuntimeTypeOK'
  BY <1>1, <1>2 DEF RuntimeInv, RuntimeTypeOK
<1>4. /\ stage'[w] = "loaded" /\ prior'[w] = cursor[AgentOf(hold[w].task)]
      /\ \A v \in Workers \ {w} : stage'[v] = stage[v] /\ prior'[v] = prior[v]
  BY <1>1 DEF RuntimeInv, RuntimeTypeOK
<1>5. CursorKept
  BY <1>1 DEF RuntimeInv, TypeOK, CursorKept
<1>6. \A v \in Workers \ {w} : WorkerInv(v)'
  BY <1>1, <1>4, <1>5, OthersKept
<1>7. WorkerInv(w)'
  <2>1. hold[w].phase # "commit"
    BY <1>1 DEF RuntimeInv, WorkerInv, BodyReturned
  <2> QED
    BY <1>1, <1>2, <1>4, <2>1 DEF RuntimeInv, WorkerInv
<1> QED
  BY <1>1, <1>3, <1>6, <1>7, ContextKept DEF RuntimeKept

LEMMA BeginsKeeps ==
  ASSUME RuntimeInv, TypeOK', Settles, NEW w \in Workers, Begins(w)
  PROVE RuntimeKept
<1> DEFINE k == hold[w].task
<1>1. /\ hold[w] # Idle /\ stage[w] = "loaded" /\ k \in SideEffects
      /\ stage' = [stage EXCEPT ![w] = "guarded"]
      /\ UNCHANGED <<cursor, hold, prior, committed>>
  BY DEF Begins, vars
<1>2. /\ run'[w].act = k
      /\ \A v \in Workers \ {w} : run'[v] = run[v]
  <2>1. PICK s \in {"acting", "replayed", "refused"} : \E r : L!Goes(w, s, k, r)
    BY DEF Begins, L!Proceed, L!Replay, L!Refuse
  <2> QED
    BY <2>1 DEF L!Goes, RuntimeInv, GuardInv, L!TypeOK
<1>3. /\ stage'[w] = "guarded"
      /\ \A v \in Workers \ {w} : stage'[v] = stage[v]
  BY <1>1 DEF RuntimeInv, RuntimeTypeOK
<1>4. RuntimeTypeOK'
  BY <1>1 DEF RuntimeInv, RuntimeTypeOK
<1>5. CursorKept
  BY <1>1 DEF RuntimeInv, TypeOK, CursorKept
<1>6. \A v \in Workers \ {w} : WorkerInv(v)'
  BY <1>1, <1>2, <1>3, <1>5, OthersKept
<1>7. WorkerInv(w)'
  <2>1. hold[w].phase # "commit"
    BY <1>1 DEF RuntimeInv, WorkerInv, BodyReturned
  <2> QED
    BY <1>1, <1>2, <1>3, <2>1 DEF RuntimeInv, WorkerInv
<1> QED
  BY <1>1, <1>4, <1>6, <1>7, ContextKept DEF RuntimeKept

LEMMA ActsKeeps ==
  ASSUME RuntimeInv, TypeOK', Settles, NEW w \in Workers, Acts(w)
  PROVE RuntimeKept
<1>1. UNCHANGED <<cursor, hold, stage, prior, committed>>
  BY DEF Acts, vars, local
<1>2. run[w].step \in L!Acting
  BY DEF Acts, L!Perform, L!Raise, L!Settle, L!Acting
<1>3. /\ run'[w].act = run[w].act
      /\ \A v \in Workers \ {w} : run'[v] = run[v]
  <2>1. PICK s \in {"acted", "failed", "returned"} : \E r : L!Goes(w, s, run[w].act, r)
    BY DEF Acts, L!Perform, L!Raise, L!Settle
  <2> QED
    BY <2>1 DEF L!Goes, RuntimeInv, GuardInv, L!TypeOK
<1>4. stage[w] = "guarded" /\ hold[w].task \in SideEffects /\ run[w].act = hold[w].task
  BY <1>2 DEF RuntimeInv, WorkerInv
<1>5. hold[w] = Idle \/ hold[w].phase # "commit"
  <2>1. run[w].step \notin {"returned", "replayed"}
    BY <1>2 DEF L!Acting
  <2> QED
    BY <1>4, <2>1 DEF RuntimeInv, WorkerInv, BodyReturned
<1>6. RuntimeTypeOK'
  BY <1>1 DEF RuntimeInv, RuntimeTypeOK
<1>7. CursorKept
  BY <1>1 DEF RuntimeInv, TypeOK, CursorKept
<1>8. \A v \in Workers \ {w} : WorkerInv(v)'
  BY <1>1, <1>3, <1>7, OthersKept
<1>9. WorkerInv(w)'
  BY <1>1, <1>3, <1>4, <1>5 DEF RuntimeInv, WorkerInv
<1> QED
  BY <1>1, <1>6, <1>8, <1>9, ContextKept DEF RuntimeKept

LEMMA PassesKeeps ==
  ASSUME RuntimeInv, TypeOK', Settles, NEW w \in Workers, Passes(w)
  PROVE RuntimeKept
<1>1. /\ hold[w] # Idle /\ BodyReturned(w)
      /\ hold' = [hold EXCEPT ![w].phase = "commit"]
      /\ UNCHANGED <<cursor, run, stage, prior, committed>>
  BY DEF Passes, PassLossCheck, lvars, local
<1>2. hold[w] \in Claim
  BY <1>1, HeldTask DEF RuntimeInv
<1>3. /\ hold'[w] # Idle /\ hold'[w].task = hold[w].task
      /\ \A v \in Workers \ {w} : hold'[v] = hold[v]
  <2>1. hold'[w] = [hold[w] EXCEPT !.phase = "commit"]
    BY <1>1 DEF RuntimeInv, TypeOK
  <2>2. hold'[w] \in Claim
    BY <1>2, <2>1 DEF Claim
  <2> QED
    BY <1>1, <1>2, <2>1, <2>2, WorkerAssumption DEF RuntimeInv, TypeOK, Claim
<1>4. RuntimeTypeOK'
  BY <1>1 DEF RuntimeInv, RuntimeTypeOK
<1>5. CursorKept
  BY <1>1 DEF RuntimeInv, TypeOK, CursorKept
<1>6. \A v \in Workers \ {w} : WorkerInv(v)'
  BY <1>1, <1>3, <1>5, OthersKept
<1>7. WorkerInv(w)'
  BY <1>1, <1>3 DEF RuntimeInv, WorkerInv, BodyReturned
<1> QED
  BY <1>1, <1>4, <1>6, <1>7, ContextKept DEF RuntimeKept

\* The one step that writes the context: what it writes is what the ledger holds.
LEMMA CheckpointsKeeps ==
  ASSUME RuntimeInv, TypeOK', Settles, NEW w \in Workers, Checkpoints(w)
  PROVE RuntimeKept
<1> DEFINE t == hold[w].task
           a == AgentOf(t)
<1>1. /\ hold[w] # Idle /\ hold[w].phase = "commit" /\ AtCursor(t)
      /\ cursor' = [cursor EXCEPT ![a] = @ + 1]
      /\ hold' = [hold EXCEPT ![w] = Idle]
      /\ committed' = [committed EXCEPT ![t] = ResultOf(w)]
      /\ Forgets(w) /\ UNCHANGED <<ledger, run, effects>>
  BY DEF Checkpoints, CheckpointSuccess, CheckpointFence, Drop, lvars
<1>2. t \in Tasks /\ a \in Agents /\ SeqOf(t) \in Nat /\ cursor[a] = SeqOf(t)
  BY <1>1, HeldTask DEF RuntimeInv, AtCursor
<1>3. BodyReturned(w) /\ run[w].step \notin L!Acting
  <2>1. BodyReturned(w)
    BY <1>1 DEF RuntimeInv, WorkerInv
  <2> QED
    BY <2>1 DEF BodyReturned, RuntimeInv, WorkerInv, L!Acting
<1>4. /\ ResultOf(w) \in {"real", "unresolved"}
      /\ t \in SideEffects =>
           /\ ledger[t].state = "done"
           /\ ResultOf(w) = "real" => effects[t] = 1
           /\ ResultOf(w) = "unresolved" => ledger[t].result = "unresolved"
  <2>1. CASE t \notin SideEffects
    BY <2>1 DEF ResultOf
  <2>2. CASE t \in SideEffects
    <3>1. run[w].step \in {"returned", "replayed"} /\ run[w].act = t
      BY <1>3, <2>2 DEF BodyReturned, RuntimeInv, WorkerInv
    <3>2. /\ ledger[t].state = "done"
          /\ run[w].step = "returned" => effects[t] = 1
          /\ run[w].step = "replayed" => run[w].result = ledger[t].result
      BY <3>1 DEF RuntimeInv, GuardInv, AnswerSettled
    <3>3. ledger[t].result \in {"real", "unresolved"}
      BY <2>2, <3>2 DEF RuntimeInv, GuardInv, L!TypeOK, L!Entry
    <3>4. ledger[t].result = "real" => effects[t] = 1
      BY <2>2 DEF RuntimeInv, GuardInv, ReservedOnce
    <3> QED
      BY <2>2, <3>1, <3>2, <3>3, <3>4 DEF ResultOf
  <2> QED
    BY <2>1, <2>2
<1>5. RuntimeTypeOK'
  <2>1. stage' \in [Workers -> {"fresh", "loaded", "guarded"}] /\ prior' \in [Workers -> Nat]
    BY <1>1 DEF RuntimeInv, RuntimeTypeOK, Forgets
  <2>2. ResultOf(w) \in Results
    BY <1>4 DEF Results
  <2>3. committed' \in [Tasks -> Results]
    BY <1>1, <2>2 DEF RuntimeInv, RuntimeTypeOK
  <2> QED
    BY <2>1, <2>3 DEF RuntimeTypeOK
<1>6. CursorKept
  BY <1>1, <1>2 DEF RuntimeInv, TypeOK, CursorKept
<1>7. \A v \in Workers \ {w} : /\ stage'[v] = stage[v] /\ prior'[v] = prior[v]
                               /\ run'[v] = run[v] /\ hold'[v] = hold[v]
  BY <1>1 DEF RuntimeInv, RuntimeTypeOK, TypeOK, Forgets
<1>8. \A v \in Workers \ {w} : WorkerInv(v)'
  BY <1>6, <1>7, OthersKept
<1>9. WorkerInv(w)'
  BY <1>1, <1>3, WorkEnds DEF RuntimeInv, TypeOK
<1>10. /\ committed'[t] = ResultOf(w)
       /\ \A u \in Tasks \ {t} : committed'[u] = committed[u]
  BY <1>1, <1>2 DEF RuntimeInv, RuntimeTypeOK
<1>11. ContextIsPrefix'
  <2> SUFFICES ASSUME NEW u \in Tasks
               PROVE committed'[u] # "none" <=> SeqOf(u) < cursor'[AgentOf(u)]
    BY DEF ContextIsPrefix
  <2>1. AgentOf(u) \in Agents /\ SeqOf(u) \in Nat /\ (AgentOf(u) = a /\ SeqOf(u) = SeqOf(t) => u = t)
    BY <1>2, TaskIdentity
  <2>2. committed[u] # "none" <=> SeqOf(u) < cursor[AgentOf(u)]
    BY DEF RuntimeInv, ContextIsPrefix
  <2>3. CASE u = t
    <3>1. cursor'[a] = SeqOf(t) + 1 /\ committed'[t] # "none"
      BY <1>1, <1>2, <1>4, <1>10 DEF RuntimeInv, TypeOK
    <3> QED
      BY <1>2, <2>3, <3>1
  <2>4. CASE u # t /\ AgentOf(u) = a
    <3>1. SeqOf(u) # SeqOf(t) /\ cursor'[a] = cursor[a] + 1
      BY <1>1, <1>2, <2>1, <2>4 DEF RuntimeInv, TypeOK
    <3> QED
      BY <1>2, <1>10, <2>1, <2>2, <2>4, <3>1
  <2>5. CASE AgentOf(u) # a
    <3>1. cursor'[AgentOf(u)] = cursor[AgentOf(u)] /\ u # t
      BY <1>1, <2>1, <2>5 DEF RuntimeInv, TypeOK
    <3> QED
      BY <1>10, <2>2, <3>1
  <2> QED
    BY <2>3, <2>4, <2>5
<1>12. ContextIsBacked'
  <2> SUFFICES ASSUME NEW u \in SideEffects, committed'[u] # "none"
               PROVE /\ ledger[u].state = "done"
                     /\ committed'[u] = "real" => effects[u] = 1
                     /\ committed'[u] = "unresolved" => ledger[u].result = "unresolved"
    BY <1>1 DEF ContextIsBacked
  <2>1. CASE u = t
    <3>1. t \in SideEffects /\ committed'[u] = ResultOf(w)
      BY <1>10, <2>1
    <3> QED
      BY <1>4, <2>1, <3>1
  <2>2. CASE u # t
    BY <1>10, <2>2, SideEffectAssumption DEF RuntimeInv, ContextIsBacked
  <2> QED
    BY <2>1, <2>2
<1> QED
  BY <1>5, <1>8, <1>9, <1>11, <1>12 DEF RuntimeKept

\* A step after which the worker has let go of its task without a commit.
LEMMA LettingGoKeeps ==
  ASSUME RuntimeInv, TypeOK', Settles, NEW w \in Workers,
         hold' = [hold EXCEPT ![w] = Idle], Forgets(w), UNCHANGED <<cursor, committed>>,
         run'[w].step \notin L!Acting, \A v \in Workers \ {w} : run'[v] = run[v]
  PROVE RuntimeKept
<1>1. \A v \in Workers \ {w} : stage'[v] = stage[v] /\ prior'[v] = prior[v] /\ hold'[v] = hold[v]
  BY DEF RuntimeInv, RuntimeTypeOK, TypeOK, Forgets
<1>2. CursorKept
  BY DEF RuntimeInv, TypeOK, CursorKept
<1>3. \A v \in Workers \ {w} : WorkerInv(v)'
  BY <1>1, <1>2, OthersKept
<1>4. WorkerInv(w)'
  BY WorkEnds DEF RuntimeInv, TypeOK
<1>5. RuntimeTypeOK'
  BY DEF RuntimeInv, RuntimeTypeOK, Forgets
<1> QED
  BY <1>3, <1>4, <1>5, ContextKept DEF RuntimeKept

LEMMA LeavesKeeps ==
  ASSUME RuntimeInv, TypeOK', Settles, NEW w \in Workers, Leaves(w)
  PROVE RuntimeKept
<1>1. /\ hold[w] # Idle /\ hold' = [hold EXCEPT ![w] = Idle]
      /\ Forgets(w) /\ UNCHANGED <<cursor, committed, run>>
  BY DEF Leaves, DiscardLost, CheckpointRefused, ReportFailure, ReportRefused, Drop, lvars
<1>2. run[w].step \notin L!Acting
  <2>1. CASE BodyReturned(w) \/ hold[w].phase = "commit"
    <3>1. BodyReturned(w)
      BY <1>1, <2>1 DEF RuntimeInv, WorkerInv
    <3> QED
      BY <3>1 DEF BodyReturned, RuntimeInv, WorkerInv, L!Acting
  <2>2. ASSUME NEW fc \in FailureClasses, BodyFailed(w, fc) PROVE run[w].step \notin L!Acting
    BY <2>2 DEF BodyFailed, RuntimeInv, WorkerInv, L!Acting
  <2> QED
    BY <2>1, <2>2 DEF Leaves, CheckpointRefused
<1> QED
  BY <1>1, <1>2, LettingGoKeeps

LEMMA DiesKeeps ==
  ASSUME RuntimeInv, TypeOK', Settles, NEW w \in Workers, Dies(w)
  PROVE RuntimeKept
<1>1. /\ hold' = [hold EXCEPT ![w] = Idle]
      /\ Forgets(w) /\ UNCHANGED <<cursor, committed>>
  BY DEF Dies, Abandon, Drop
<1>2. run'[w].step \notin L!Acting /\ \A v \in Workers \ {w} : run'[v] = run[v]
  BY DEF Dies, L!Die, L!Goes, L!Acting, lvars, RuntimeInv, GuardInv, L!TypeOK
<1> QED
  BY <1>1, <1>2, LettingGoKeeps

LEMMA QueueAloneKeeps ==
  ASSUME RuntimeInv, TypeOK', Settles, QueueAlone
  PROVE RuntimeKept
<1>1. UNCHANGED <<cursor, run, stage, prior, committed>>
  BY DEF QueueAlone, AnySubmission, Submit, Seed, InsertAgents, Renew, NoticeLoss, Orchestrator,
         Reap, Repair, Finalise, Classify, Environment, LeaseRunsOut, HeartbeatStalls,
         BackoffElapses, LoseRow, Expire, lvars, local
<1>2. ASSUME NEW v \in Workers PROVE SameWork(v)
  <2>1. CASE \E w \in Workers : NoticeLoss(w)
    <3>1. PICK w \in Workers : NoticeLoss(w)
      BY <2>1
    <3>2. hold[w] \in Claim /\ hold'[w] = [hold[w] EXCEPT !.lost = TRUE]
      BY <3>1, HeldTask DEF NoticeLoss, RuntimeInv, TypeOK
    <3>3. hold'[w] # Idle /\ hold'[w].task = hold[w].task /\ hold'[w].phase = hold[w].phase
      <4>1. hold'[w] \in Claim
        BY <3>2 DEF Claim
      <4> QED
        BY <3>2, <4>1, WorkerAssumption DEF Claim
    <3>4. v # w => hold'[v] = hold[v]
      BY <3>1 DEF NoticeLoss, RuntimeInv, TypeOK
    <3> QED
      BY <1>1, <3>1, <3>3, <3>4 DEF SameWork, NoticeLoss
  <2>2. CASE ~(\E w \in Workers : NoticeLoss(w))
    <3>1. UNCHANGED hold
      BY <2>2
      DEF QueueAlone, AnySubmission, Submit, Seed, InsertAgents, Renew, Orchestrator,
          Reap, Repair, Finalise, Classify, Environment, LeaseRunsOut, HeartbeatStalls,
          BackoffElapses, LoseRow, Expire
    <3> QED
      BY <1>1, <3>1 DEF SameWork
  <2> QED
    BY <2>1, <2>2
<1>3. CursorKept
  BY <1>1 DEF RuntimeInv, TypeOK, CursorKept
<1>4. \A v \in Workers : WorkerInv(v)'
  BY <1>2, <1>3, WorkKept
<1>5. RuntimeTypeOK'
  BY <1>1 DEF RuntimeInv, RuntimeTypeOK
<1> QED
  BY <1>1, <1>4, <1>5, ContextKept DEF RuntimeKept

\* A sweep of the ledger, or no step at all.
LEMMA LedgerAloneKeeps ==
  ASSUME RuntimeInv, TypeOK', Settles, LedgerAlone \/ UNCHANGED rvars
  PROVE RuntimeKept
<1>1. UNCHANGED <<cursor, hold, run, stage, prior, committed>>
  BY DEF LedgerAlone, L!Age, L!Reconcile, rvars, vars, lvars, local
<1>2. \A v \in Workers : SameWork(v)
  BY <1>1 DEF SameWork
<1>3. CursorKept
  BY <1>1 DEF RuntimeInv, TypeOK, CursorKept
<1>4. \A v \in Workers : WorkerInv(v)'
  BY <1>2, <1>3, WorkKept
<1>5. RuntimeTypeOK'
  BY <1>1 DEF RuntimeInv, RuntimeTypeOK
<1> QED
  BY <1>1, <1>4, <1>5, ContextKept DEF RuntimeKept

LEMMA RuntimeStep == RuntimeInv /\ [RuntimeNext]_rvars => RuntimeInv'
<1> SUFFICES ASSUME RuntimeInv, [RuntimeNext]_rvars PROVE RuntimeInv'
  OBVIOUS
<1>1. TypeOK'
  BY RuntimeIsQueueStep, TypeStep DEF RuntimeInv
<1>2. GuardInv' /\ Settles
  BY RuntimeIsLedgerStep, GuardStep DEF RuntimeInv
<1>3. RuntimeKept
  <2>1. ASSUME NEW w \in Workers, ProcessStep(w) PROVE RuntimeKept
    BY <1>1, <1>2, <2>1, LoadsKeeps, BeginsKeeps, ActsKeeps, PassesKeeps, CheckpointsKeeps,
       LeavesKeeps DEF ProcessStep
  <2>2. ASSUME NEW w \in Workers, NEW t \in Tasks, Claims(w, t) PROVE RuntimeKept
    BY <1>1, <1>2, <2>2, ClaimsKeeps
  <2>3. ASSUME NEW w \in Workers, Dies(w) PROVE RuntimeKept
    BY <1>1, <1>2, <2>3, DiesKeeps
  <2>4. CASE QueueAlone \/ LedgerAlone \/ UNCHANGED rvars
    BY <1>1, <1>2, <2>4, QueueAloneKeeps, LedgerAloneKeeps
  <2> QED
    BY <2>1, <2>2, <2>3, <2>4 DEF RuntimeNext
<1> QED
  BY <1>1, <1>2, <1>3 DEF RuntimeInv, RuntimeKept

LEMMA RuntimeInvariant == RuntimeSpec => []RuntimeInv
<1> QED
  BY RuntimeInitInv, RuntimeStep, PTL DEF RuntimeSpec

\* For any number of agents, workers and side effects: a real result in the context
\* has one effect behind it, a marker an entry that was given up on.
THEOREM ContextIsBackedHolds == RuntimeSpec => []ContextIsBacked
<1>1. RuntimeInv => ContextIsBacked
  BY DEF RuntimeInv
<1> QED
  BY <1>1, RuntimeInvariant, PTL

\* A completed agent did every external action once or says that it does not know.
THEOREM DoneOnceOrFlaggedHolds == RuntimeSpec => []DoneOnceOrFlagged
<1>1. RuntimeInv /\ CompletedIsComplete => DoneOnceOrFlagged
  <2> SUFFICES ASSUME RuntimeInv, CompletedIsComplete, NEW t \in SideEffects,
                      agentStatus[AgentOf(t)] = "completed", SeqOf(t) < PlanLen[AgentOf(t)]
               PROVE effects[t] = 1 \/ committed[t] = "unresolved"
    BY DEF DoneOnceOrFlagged
  <2>1. t \in Tasks /\ AgentOf(t) \in Agents
    BY SideEffectAssumption, TaskIdentity
  <2>2. committed[t] # "none"
    BY <2>1 DEF CompletedIsComplete, RuntimeInv, ContextIsPrefix
  <2>3. committed[t] \in Results
    BY <2>1 DEF RuntimeInv, RuntimeTypeOK
  <2> QED
    BY <2>2, <2>3 DEF RuntimeInv, ContextIsBacked, Results
<1> QED
  BY <1>1, RuntimeInvariant, RuntimeImplementsQueue, CompletedIsCompleteHolds, PTL

\* Who works on a task has the results of all tasks before it, and of no other if it
\* may still commit.
THEOREM PriorIsPlanPrefixHolds == RuntimeSpec => []PriorIsPlanPrefix
<1>1. RuntimeInv => PriorIsPlanPrefix
  <2> SUFFICES ASSUME RuntimeInv, NEW w \in Workers, hold[w] # Idle, stage[w] # "fresh"
               PROVE /\ prior[w] >= SeqOf(hold[w].task)
                     /\ CheckpointFence(w) => prior[w] = SeqOf(hold[w].task)
    BY DEF PriorIsPlanPrefix
  <2>1. /\ SeqOf(hold[w].task) \in Nat /\ cursor[AgentOf(hold[w].task)] \in Nat
        /\ prior[w] \in SeqOf(hold[w].task) .. cursor[AgentOf(hold[w].task)]
    BY HeldTask DEF RuntimeInv, WorkerInv
  <2> QED
    BY <2>1 DEF CheckpointFence, AtCursor
<1> QED
  BY <1>1, RuntimeInvariant, PTL

\* No external action happens twice, whatever queue, workers and sweeps do.
THEOREM RuntimeActsAtMostOnce == RuntimeSpec => []L!AtMostOneEffect
<1>1. RuntimeInv => L!AtMostOneEffect
  BY DEF RuntimeInv, GuardInv
<1> QED
  BY <1>1, RuntimeInvariant, PTL
=============================================================================

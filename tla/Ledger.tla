------------------------------ MODULE Ledger -------------------------------
(***************************************************************************)
(* The idempotency ledger (src/orchestrator/ledger.py) and the executor    *)
(* that guards side-effecting tasks with it (run_task of                   *)
(* src/worker/executor.py).                                                *)
(*                                                                         *)
(* An action id stands for agent, position and task: every execution of a  *)
(* task computes the same one.  Leases let any number of executions of a   *)
(* task overlap, so here any executor may run any action at any time.      *)
(***************************************************************************)
EXTENDS Integers, FiniteSets

CONSTANTS
  Actions,    \* action ids
  Executors,  \* worker processes
  NoAction,   \* what an executor that never ran anything ran last
  Batch       \* ORCHESTRATOR_BATCH

ASSUME LedgerAssumption ==
  /\ NoAction \notin Actions
  /\ Batch \in Nat \ {0}

VARIABLES
  ledger,   \* the table idempotency by action id
  run,      \* run[e]: how far run_task of executor e is, or how it ended
  effects   \* effects[k]: how often the action took effect in the outside world

lvars == <<ledger, run, effects>>

\* `old` is created_at < now() - RECONCILE_AFTER leases.  A settled row carries a
\* result, and only a settled one does (idempotency_settled_has_result_ck).
Entry == {r \in [state  : {"absent", "in_flight", "done"},
                 result : {"none", "real", "unresolved"},
                 old    : BOOLEAN] :
            r.state = "done" <=> r.result # "none"}

Acting == {"acting", "acted"}
Ended == {"idle", "returned", "replayed", "refused", "failed"}
Run == [step   : Acting \cup Ended,
        act    : Actions \cup {NoAction},
        result : {"none", "real", "unresolved"}]

Init ==
  /\ ledger = [k \in Actions |-> [state |-> "absent", result |-> "none", old |-> FALSE]]
  /\ run = [e \in Executors |-> [step |-> "idle", act |-> NoAction, result |-> "none"]]
  /\ effects = [k \in Actions |-> 0]

Goes(e, s, k, r) == run' = [run EXCEPT ![e] = [step |-> s, act |-> k, result |-> r]]

Vacant_Orphan(k) ==  \* mutant: an orphaned reservation is taken over
  ledger[k].state = "absent" \/ (ledger[k].state = "in_flight" /\ ledger[k].old)
Vacant(k) == ledger[k].state = "absent"

\* begin -> PROCEED: BEGIN_SQL inserted the row.
Proceed(e, k) ==
  /\ run[e].step \in Ended
  /\ Vacant(k)
  /\ ledger' = [ledger EXCEPT ![k] = [state |-> "in_flight", result |-> "none", old |-> FALSE]]
  /\ Goes(e, "acting", k, "none")
  /\ UNCHANGED effects

\* begin -> DONE: the stored result is returned, the task is not run.
Replay(e, k) ==
  /\ run[e].step \in Ended
  /\ ledger[k].state = "done"
  /\ Goes(e, "replayed", k, ledger[k].result)
  /\ UNCHANGED <<ledger, effects>>

\* begin -> IN_FLIGHT: an InfraFailure.
Refuse(e, k) ==
  /\ run[e].step \in Ended
  /\ ~Vacant(k) /\ ledger[k].state = "in_flight"
  /\ Goes(e, "refused", k, "none")
  /\ UNCHANGED <<ledger, effects>>

\* The task body performs its action.
Perform(e) ==
  /\ run[e].step = "acting"
  /\ effects' = [effects EXCEPT ![run[e].act] = @ + 1]
  /\ Goes(e, "acted", run[e].act, "none")
  /\ UNCHANGED ledger

\* The task body raises, before its effect or after it, or returns no dict.  The
\* reservation stays: nothing calls release.
Raise(e) ==
  /\ run[e].step \in Acting
  /\ Goes(e, "failed", run[e].act, "none")
  /\ UNCHANGED <<ledger, effects>>

\* The process dies, or the database is gone when it wants to settle.
Die(e) ==
  /\ run[e].step \in Acting
  /\ Goes(e, "idle", run[e].act, "none")
  /\ UNCHANGED <<ledger, effects>>

\* SETTLE_SQL touches a reservation only, and run_task ignores whether it did.
Settled_Any(r) == [r EXCEPT !.state = "done", !.result = "real"]  \* mutant: no state filter
Settled_NoResult(r) ==  \* mutant: the result is not stored
  IF r.state = "in_flight" THEN [r EXCEPT !.state = "done"] ELSE r
Settled(r) ==
  IF r.state = "in_flight" THEN [r EXCEPT !.state = "done", !.result = "real"] ELSE r

Settle(e) ==
  /\ run[e].step = "acted"
  /\ ledger' = [ledger EXCEPT ![run[e].act] = Settled(ledger[run[e].act])]
  /\ Goes(e, "returned", run[e].act, "real")
  /\ UNCHANGED effects

Age(k) ==
  /\ ledger[k].state = "in_flight" /\ ~ledger[k].old
  /\ ledger' = [ledger EXCEPT ![k].old = TRUE]
  /\ UNCHANGED <<run, effects>>

Orphaned_Young(k) ==  \* mutant: the comparison with the age reversed
  ledger[k].state = "in_flight" /\ ~ledger[k].old
Orphaned(k) == ledger[k].state = "in_flight" /\ ledger[k].old

\* RECONCILE_SQL; what SKIP LOCKED and LIMIT leave out is left out of B.
Reconcile(B) ==
  /\ B # {} /\ Cardinality(B) <= Batch
  /\ \A k \in B : Orphaned(k)
  /\ ledger' = [k \in Actions |->
                  IF k \in B THEN [ledger[k] EXCEPT !.state = "done", !.result = "unresolved"]
                  ELSE ledger[k]]
  /\ UNCHANGED <<run, effects>>

RunTask(e) ==
  \/ \E k \in Actions : Proceed(e, k) \/ Replay(e, k) \/ Refuse(e, k)
  \/ Perform(e)
  \/ Raise(e)
  \/ Die(e)
  \/ Settle(e)

Next ==
  \/ \E e \in Executors : RunTask(e)
  \/ \E k \in Actions : Age(k)
  \/ \E B \in SUBSET Actions : Reconcile(B)

Spec == Init /\ [][Next]_lvars

\* Time passes, and the reconcile sweep comes round every tick, oldest first.  No
\* executor owes anybody anything.
FairSpec ==
  /\ Spec
  /\ \A k \in Actions :
       /\ WF_lvars(Age(k))
       /\ WF_lvars(\E B \in SUBSET Actions : k \in B /\ Reconcile(B))
----------------------------------------------------------------------------
TypeOK ==
  /\ ledger \in [Actions -> Entry]
  /\ run \in [Executors -> Run]
  /\ effects \in [Actions -> Nat]

\* However many executions overlap, die after the effect and are retried, the
\* action takes effect at most once (begin before the action, settle after it).
AtMostOneEffect == \A k \in Actions : effects[k] <= 1

\* A replayed result is final: what one execution was told, every later one is
\* told, and a settlement that comes after a reconciliation changes nothing.
ReplayFinal ==
  \A e \in Executors : run[e].step = "replayed" =>
    ledger[run[e].act].state = "done" /\ ledger[run[e].act].result = run[e].result

\* A reservation whose owner died is closed: nobody is refused for ever.
ReservationsClose ==
  \A k \in Actions : ledger[k].state = "in_flight" ~> ledger[k].state = "done"

\* "a merely slow worker -- which still holds a renewable lease -- is never
\* reconciled out from under" (ledger.py:103-105).  The sweep looks at the age of
\* the reservation, and a worker may take longer than that over its task while
\* its heartbeat keeps the lease.
LiveOwnerKept ==
  \A e \in Executors : run[e].step \in Acting => ledger[run[e].act].state = "in_flight"

Once == INSTANCE AtMostOnce WITH
  asked <- [k \in Actions |-> ledger[k].state # "absent"],
  fired <- effects,
  outcome <- [k \in Actions |-> ledger[k].result]

\* The ledger is an at-most-once register that always closes.
ImplementsAtMostOnce == Once!FairSpec
=============================================================================

---------------------------- MODULE LedgerProofs ---------------------------
(***************************************************************************)
(* The ledger gives at-most-once effect for any number of actions and      *)
(* executors: only the execution that inserted the reservation acts, and a *)
(* reservation is never deleted.                                           *)
(***************************************************************************)
EXTENDS Ledger, TLAPS

\* Who acts holds a reservation of its own.
OwnReservation ==
  /\ \A e \in Executors : run[e].step \in Acting =>
       run[e].act \in Actions /\ ledger[run[e].act].state # "absent"
  /\ \A e, f \in Executors :
       run[e].step \in Acting /\ run[f].step \in Acting /\ run[e].act = run[f].act => e = f

\* The effect is the reservation's: none before it, none until its owner acts, and
\* one once the owner has acted or the ledger says so.
EffectOfOwner ==
  /\ \A k \in Actions : ledger[k].state = "absent" => effects[k] = 0
  /\ \A k \in Actions : ledger[k].result = "real" => effects[k] = 1
  /\ \A e \in Executors :
       /\ run[e].step = "acting" => effects[run[e].act] = 0
       /\ run[e].step = "acted" => effects[run[e].act] = 1

ReplayOfAction == \A e \in Executors : run[e].step = "replayed" => run[e].act \in Actions

LedgerInv ==
  /\ TypeOK
  /\ OwnReservation
  /\ EffectOfOwner
  /\ AtMostOneEffect
  /\ ReplayOfAction
  /\ ReplayFinal

LEMMA GoesRun ==
  ASSUME TypeOK, NEW e \in Executors, NEW s \in Acting \cup Ended,
         NEW k \in Actions, NEW r \in {"none", "real", "unresolved"}, Goes(e, s, k, r)
  PROVE /\ run' \in [Executors -> Run]
        /\ run'[e] = [step |-> s, act |-> k, result |-> r]
        /\ \A f \in Executors \ {e} : run'[f] = run[f]
BY DEF Goes, TypeOK, Run

LEMMA LedgerInit == Init => LedgerInv
BY DEF Init, LedgerInv, TypeOK, Entry, Run, Acting, Ended, OwnReservation, EffectOfOwner,
       AtMostOneEffect, ReplayOfAction, ReplayFinal

LEMMA ProceedKeeps ==
  ASSUME LedgerInv, NEW e \in Executors, NEW k \in Actions, Proceed(e, k)
  PROVE LedgerInv'
<1>1. /\ run' \in [Executors -> Run]
      /\ run'[e] = [step |-> "acting", act |-> k, result |-> "none"]
      /\ \A f \in Executors \ {e} : run'[f] = run[f]
  BY GoesRun DEF LedgerInv, Proceed, Acting, Ended
<1>2. /\ ledger[k].state = "absent"
      /\ ledger' \in [Actions -> Entry]
      /\ ledger'[k] = [state |-> "in_flight", result |-> "none", old |-> FALSE]
      /\ \A j \in Actions \ {k} : ledger'[j] = ledger[j]
  BY DEF LedgerInv, TypeOK, Proceed, Vacant, Entry
<1>3. effects' = effects
  BY DEF Proceed
<1>4. TypeOK'
  BY <1>1, <1>2, <1>3 DEF LedgerInv, TypeOK
<1>5. OwnReservation'
  BY <1>1, <1>2 DEF LedgerInv, OwnReservation, Acting
<1>6. EffectOfOwner' /\ AtMostOneEffect'
  BY <1>1, <1>2, <1>3 DEF LedgerInv, EffectOfOwner, AtMostOneEffect, OwnReservation, Acting
<1>7. ReplayOfAction' /\ ReplayFinal'
  BY <1>1, <1>2 DEF LedgerInv, ReplayOfAction, ReplayFinal
<1> QED
  BY <1>4, <1>5, <1>6, <1>7 DEF LedgerInv

\* A step that ends an execution and leaves table and world alone.
LEMMA EndKeeps ==
  ASSUME LedgerInv, NEW e \in Executors, NEW s \in Ended, NEW k \in Actions,
         NEW r \in {"none", "real", "unresolved"}, Goes(e, s, k, r),
         UNCHANGED <<ledger, effects>>,
         s = "replayed" => ledger[k].state = "done" /\ ledger[k].result = r
  PROVE LedgerInv'
<1>1. /\ run' \in [Executors -> Run]
      /\ run'[e] = [step |-> s, act |-> k, result |-> r]
      /\ \A f \in Executors \ {e} : run'[f] = run[f]
  BY GoesRun DEF LedgerInv
<1>2. s \notin Acting
  BY DEF Acting, Ended
<1>3. TypeOK' /\ AtMostOneEffect'
  BY <1>1 DEF LedgerInv, TypeOK, AtMostOneEffect
<1>4. OwnReservation' /\ EffectOfOwner'
  BY <1>1, <1>2 DEF LedgerInv, OwnReservation, EffectOfOwner, Acting
<1>5. ReplayOfAction' /\ ReplayFinal'
  BY <1>1 DEF LedgerInv, ReplayOfAction, ReplayFinal
<1> QED
  BY <1>3, <1>4, <1>5 DEF LedgerInv

LEMMA PerformKeeps ==
  ASSUME LedgerInv, NEW e \in Executors, Perform(e)
  PROVE LedgerInv'
<1> DEFINE k == run[e].act
<1>0. run[e].step = "acting" /\ k \in Actions /\ ledger[k].state # "absent" /\ effects[k] = 0
  BY DEF LedgerInv, OwnReservation, EffectOfOwner, Perform, Acting
<1>1. /\ run' \in [Executors -> Run]
      /\ run'[e] = [step |-> "acted", act |-> k, result |-> "none"]
      /\ \A f \in Executors \ {e} : run'[f] = run[f]
  BY <1>0, GoesRun DEF LedgerInv, Perform, Acting, Ended
<1>2. /\ effects' \in [Actions -> Nat]
      /\ effects'[k] = 1
      /\ \A j \in Actions \ {k} : effects'[j] = effects[j]
  BY <1>0 DEF LedgerInv, TypeOK, Perform
<1>3. ledger' = ledger
  BY DEF Perform
<1>4. \A f \in Executors \ {e} : run[f].step \in Acting => run[f].act # k
  BY <1>0 DEF LedgerInv, OwnReservation, Acting
<1>5. TypeOK'
  BY <1>1, <1>2, <1>3 DEF LedgerInv, TypeOK
<1>6. OwnReservation'
  BY <1>0, <1>1, <1>3 DEF LedgerInv, OwnReservation, Acting
<1>7. EffectOfOwner' /\ AtMostOneEffect'
  BY <1>0, <1>1, <1>2, <1>3, <1>4
  DEF LedgerInv, EffectOfOwner, AtMostOneEffect, OwnReservation, Acting
<1>8. ReplayOfAction' /\ ReplayFinal'
  BY <1>1, <1>3 DEF LedgerInv, ReplayOfAction, ReplayFinal
<1> QED
  BY <1>5, <1>6, <1>7, <1>8 DEF LedgerInv

LEMMA SettleKeeps ==
  ASSUME LedgerInv, NEW e \in Executors, Settle(e)
  PROVE LedgerInv'
<1> DEFINE k == run[e].act
<1>0. run[e].step = "acted" /\ k \in Actions /\ ledger[k].state # "absent" /\ effects[k] = 1
  BY DEF LedgerInv, OwnReservation, EffectOfOwner, Settle, Acting
<1>1. /\ run' \in [Executors -> Run]
      /\ run'[e] = [step |-> "returned", act |-> k, result |-> "real"]
      /\ \A f \in Executors \ {e} : run'[f] = run[f]
  BY <1>0, GoesRun DEF LedgerInv, Settle, Acting, Ended
<1>2. /\ ledger' \in [Actions -> Entry]
      /\ ledger'[k].state = "done"
      /\ ledger[k].state = "done" => ledger'[k] = ledger[k]
      /\ \A j \in Actions \ {k} : ledger'[j] = ledger[j]
  BY <1>0 DEF LedgerInv, TypeOK, Settle, Settled, Entry
<1>3. effects' = effects
  BY DEF Settle
<1>4. TypeOK'
  BY <1>1, <1>2, <1>3 DEF LedgerInv, TypeOK
<1>5. OwnReservation'
  BY <1>1, <1>2 DEF LedgerInv, OwnReservation, Acting
<1>6. EffectOfOwner' /\ AtMostOneEffect'
  BY <1>0, <1>1, <1>2, <1>3 DEF LedgerInv, EffectOfOwner, AtMostOneEffect
<1>7. ReplayOfAction' /\ ReplayFinal'
  BY <1>1, <1>2 DEF LedgerInv, ReplayOfAction, ReplayFinal
<1> QED
  BY <1>4, <1>5, <1>6, <1>7 DEF LedgerInv

\* Age and Reconcile change reservations only, and settle none as real.
LEMMA SweepKeeps ==
  ASSUME LedgerInv, UNCHANGED <<run, effects>>, ledger' \in [Actions -> Entry],
         \A k \in Actions :
           \/ ledger'[k] = ledger[k]
           \/ /\ ledger[k].state = "in_flight"
              /\ ledger'[k].state # "absent" /\ ledger'[k].result # "real"
  PROVE LedgerInv'
<1>1. TypeOK' /\ AtMostOneEffect' /\ ReplayOfAction'
  BY DEF LedgerInv, TypeOK, AtMostOneEffect, ReplayOfAction
<1>2. OwnReservation' /\ EffectOfOwner'
  BY DEF LedgerInv, OwnReservation, EffectOfOwner
<1>3. ReplayFinal'
  BY DEF LedgerInv, ReplayFinal, ReplayOfAction
<1> QED
  BY <1>1, <1>2, <1>3 DEF LedgerInv

LEMMA AgeChange ==
  ASSUME TypeOK, NEW k \in Actions, Age(k)
  PROVE /\ ledger' \in [Actions -> Entry]
        /\ \A j \in Actions :
             \/ ledger'[j] = ledger[j]
             \/ /\ ledger[j].state = "in_flight" /\ ledger'[j].state = "in_flight"
                /\ ledger'[j].result = ledger[j].result /\ ledger'[j].result = "none"
BY DEF TypeOK, Age, Entry

LEMMA ReconcileChange ==
  ASSUME TypeOK, NEW B \in SUBSET Actions, Reconcile(B)
  PROVE /\ ledger' \in [Actions -> Entry]
        /\ \A k \in B : /\ ledger[k].state = "in_flight" /\ ledger[k].result = "none"
                        /\ ledger'[k].state = "done" /\ ledger'[k].result = "unresolved"
        /\ \A k \in Actions \ B : ledger'[k] = ledger[k]
BY DEF TypeOK, Reconcile, Orphaned, Entry

LEMMA LedgerStep == LedgerInv /\ [Next]_lvars => LedgerInv'
<1> SUFFICES ASSUME LedgerInv, [Next]_lvars PROVE LedgerInv'
  OBVIOUS
<1>1. ASSUME NEW e \in Executors, RunTask(e) PROVE LedgerInv'
  <2>1. ASSUME NEW k \in Actions, Replay(e, k) PROVE LedgerInv'
    <3>1. ledger[k].result \in {"none", "real", "unresolved"}
      BY DEF LedgerInv, TypeOK, Entry
    <3> QED
      BY <2>1, <3>1, EndKeeps DEF Replay, Ended
  <2>2. ASSUME NEW k \in Actions, Refuse(e, k) PROVE LedgerInv'
    BY <2>2, EndKeeps DEF Refuse, Ended
  <2>3. ASSUME run[e].step \in Acting PROVE run[e].act \in Actions
    BY <2>3 DEF LedgerInv, OwnReservation
  <2>4. CASE Raise(e)
    BY <2>3, <2>4, EndKeeps DEF Raise, Ended
  <2>5. CASE Die(e)
    BY <2>3, <2>5, EndKeeps DEF Die, Ended
  <2> QED
    BY <1>1, <2>1, <2>2, <2>4, <2>5, ProceedKeeps, PerformKeeps, SettleKeeps DEF RunTask
<1>2. ASSUME NEW k \in Actions, Age(k) PROVE LedgerInv'
  <2>1. UNCHANGED <<run, effects>>
    BY <1>2 DEF Age
  <2> QED
    BY <1>2, <2>1, AgeChange, SweepKeeps DEF LedgerInv
<1>3. ASSUME NEW B \in SUBSET Actions, Reconcile(B) PROVE LedgerInv'
  <2>1. UNCHANGED <<run, effects>>
    BY <1>3 DEF Reconcile
  <2> QED
    BY <1>3, <2>1, ReconcileChange, SweepKeeps DEF LedgerInv
<1>4. CASE UNCHANGED lvars
  BY <1>4 DEF lvars, LedgerInv, TypeOK, OwnReservation, EffectOfOwner, AtMostOneEffect,
             ReplayOfAction, ReplayFinal
<1> QED
  BY <1>1, <1>2, <1>3, <1>4 DEF Next

LEMMA LedgerInvariant == Spec => []LedgerInv
<1> QED
  BY LedgerInit, LedgerStep, PTL DEF Spec

\* Every variable of the ledger keeps its type; a settled row carries a result and
\* an open one does not (idempotency_settled_has_result_ck).
THEOREM LedgerTypeCorrect == Spec => []TypeOK
<1>1. LedgerInv => TypeOK
  BY DEF LedgerInv
<1> QED
  BY <1>1, LedgerInvariant, PTL

\* The action takes effect at most once, for any number of executions.
THEOREM AtMostOneEffectHolds == Spec => []AtMostOneEffect
<1>1. LedgerInv => AtMostOneEffect
  BY DEF LedgerInv
<1> QED
  BY <1>1, LedgerInvariant, PTL

\* What a replay returned stays what the ledger holds.
THEOREM ReplayFinalHolds == Spec => []ReplayFinal
<1>1. LedgerInv => ReplayFinal
  BY DEF LedgerInv
<1> QED
  BY <1>1, LedgerInvariant, PTL
----------------------------------------------------------------------------
(* The ledger implements the at-most-once register. *)

LEMMA OnceInit == Init => Once!Init
<1> SUFFICES ASSUME Init PROVE Once!Init
  OBVIOUS
<1>1. \A k \in Actions : ledger[k].state = "absent" /\ ledger[k].result = "none"
  BY DEF Init
<1>2. \A k \in Actions : (ledger[k].state # "absent") = FALSE
  BY <1>1
<1>3. [k \in Actions |-> ledger[k].state # "absent"] = [k \in Actions |-> FALSE]
  BY <1>2
<1>4. [k \in Actions |-> ledger[k].result] = [k \in Actions |-> "none"]
  BY <1>1
<1> QED
  BY <1>3, <1>4 DEF Init, Once!Init

\* The register sees the two columns of the table and the effects.
LEMMA OnceStutter ==
  ASSUME ledger' = ledger, effects' = effects
  PROVE UNCHANGED Once!book
BY DEF Once!book

LEMMA ProceedIsAsk ==
  ASSUME LedgerInv, NEW e \in Executors, NEW k \in Actions, Proceed(e, k)
  PROVE Once!Ask(k)
<1>1. ledger[k].state = "absent" /\ ledger[k].result = "none"
  BY DEF Proceed, Vacant, LedgerInv, TypeOK, Entry
<1>2. /\ \A j \in Actions : (ledger'[j].state # "absent") = ((ledger[j].state # "absent") \/ j = k)
      /\ \A j \in Actions : ledger'[j].result = ledger[j].result
  BY <1>1 DEF Proceed, LedgerInv, TypeOK
<1>3. effects' = effects
  BY DEF Proceed
<1> QED
  BY <1>1, <1>2, <1>3 DEF Once!Ask

LEMMA PerformIsFire ==
  ASSUME LedgerInv, NEW e \in Executors, Perform(e)
  PROVE run[e].act \in Actions /\ Once!Fire(run[e].act)
<1> DEFINE k == run[e].act
<1>1. k \in Actions /\ ledger[k].state # "absent" /\ effects[k] = 0
  BY DEF LedgerInv, OwnReservation, EffectOfOwner, Perform, Acting
<1>2. ledger[k].result # "real"
  BY <1>1 DEF LedgerInv, EffectOfOwner
<1>3. ledger' = ledger /\ effects' = [effects EXCEPT ![k] = 1]
  BY <1>1 DEF Perform, LedgerInv, TypeOK
<1> QED
  BY <1>1, <1>2, <1>3 DEF Once!Fire

LEMMA SettleIsConfirm ==
  ASSUME LedgerInv, NEW e \in Executors, Settle(e)
  PROVE \/ \E j \in Actions : Once!Confirm(j)
        \/ UNCHANGED Once!book
<1> DEFINE k == run[e].act
<1>1. k \in Actions /\ ledger[k].state \in {"in_flight", "done"} /\ effects[k] = 1
  BY DEF LedgerInv, TypeOK, Entry, OwnReservation, EffectOfOwner, Settle, Acting
<1>2. effects' = effects
  BY DEF Settle
<1>3. CASE ledger[k].state = "done"
  <2>1. ledger' = ledger
    BY <1>1, <1>3 DEF Settle, Settled, LedgerInv, TypeOK
  <2> QED
    BY <1>2, <2>1, OnceStutter
<1>4. CASE ledger[k].state = "in_flight"
  <2>1. /\ ledger[k].result = "none"
        /\ ledger'[k].state = "done" /\ ledger'[k].result = "real"
        /\ \A j \in Actions \ {k} : ledger'[j] = ledger[j]
    BY <1>1, <1>4 DEF Settle, Settled, LedgerInv, TypeOK, Entry
  <2>2. \A j \in Actions : (ledger'[j].state # "absent") = (ledger[j].state # "absent")
    BY <1>4, <2>1
  <2>3. \A j \in Actions : ledger'[j].result = IF j = k THEN "real" ELSE ledger[j].result
    BY <2>1
  <2> QED
    BY <1>1, <1>2, <2>1, <2>2, <2>3 DEF Once!Confirm
<1> QED
  BY <1>1, <1>3, <1>4

LEMMA AgeIsStutter ==
  ASSUME LedgerInv, NEW k \in Actions, Age(k)
  PROVE UNCHANGED Once!book
<1>1. \A j \in Actions :
        /\ (ledger'[j].state # "absent") = (ledger[j].state # "absent")
        /\ ledger'[j].result = ledger[j].result
  BY AgeChange DEF LedgerInv
<1>2. effects' = effects
  BY DEF Age
<1> QED
  BY <1>1, <1>2 DEF Once!book

LEMMA ReconcileIsGiveUp ==
  ASSUME LedgerInv, NEW B \in SUBSET Actions, Reconcile(B)
  PROVE Once!GiveUp(B)
<1>1. /\ \A k \in B : /\ ledger[k].state = "in_flight" /\ ledger[k].result = "none"
                      /\ ledger'[k].state = "done" /\ ledger'[k].result = "unresolved"
      /\ \A k \in Actions \ B : ledger'[k] = ledger[k]
  BY ReconcileChange DEF LedgerInv
<1>2. \A j \in Actions : (ledger'[j].state # "absent") = (ledger[j].state # "absent")
  BY <1>1
<1>3. \A j \in Actions : ledger'[j].result = IF j \in B THEN "unresolved" ELSE ledger[j].result
  BY <1>1
<1>4. B # {} /\ effects' = effects
  BY DEF Reconcile
<1> QED
  BY <1>1, <1>2, <1>3, <1>4 DEF Once!GiveUp

LEMMA OnceStep == LedgerInv /\ [Next]_lvars => [Once!Next]_(Once!book)
<1> SUFFICES ASSUME LedgerInv, [Next]_lvars PROVE [Once!Next]_(Once!book)
  OBVIOUS
<1>1. ASSUME NEW e \in Executors, RunTask(e) PROVE [Once!Next]_(Once!book)
  <2>1. ASSUME NEW k \in Actions, Proceed(e, k) PROVE [Once!Next]_(Once!book)
    BY <2>1, ProceedIsAsk DEF Once!Next
  <2>2. CASE Perform(e)
    BY <2>2, PerformIsFire DEF Once!Next
  <2>3. CASE Settle(e)
    BY <2>3, SettleIsConfirm DEF Once!Next
  <2>4. CASE (\E k \in Actions : Replay(e, k) \/ Refuse(e, k)) \/ Raise(e) \/ Die(e)
    <3>1. ledger' = ledger /\ effects' = effects
      BY <2>4 DEF Replay, Refuse, Raise, Die
    <3> QED
      BY <3>1, OnceStutter
  <2> QED
    BY <1>1, <2>1, <2>2, <2>3, <2>4 DEF RunTask
<1>2. ASSUME NEW k \in Actions, Age(k) PROVE [Once!Next]_(Once!book)
  BY <1>2, AgeIsStutter
<1>3. ASSUME NEW B \in SUBSET Actions, Reconcile(B) PROVE [Once!Next]_(Once!book)
  BY <1>3, ReconcileIsGiveUp DEF Once!Next
<1>4. CASE UNCHANGED lvars
  BY <1>4, OnceStutter DEF lvars
<1> QED
  BY <1>1, <1>2, <1>3, <1>4 DEF Next

\* Whatever executors and sweeps do, table and effects move as the at-most-once
\* register allows.
THEOREM LedgerImplementsAtMostOnce == Spec => Once!Spec
<1> QED
  BY OnceInit, LedgerInvariant, OnceStep, PTL DEF Spec, Once!Spec
=============================================================================

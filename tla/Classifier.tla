---------------------------- MODULE Classifier -----------------------------
(***************************************************************************)
(* The failure router of src/orchestrator/classify.py: retry, promote or   *)
(* dead-letter every row that a worker reported as failed.                 *)
(***************************************************************************)
EXTENDS TaskTable

\* The rows with outcome o in evidence e, counted for each tier.
AttemptRows(e, o) == UNION {{k} \X (1 .. e[k][o]) : k \in Tiers}

\* INFRA failures a worker reported, at any tier; reclaims are not counted.
InfraReports(t) == Cardinality(AttemptRows(attempts[t], "INFRA"))

InfraSpent_Reclaims(t) ==  \* mutant: what classify.py:36-38 prescribes
  InfraReports(t) + Cardinality(AttemptRows(attempts[t], "reclaimed")) >= MaxInfra
InfraSpent(t) == InfraReports(t) >= MaxInfra

\* The budget of capability failures at the current tier is used up.
TierSpent_Attempt(t) == row[t].attempt >= MaxPerTier  \* mutant: promotion by handouts
TierSpent_Late(t) ==  \* mutant: one failure too many
  attempts[t][row[t].tier]["CAPABILITY"] > MaxPerTier
TierSpent(t) == attempts[t][row[t].tier]["CAPABILITY"] >= MaxPerTier

\* There is no higher tier to promote to, or the flags forbid it.
NowhereToGo_NoTop(t, f) == ~f.escalation \/ f.force # NoTier  \* mutant: no top tier
NowhereToGo(t, f) ==
  \/ ~f.escalation
  \/ f.force # NoTier
  \/ NextTier(row[t].tier) = NoTier

\* The branches of route_one that end in _kill.
Doomed(t, f) ==
  \/ row[t].class = "POISON"
  \/ row[t].attempt >= MaxTotal
  \/ ~f.retries
  \/ row[t].class = "INFRA" /\ InfraSpent(t)
  \/ row[t].class = "CAPABILITY" /\ TierSpent(t) /\ NowhereToGo(t, f)

Killed(r) == [r EXCEPT !.status = "dead", !.owner = NoOwner]
Promoted(r) ==
  [r EXCEPT !.status = "pending", !.tier = NextTier(@), !.attempt = 0, !.owner = NoOwner,
            !.due = TRUE]
Retried(r) == [r EXCEPT !.status = "pending", !.owner = NoOwner, !.due = FALSE]

Routed(t, f) ==
  IF Doomed(t, f) THEN Killed(row[t])
  ELSE IF row[t].class = "CAPABILITY" /\ TierSpent(t) THEN Promoted(row[t])
  ELSE Retried(row[t])

\* CANCEL_SIBLINGS_SQL takes the pending rows of an agent that failed.
Cancelled_All(t) == row[t].status # "absent"  \* mutant: no status filter
Cancelled_Failed(t) == row[t].status = "failed"  \* mutant: the wrong status
Cancelled(t) == row[t].status = "pending"

\* One classify(): a batch of failed rows routed in one transaction, each with
\* the flags read when its turn comes.
Classify(B, f) ==
  LET doomed == {t \in B : Doomed(t, f[t])}
      ended == {AgentOf(t) : t \in doomed}
  IN /\ B # {} /\ Cardinality(B) <= Batch
     /\ \A t \in B : row[t].status = "failed"
     /\ row' = [t \in Tasks |->
                  IF t \in B THEN Routed(t, f[t])
                  ELSE IF AgentOf(t) \in ended /\ Cancelled(t) THEN Killed(row[t])
                  ELSE row[t]]
     /\ agentStatus' = [a \in Agents |-> IF a \in ended THEN "failed" ELSE agentStatus[a]]
     /\ dlq' = [t \in Tasks |-> IF t \in doomed THEN dlq[t] + 1 ELSE dlq[t]]
     /\ UNCHANGED <<cursor, gen, attempts, hold, faults>>
=============================================================================

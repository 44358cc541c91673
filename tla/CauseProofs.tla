---------------------------- MODULE CauseProofs ----------------------------
(***************************************************************************)
(* What holds of the evidence whatever the worker ids are: how far a       *)
(* worker that passes the fence of another's handout can falsify it, and   *)
(* that a task is dead-lettered for a cause all the same.                  *)
(*                                                                         *)
(* Such a worker records its outcome at the tier it claimed the task at,   *)
(* which the row may have left but cannot be below.                        *)
(***************************************************************************)
EXTENDS EvidenceProofs

\* The evidence has at most one commit, and it has one when the row says so.
CommitsSomewhere(r, e) ==
  IF r.status = "succeeded"
  THEN \E j \in Tiers : \A k \in Tiers : e[k]["succeeded"] = IF k = j THEN 1 ELSE 0
  ELSE \A k \in Tiers : e[k]["succeeded"] = 0

\* The class of a failed row is that of a report recorded at some tier.
ClassReported(r, e) ==
  r.status = "failed" => r.class \in FailureClasses /\ \E k \in Tiers : e[k][r.class] > 0

NothingAbove(r, e) == \A k \in Tiers : k > r.tier => Total(e[k]) = 0

\* The part of Accounted that needs no fence: what is counted over all tiers, or at
\* the tier the row has now.
Tallied(r, e) ==
  /\ IsFiniteSet(AttemptRows(e, "INFRA"))
  /\ r.status = "absent" => e = NoEvidence
  /\ NothingAbove(r, e)
  /\ CommitsSomewhere(r, e)
  /\ InfraCount(e) <= MaxInfra
  /\ e[r.tier]["CAPABILITY"] <= MaxPerTier
  /\ Headroom(r, e)
  /\ ClassReported(r, e)

\* A claim is on a row that is there still, and has not gone down the ladder since,
\* or on a row that has been replaced.
HoldsBehind ==
  \A w \in Workers : hold[w] # Idle =>
    LET t == hold[w].task
    IN /\ hold[w].gen <= gen[t]
       /\ hold[w].gen = gen[t] => row[t].status # "absent" /\ hold[w].tier <= row[t].tier

TallyInv ==
  /\ PlanInv
  /\ HoldsBehind
  /\ \A t \in Tasks : Tallied(row[t], attempts[t])

\* A task commits once whoever commits it, and the limit on infrastructure failures
\* is kept: what OneCommitPerTask and BudgetsHold leave when workers share an id.
OneCommitSomewhere ==
  \A t \in Tasks :
    IF row[t].status = "succeeded"
    THEN \E j \in Tiers : \A k \in Tiers :
           attempts[t][k]["succeeded"] = IF k = j THEN 1 ELSE 0
    ELSE \A k \in Tiers : attempts[t][k]["succeeded"] = 0

InfraBudgetHolds == \A t \in Tasks : InfraReports(t) <= MaxInfra

----------------------------------------------------------------------------
(* Every update of a row, with what it records, keeps the tally. *)

LEMMA InsertTallied ==
  ASSUME NEW k \in Tiers
  PROVE Tallied(NewRow(k), NoEvidence) /\ Tallied(NoRow, NoEvidence)
<1>1. \A j \in Tiers, o \in Outcomes : NoEvidence[j][o] = 0
  BY DEF NoEvidence
<1>2. {"succeeded", "reclaimed", "INFRA", "CAPABILITY", "POISON"} \subseteq Outcomes
  BY DEF Outcomes, FailureClasses
<1>3. \A j \in Tiers : Total(NoEvidence[j]) = 0
  BY <1>1, <1>2 DEF Total
<1>4. /\ NewRow(k).status = "pending" /\ NewRow(k).tier = k
      /\ NoRow.status = "absent" /\ NoRow.tier = BaseTier
  BY DEF NewRow, NoRow
<1>5. BaseTier \in Tiers
  BY LimitAssumption DEF BaseTier, Tiers
<1> QED
  BY <1>1, <1>2, <1>3, <1>4, <1>5, InfraCountNone, LimitAssumption
  DEF Tallied, NothingAbove, CommitsSomewhere, Headroom, Open, ClassReported

\* Only the status, tier and class of a row are tallied.
LEMMA SameTallied ==
  ASSUME NEW r, NEW s, NEW e, Tallied(r, e),
         s.status = r.status, s.tier = r.tier, s.class = r.class
  PROVE Tallied(s, e)
BY DEF Tallied, NothingAbove, CommitsSomewhere, Headroom, Open, ClassReported

LEMMA LeasedTallied ==
  ASSUME NEW r \in Row, NEW e, Tallied(r, e), r.status = "pending", NEW id
  PROVE Tallied(Leased(r, id), e)
<1>1. Leased(r, id).status = "running" /\ Leased(r, id).tier = r.tier
  BY DEF Leased, Row
<1> QED
  BY <1>1 DEF Tallied, NothingAbove, CommitsSomewhere, Headroom, Open, ClassReported

LEMMA KilledTallied ==
  ASSUME NEW r \in Row, NEW e, Tallied(r, e), r.status \in {"pending", "failed"}
  PROVE Tallied(Killed(r), e)
<1>1. Killed(r).status = "dead" /\ Killed(r).tier = r.tier
  BY DEF Killed, Row
<1> QED
  BY <1>1 DEF Tallied, NothingAbove, CommitsSomewhere, Headroom, Open, ClassReported

\* A running row ends with an outcome recorded at its tier or at one it has left.
LEMMA EndedTallied ==
  ASSUME NEW r \in Row, NEW e \in Evidence, Tallied(r, e), r.status = "running",
         NEW k \in Tiers, k <= r.tier, NEW o \in Outcomes, NEW s, s.tier = r.tier,
         \/ o = "succeeded" /\ s.status = "succeeded"
         \/ o = "reclaimed" /\ s.status = "pending"
         \/ o \in FailureClasses /\ s.status = "failed" /\ s.class = o
  PROVE Tallied(s, Recording(e, k, o))
<1> DEFINE d == Recording(e, k, o)
<1>1. r.tier \in Tiers
  BY DEF Row
<1>2. \A j \in Tiers, p \in Outcomes : d[j][p] = IF j = k /\ p = o THEN e[j][p] + 1 ELSE e[j][p]
  BY RecordingType
<1>3. \A j \in Tiers : Total(d[j]) = IF j = k THEN Total(e[j]) + 1 ELSE Total(e[j])
  BY RecordingType
<1>4. /\ IsFiniteSet(AttemptRows(d, "INFRA"))
      /\ InfraCount(d) = IF o = "INFRA" THEN InfraCount(e) + 1 ELSE InfraCount(e)
      /\ InfraCount(e) \in Nat
  BY InfraCountOneMore, InfraCountOther, InfraCountType DEF Tallied
<1>5. {"succeeded", "reclaimed", "INFRA", "CAPABILITY", "POISON"} \subseteq Outcomes
  BY DEF Outcomes, FailureClasses
<1>6. \A j \in Tiers, p \in Outcomes : e[j][p] \in Nat
  BY DEF Evidence
<1>7. e[r.tier]["CAPABILITY"] < MaxPerTier /\ InfraCount(e) < MaxInfra
  <2>1. Open(r, "CAPABILITY") /\ Open(r, "INFRA")
    BY DEF Open
  <2> QED
    BY <2>1 DEF Tallied, Headroom
<1>8. MaxPerTier \in Nat /\ MaxInfra \in Nat
  BY LimitAssumption
<1> HIDE DEF d
<1>9. NothingAbove(s, d)
  BY <1>1, <1>3 DEF Tallied, NothingAbove, Tiers
<1>10. CommitsSomewhere(s, d)
  <2>1. \A j \in Tiers : e[j]["succeeded"] = 0
    BY DEF Tallied, CommitsSomewhere
  <2>2. o \in FailureClasses => o # "succeeded"
    BY DEF FailureClasses
  <2>3. CASE o = "succeeded"
    <3>1. \A j \in Tiers : d[j]["succeeded"] = IF j = k THEN 1 ELSE 0
      BY <1>2, <1>5, <2>1, <2>3
    <3>2. s.status = "succeeded"
      BY <2>2, <2>3
    <3> QED
      BY <3>1, <3>2 DEF CommitsSomewhere
  <2>4. CASE o # "succeeded"
    <3>1. \A j \in Tiers : d[j]["succeeded"] = 0
      BY <1>2, <1>5, <2>1, <2>4
    <3>2. s.status # "succeeded"
      BY <2>4
    <3> QED
      BY <3>1, <3>2 DEF CommitsSomewhere
  <2> QED
    BY <2>3, <2>4
<1>11. InfraCount(d) <= MaxInfra
  BY <1>4, <1>7, <1>8
<1>12. d[r.tier]["CAPABILITY"] <= MaxPerTier
  BY <1>1, <1>2, <1>5, <1>6, <1>7, <1>8
<1>13. Headroom(s, d)
  BY <1>1, <1>2, <1>4, <1>5, <1>6, <1>7, <1>8 DEF Headroom, Open
<1>14. ClassReported(s, d)
  <2>1. CASE s.status = "failed"
    <3>1. o \in FailureClasses /\ s.class = o
      BY <2>1
    <3>2. d[k][o] = e[k][o] + 1 /\ e[k][o] \in Nat
      BY <1>2, <1>6
    <3> QED
      BY <3>1, <3>2 DEF ClassReported
  <2> QED
    BY <2>1 DEF ClassReported
<1>15. s.status # "absent"
  OBVIOUS
<1> QED
  BY <1>4, <1>9, <1>10, <1>11, <1>12, <1>13, <1>14, <1>15 DEF Tallied, d

LEMMA RetriedTallied ==
  ASSUME NEW r \in Row, NEW e \in Evidence, Tallied(r, e), r.status = "failed",
         r.class # "POISON",
         r.class = "INFRA" => InfraCount(e) < MaxInfra,
         r.class = "CAPABILITY" => e[r.tier]["CAPABILITY"] < MaxPerTier
  PROVE Tallied(Retried(r), e)
<1>1. Retried(r).status = "pending" /\ Retried(r).tier = r.tier
  BY DEF Retried, Row
<1>2. e[r.tier]["CAPABILITY"] < MaxPerTier /\ InfraCount(e) < MaxInfra
  BY DEF Tallied, Headroom, Open, ClassReported, FailureClasses
<1> QED
  BY <1>1, <1>2 DEF Tallied, NothingAbove, CommitsSomewhere, Headroom, Open, ClassReported

LEMMA PromotedTallied ==
  ASSUME NEW r \in Row, NEW e \in Evidence, Tallied(r, e), r.status = "failed",
         r.class = "CAPABILITY", NextTier(r.tier) # NoTier
  PROVE Tallied(Promoted(r), e)
<1> DEFINE n == NextTier(r.tier)
<1>1. r.tier \in Tiers /\ n = r.tier + 1 /\ n \in Tiers
  BY LimitAssumption DEF Row, NextTier, Tiers
<1>2. Promoted(r).status = "pending" /\ Promoted(r).tier = n
  BY DEF Promoted, Row
<1>3. "CAPABILITY" \in Outcomes
  BY DEF Outcomes, FailureClasses
<1>4. e[n]["CAPABILITY"] = 0
  <2>1. Total(e[n]) = 0
    BY <1>1 DEF Tallied, NothingAbove, Tiers
  <2> QED
    BY <1>1, <1>3, <2>1, TotalType
<1>5. InfraCount(e) < MaxInfra /\ 0 < MaxPerTier
  BY LimitAssumption DEF Tallied, Headroom, Open
<1>6. IsFiniteSet(AttemptRows(e, "INFRA")) /\ InfraCount(e) <= MaxInfra
  BY DEF Tallied
<1>7. e[n]["CAPABILITY"] <= MaxPerTier
  BY <1>4, LimitAssumption
<1> HIDE DEF n
<1>8. NothingAbove(Promoted(r), e)
  BY <1>1, <1>2 DEF Tallied, NothingAbove, Tiers
<1>9. CommitsSomewhere(Promoted(r), e)
  BY <1>2 DEF Tallied, CommitsSomewhere
<1>10. Headroom(Promoted(r), e) /\ ClassReported(Promoted(r), e)
  BY <1>2, <1>4, <1>5 DEF Headroom, Open, ClassReported
<1> QED
  BY <1>2, <1>6, <1>7, <1>8, <1>9, <1>10 DEF Tallied

----------------------------------------------------------------------------
(* The steps of the queue. *)

\* The step replaces the row of t, or keeps it there and does not lower its tier.
Climbs(t) ==
  \/ gen'[t] > gen[t]
  \/ /\ gen'[t] = gen[t]
     /\ row[t].status # "absent" => row'[t].status # "absent" /\ row[t].tier <= row'[t].tier

\* The step leaves a row, with what it records, as the lemmas above want it.
Counts == \A t \in Tasks : Tallied(row'[t], attempts'[t])

LEMMA ClaimKept ==
  ASSUME TypeOK, TypeOK', \A t \in Tasks : Climbs(t), NEW w \in Workers, NothingNew(w),
         HoldsBehind, hold'[w] # Idle
  PROVE LET t == hold'[w].task
        IN /\ hold'[w].gen <= gen'[t]
           /\ hold'[w].gen = gen'[t] =>
                row'[t].status # "absent" /\ hold'[w].tier <= row'[t].tier
<1> DEFINE t == hold[w].task
<1>1. /\ hold[w] # Idle /\ hold'[w].task = t /\ hold'[w].gen = hold[w].gen
      /\ hold'[w].tier = hold[w].tier
  BY DEF NothingNew
<1>2. t \in Tasks /\ hold[w].gen \in Nat /\ hold[w].tier \in Tiers
  BY <1>1 DEF TypeOK, Claim
<1>3. /\ gen[t] \in Nat /\ gen'[t] \in Nat /\ row[t].tier \in Tiers /\ row'[t].tier \in Tiers
  BY <1>2 DEF TypeOK, Row
<1>4. /\ hold[w].gen <= gen[t]
      /\ hold[w].gen = gen[t] => row[t].status # "absent" /\ hold[w].tier <= row[t].tier
  BY <1>1 DEF HoldsBehind
<1>5. Climbs(t)
  BY <1>2
<1> HIDE DEF t
<1>6. CASE gen'[t] > gen[t]
  BY <1>1, <1>2, <1>3, <1>4, <1>6
<1>7. CASE gen'[t] = gen[t] /\ (row[t].status # "absent" =>
                                   row'[t].status # "absent" /\ row[t].tier <= row'[t].tier)
  BY <1>1, <1>2, <1>3, <1>4, <1>7 DEF Tiers
<1> QED
  BY <1>1, <1>5, <1>6, <1>7 DEF Climbs

LEMMA ClaimsKept ==
  ASSUME TypeOK, TypeOK', HoldsBehind, \A t \in Tasks : Climbs(t),
         \A w \in Workers : NothingNew(w)
  PROVE HoldsBehind'
BY ClaimKept DEF HoldsBehind

\* A row whose tier is the same, in a step that replaces none, climbs.
LEMMA LevelClimbs ==
  ASSUME TypeOK, NEW t \in Tasks, gen'[t] = gen[t],
         \/ row[t].status = "absent"
         \/ row'[t].status # "absent" /\ row'[t].tier = row[t].tier
  PROVE Climbs(t)
BY DEF Climbs, TypeOK, Row, Tiers

LEMMA TallyInit == Init => HoldsBehind /\ \A t \in Tasks : Tallied(row[t], attempts[t])
<1> SUFFICES ASSUME Init PROVE HoldsBehind /\ \A t \in Tasks : Tallied(row[t], attempts[t])
  OBVIOUS
<1>1. HoldsBehind
  BY DEF Init, HoldsBehind
<1>2. BaseTier \in Tiers
  BY LimitAssumption DEF BaseTier, Tiers
<1>3. \A t \in Tasks : row[t] = NoRow /\ attempts[t] = NoEvidence
  BY DEF Init
<1> QED
  BY <1>1, <1>2, <1>3, InsertTallied

\* A step that leaves the evidence alone, and of each row what is tallied.
LEMMA TallyQuiet ==
  ASSUME TallyInv, TypeOK', UNCHANGED <<attempts, gen>>, \A w \in Workers : NothingNew(w),
         \A t \in Tasks : /\ row'[t].status = row[t].status /\ row'[t].tier = row[t].tier
                          /\ row'[t].class = row[t].class
  PROVE HoldsBehind' /\ Counts
<1>1. TypeOK /\ HoldsBehind
  BY DEF TallyInv, PlanInv
<1>2. \A t \in Tasks : Climbs(t)
  BY <1>1, LevelClimbs
<1>3. Counts
  BY SameTallied DEF Counts, TallyInv
<1> QED
  BY <1>1, <1>2, <1>3, ClaimsKept

\* Rows inserted where there were none.
LEMMA TallyInserted ==
  ASSUME TallyInv, TypeOK', UNCHANGED <<attempts, gen, hold>>, NEW k \in Tiers,
         \A t \in Tasks : \/ row'[t] = row[t]
                          \/ row[t].status = "absent" /\ row'[t] = NewRow(k)
  PROVE HoldsBehind' /\ Counts
<1>1. TypeOK /\ HoldsBehind
  BY DEF TallyInv, PlanInv
<1>2. \A t \in Tasks : Climbs(t)
  <2> SUFFICES ASSUME NEW t \in Tasks PROVE Climbs(t)
    OBVIOUS
  <2>1. \/ row[t].status = "absent"
        \/ row'[t].status # "absent" /\ row'[t].tier = row[t].tier
    OBVIOUS
  <2> QED
    BY <1>1, <2>1, LevelClimbs
<1>3. Counts
  <2> SUFFICES ASSUME NEW t \in Tasks PROVE Tallied(row'[t], attempts'[t])
    BY DEF Counts
  <2>1. Tallied(row[t], attempts[t])
    BY DEF TallyInv
  <2> QED
    BY <2>1, InsertTallied DEF Tallied
<1>4. \A w \in Workers : NothingNew(w)
  BY DEF NothingNew
<1> QED
  BY <1>1, <1>2, <1>3, <1>4, ClaimsKept

LEMMA TallySubmission ==
  ASSUME TallyInv, TypeOK', AnySubmission
  PROVE HoldsBehind' /\ Counts
<1>1. PICK B \in SUBSET Agents, k \in Tiers :
        (\A a \in B : agentStatus[a] = "absent") /\ InsertAgents(B, k)
  <2>1. BaseTier \in Tiers /\ \A f \in Flags : StartTier(f) \in Tiers
    BY FlagsAssumption, LimitAssumption DEF StartTier, Tiers, BaseTier, NoTier
  <2> QED
    BY <2>1 DEF AnySubmission, Submit, Seed
<1>2. \A t \in Tasks : \/ row'[t] = row[t]
                       \/ row[t].status = "absent" /\ row'[t] = NewRow(k)
  BY <1>1, TaskIdentity DEF InsertAgents, TallyInv, PlanInv, RowsInPlan, Present
<1>3. UNCHANGED <<attempts, gen, hold>>
  BY <1>1 DEF InsertAgents
<1> QED
  BY <1>2, <1>3, TallyInserted

LEMMA TallyRepair ==
  ASSUME TallyInv, TypeOK', NEW B \in SUBSET Agents, Repair(B)
  PROVE HoldsBehind' /\ Counts
<1>1. ASSUME NEW t \in Tasks
      PROVE \/ row'[t] = row[t]
            \/ row[t].status = "absent" /\ row'[t] = NewRow(BaseTier)
  <2>1. AtCursor(t) => t = <<AgentOf(t), cursor[AgentOf(t)]>>
    BY DEF AtCursor, Tasks, AgentOf, SeqOf
  <2> QED
    BY <2>1 DEF Repair, Stalled
<1>2. UNCHANGED <<attempts, gen, hold>> /\ BaseTier \in Tiers
  BY LimitAssumption DEF Repair, BaseTier, Tiers
<1> QED
  BY <1>1, <1>2, TallyInserted

LEMMA TallyClaim ==
  ASSUME TallyInv, TypeOK', NEW w \in Workers, NEW t \in Tasks, ClaimOne(w, t)
  PROVE HoldsBehind' /\ Counts
<1>1. TypeOK /\ HoldsBehind
  BY DEF TallyInv, PlanInv
<1>2. /\ row'[t] = Leased(row[t], WorkerId[w]) /\ row[t].status = "pending"
      /\ \A u \in Tasks \ {t} : row'[u] = row[u]
      /\ UNCHANGED <<attempts, gen>>
  BY <1>1 DEF ClaimOne, Claimable, TypeOK
<1>3. row'[t].status = "running" /\ row'[t].tier = row[t].tier /\ row[t].tier \in Tiers
  BY <1>1, <1>2, EvidenceTypes DEF Leased, Row
<1>4. \A u \in Tasks : Climbs(u)
  BY <1>1, <1>2, <1>3, LevelClimbs
<1>5. /\ hold'[w].task = t /\ hold'[w].tier = row[t].tier /\ hold'[w].gen = gen[t]
      /\ gen[t] \in Nat
      /\ \A v \in Workers \ {w} : hold'[v] = hold[v]
  BY <1>1 DEF ClaimOne, TypeOK
<1>6. HoldsBehind'
  <2> SUFFICES ASSUME NEW v \in Workers, hold'[v] # Idle
               PROVE LET u == hold'[v].task
                     IN /\ hold'[v].gen <= gen'[u]
                        /\ hold'[v].gen = gen'[u] =>
                             row'[u].status # "absent" /\ hold'[v].tier <= row'[u].tier
    BY DEF HoldsBehind
  <2>1. CASE v = w
    BY <1>2, <1>3, <1>5, <2>1 DEF Tiers
  <2>2. CASE v # w
    <3>1. NothingNew(v)
      BY <1>5, <2>2 DEF NothingNew
    <3> QED
      BY <1>1, <1>4, <3>1, ClaimKept
  <2> QED
    BY <2>1, <2>2
<1>7. Counts
  BY <1>1, <1>2, EvidenceTypes, LeasedTallied DEF Counts, TallyInv
<1> QED
  BY <1>6, <1>7

\* The end of a handout that passes the fence, recorded at the tier it was claimed
\* at: the row has not been replaced, so its tier is that one or a later one.
LEMMA TallyEnds ==
  ASSUME TallyInv, TypeOK', NEW w \in Workers, hold[w] # Idle, Fenced(w),
         NEW o \in Outcomes, NEW s, Record(hold[w].task, hold[w].tier, o),
         row' = [row EXCEPT ![hold[w].task] = s], UNCHANGED gen, Drop(w),
         s.tier = row[hold[w].task].tier,
         \/ o = "succeeded" /\ s.status = "succeeded"
         \/ o \in FailureClasses /\ s.status = "failed" /\ s.class = o
  PROVE HoldsBehind' /\ Counts
<1> DEFINE t == hold[w].task
<1>1. TypeOK /\ HoldsBehind
  BY DEF TallyInv, PlanInv
<1>2. t \in Tasks /\ hold[w].tier \in Tiers
  BY <1>1 DEF TypeOK, Claim
<1>3. hold[w].tier <= row[t].tier /\ row[t].status = "running"
  BY <1>1 DEF HoldsBehind, Fenced
<1>4. /\ attempts'[t] = Recording(attempts[t], hold[w].tier, o)
      /\ \A u \in Tasks \ {t} : attempts'[u] = attempts[u]
  BY <1>1, <1>2, RecordIsRecording
<1>5. row'[t] = s /\ \A u \in Tasks \ {t} : row'[u] = row[u]
  BY <1>1, <1>2 DEF TypeOK
<1>6. HoldsBehind'
  <2>1. s.status # "absent"
    OBVIOUS
  <2>2. \A u \in Tasks : Climbs(u)
    BY <1>1, <1>5, <2>1, LevelClimbs
  <2>3. \A v \in Workers : NothingNew(v)
    BY <1>1 DEF NothingNew, Drop, TypeOK
  <2> QED
    BY <1>1, <2>2, <2>3, ClaimsKept
<1>7. Tallied(row'[t], attempts'[t])
  <2>1. Tallied(row[t], attempts[t]) /\ row[t] \in Row /\ attempts[t] \in Evidence
    BY <1>1, <1>2, EvidenceTypes DEF TallyInv
  <2> QED
    BY <1>2, <1>3, <1>4, <1>5, <2>1, EndedTallied
<1> QED
  BY <1>4, <1>5, <1>6, <1>7 DEF Counts, TallyInv

LEMMA TallyWorker ==
  ASSUME TallyInv, TypeOK', NEW w \in Workers, Worker(w)
  PROVE HoldsBehind' /\ Counts
<1>1. TypeOK /\ HoldsBehind
  BY DEF TallyInv, PlanInv
<1>2. hold[w] # Idle => hold[w].task \in Tasks
  BY <1>1 DEF TypeOK, Claim
<1>3. CASE \E t \in Tasks : ClaimOne(w, t)
  BY <1>3, TallyClaim
<1>4. CASE Renew(w)
  <2>1. UNCHANGED <<attempts, gen, hold>>
    BY <1>4 DEF Renew
  <2>2. \A t \in Tasks : row'[t] = row[t] \/ row'[t] = [row[t] EXCEPT !.expired = FALSE]
    BY <1>1, <1>2, <1>4 DEF Renew, TypeOK
  <2>3. \A t \in Tasks : /\ row'[t].status = row[t].status /\ row'[t].tier = row[t].tier
                         /\ row'[t].class = row[t].class
    BY <1>1, <2>2, ClockOnly
  <2> QED
    BY <2>1, <2>3, TallyQuiet DEF NothingNew
<1>5. CASE \/ NoticeLoss(w) \/ PassLossCheck(w) \/ DiscardLost(w) \/ CheckpointRefused(w)
           \/ ReportRefused(w) \/ Abandon(w)
  <2>1. UNCHANGED <<attempts, gen, row>>
    BY <1>5 DEF NoticeLoss, PassLossCheck, DiscardLost, CheckpointRefused, ReportRefused, Abandon
  <2>2. \A v \in Workers : NothingNew(v)
    BY <1>1, <1>5, ClaimsOnlyMarked
  <2> QED
    BY <2>1, <2>2, TallyQuiet
<1>6. CASE CheckpointSuccess(w)
  <2> DEFINE s == Succeeded(row[hold[w].task])
  <2>1. hold[w] # Idle /\ Fenced(w)
    BY <1>6 DEF CheckpointSuccess, CheckpointFence
  <2>2. row[hold[w].task] \in Row
    BY <1>1, <1>2, <2>1, EvidenceTypes
  <2>3. s.status = "succeeded" /\ s.tier = row[hold[w].task].tier
    BY <2>2 DEF Succeeded, Row
  <2>4. /\ Record(hold[w].task, hold[w].tier, "succeeded") /\ Drop(w) /\ UNCHANGED gen
        /\ row' = [row EXCEPT ![hold[w].task] = s]
    BY <1>6 DEF CheckpointSuccess
  <2> HIDE DEF s
  <2>5. "succeeded" \in Outcomes
    BY DEF Outcomes
  <2> QED
    BY <2>1, <2>3, <2>4, <2>5, TallyEnds
<1>7. ASSUME NEW fc \in FailureClasses, ReportFailure(w, fc)
      PROVE HoldsBehind' /\ Counts
  <2> DEFINE s == Failed(row[hold[w].task], fc)
  <2>1. hold[w] # Idle /\ Fenced(w)
    BY <1>7 DEF ReportFailure
  <2>2. row[hold[w].task] \in Row
    BY <1>1, <1>2, <2>1, EvidenceTypes
  <2>3. s.status = "failed" /\ s.class = fc /\ s.tier = row[hold[w].task].tier
    BY <2>2 DEF Failed, Row
  <2>4. /\ Record(hold[w].task, hold[w].tier, fc) /\ Drop(w) /\ UNCHANGED gen
        /\ row' = [row EXCEPT ![hold[w].task] = s]
    BY <1>7 DEF ReportFailure
  <2> HIDE DEF s
  <2>5. fc \in Outcomes
    BY DEF Outcomes
  <2> QED
    BY <2>1, <2>3, <2>4, <2>5, TallyEnds
<1> QED
  BY <1>3, <1>4, <1>5, <1>6, <1>7 DEF Worker, WorkerStep

LEMMA TallyReap ==
  ASSUME TallyInv, TypeOK', NEW B \in SUBSET Tasks, Reap(B)
  PROVE HoldsBehind' /\ Counts
<1>1. TypeOK /\ HoldsBehind /\ \A u \in Tasks : Tallied(row[u], attempts[u])
  BY DEF TallyInv, PlanInv
<1>2. UNCHANGED <<gen, hold>>
  BY DEF Reap
<1>3. ASSUME NEW t \in Tasks, t \notin B PROVE row'[t] = row[t] /\ attempts'[t] = attempts[t]
  BY <1>3 DEF Reap
<1>4. ASSUME NEW t \in B
      PROVE /\ row[t].status = "running"
            /\ row'[t].status = "pending" /\ row'[t].tier = row[t].tier
            /\ attempts'[t] = Recording(attempts[t], row[t].tier, "reclaimed")
  BY <1>1, EvidenceTypes DEF Reap, Reclaimable, Reclaimed, Recording, Row
<1>5. HoldsBehind'
  <2>1. \A t \in Tasks : Climbs(t)
    BY <1>1, <1>2, <1>3, <1>4, LevelClimbs
  <2> QED
    BY <1>1, <1>2, <2>1, ClaimsKept DEF NothingNew
<1>6. ASSUME NEW t \in Tasks PROVE Tallied(row'[t], attempts'[t])
  <2>1. CASE t \in B
    <3>1. /\ row[t] \in Row /\ attempts[t] \in Evidence /\ Tallied(row[t], attempts[t])
          /\ "reclaimed" \in Outcomes
      BY <1>1, EvidenceTypes DEF Outcomes
    <3>2. row[t].tier \in Tiers /\ row[t].tier <= row[t].tier
      BY <3>1 DEF Row, Tiers
    <3> QED
      BY <1>4, <2>1, <3>1, <3>2, EndedTallied
  <2> QED
    BY <1>1, <1>3, <2>1
<1> QED
  BY <1>5, <1>6 DEF Counts

\* Routing one failed row: killed, promoted or retried, the tally still holds.
LEMMA TallyRouted ==
  ASSUME TypeOK, NEW t \in Tasks, Tallied(row[t], attempts[t]), row[t].status = "failed",
         NEW f
  PROVE /\ Tallied(Routed(t, f), attempts[t])
        /\ Routed(t, f).status # "absent" /\ row[t].tier <= Routed(t, f).tier
<1> DEFINE r == row[t]
<1> DEFINE e == attempts[t]
<1>1. r \in Row /\ e \in Evidence /\ r.tier \in Tiers
  BY EvidenceTypes DEF Row
<1>2. /\ Killed(r).status = "dead" /\ Killed(r).tier = r.tier
      /\ Promoted(r).status = "pending" /\ Promoted(r).tier = NextTier(r.tier)
      /\ Retried(r).status = "pending" /\ Retried(r).tier = r.tier
  BY <1>1 DEF Killed, Promoted, Retried, Row
<1>3. InfraCount(e) = InfraReports(t)
  BY DEF InfraCount, InfraReports
<1>4. e[r.tier]["CAPABILITY"] \in Nat /\ MaxPerTier \in Nat /\ InfraCount(e) \in Nat /\ MaxInfra \in Nat
  <2>1. r.tier \in Tiers /\ "CAPABILITY" \in Outcomes
    BY <1>1 DEF Outcomes, FailureClasses
  <2> QED
    BY <1>1, <2>1, LimitAssumption, InfraCountType DEF Evidence, Tallied
<1>5. r.tier <= r.tier /\ (NextTier(r.tier) # NoTier => r.tier <= NextTier(r.tier))
  BY <1>1, LimitAssumption DEF NextTier, NoTier, Tiers
<1>6. CASE Doomed(t, f)
  BY <1>1, <1>2, <1>5, <1>6, KilledTallied DEF Routed
<1>7. CASE ~Doomed(t, f) /\ r.class = "CAPABILITY" /\ TierSpent(t)
  BY <1>1, <1>2, <1>5, <1>7, PromotedTallied DEF Routed, Doomed, NowhereToGo
<1>8. CASE ~Doomed(t, f) /\ ~(r.class = "CAPABILITY" /\ TierSpent(t))
  <2>1. /\ r.class # "POISON"
        /\ r.class = "INFRA" => InfraCount(e) < MaxInfra
        /\ r.class = "CAPABILITY" => e[r.tier]["CAPABILITY"] < MaxPerTier
    BY <1>3, <1>4, <1>8 DEF Doomed, InfraSpent, TierSpent
  <2> QED
    BY <1>1, <1>2, <1>5, <1>8, <2>1, RetriedTallied DEF Routed
<1> QED
  BY <1>6, <1>7, <1>8

LEMMA TallyClassify ==
  ASSUME TallyInv, TypeOK', NEW B \in SUBSET Tasks, NEW f \in [B -> Flags], Classify(B, f)
  PROVE HoldsBehind' /\ Counts
<1>1. TypeOK /\ HoldsBehind /\ \A u \in Tasks : Tallied(row[u], attempts[u])
  BY DEF TallyInv, PlanInv
<1>2. UNCHANGED <<gen, hold, attempts>>
  BY DEF Classify
<1>3. ASSUME NEW t \in Tasks
      PROVE \/ row'[t] = row[t]
            \/ row[t].status = "failed" /\ row'[t] = Routed(t, f[t])
            \/ row[t].status = "pending" /\ row'[t] = Killed(row[t])
  BY DEF Classify, Cancelled
<1>4. ASSUME NEW t \in Tasks
      PROVE Climbs(t) /\ Tallied(row'[t], attempts'[t])
  <2>1. CASE row'[t] = row[t]
    BY <1>1, <1>2, <2>1, LevelClimbs
  <2>2. CASE row[t].status = "failed" /\ row'[t] = Routed(t, f[t])
    <3>1. /\ Tallied(row'[t], attempts[t])
          /\ row'[t].status # "absent" /\ row[t].tier <= row'[t].tier
      BY <1>1, <2>2, TallyRouted
    <3> QED
      BY <1>2, <3>1 DEF Climbs
  <2>3. CASE row[t].status = "pending" /\ row'[t] = Killed(row[t])
    <3>1. row[t] \in Row
      BY <1>1, EvidenceTypes
    <3>2. Killed(row[t]).status = "dead" /\ Killed(row[t]).tier = row[t].tier
      BY <3>1 DEF Killed, Row
    <3>3. Tallied(row'[t], attempts'[t])
      BY <1>1, <1>2, <2>3, <3>1, KilledTallied
    <3> QED
      BY <1>1, <1>2, <2>3, <3>2, <3>3, LevelClimbs
  <2> QED
    BY <1>3, <2>1, <2>2, <2>3
<1>5. HoldsBehind'
  BY <1>1, <1>2, <1>4, ClaimsKept DEF NothingNew
<1> QED
  BY <1>4, <1>5 DEF Counts

LEMMA TallyEnvironment ==
  ASSUME TallyInv, TypeOK', Environment
  PROVE HoldsBehind' /\ Counts
<1>1. TypeOK /\ HoldsBehind /\ \A u \in Tasks : Tallied(row[u], attempts[u])
  BY DEF TallyInv, PlanInv
<1>2. ASSUME NEW t \in Tasks, LeaseRunsOut(t) \/ HeartbeatStalls(t) \/ BackoffElapses(t)
      PROVE HoldsBehind' /\ Counts
  <2>1. UNCHANGED <<attempts, gen, hold>>
    BY <1>2 DEF LeaseRunsOut, HeartbeatStalls, BackoffElapses, Expire
  <2>2. \A u \in Tasks : \/ row'[u] = row[u]
                         \/ row'[u] = [row[u] EXCEPT !.expired = TRUE]
                         \/ row'[u] = [row[u] EXCEPT !.due = TRUE]
    BY <1>1, <1>2 DEF LeaseRunsOut, HeartbeatStalls, BackoffElapses, Expire, TypeOK
  <2>3. \A u \in Tasks : /\ row'[u].status = row[u].status /\ row'[u].tier = row[u].tier
                         /\ row'[u].class = row[u].class
    BY <1>1, <2>2, ClockOnly
  <2> QED
    BY <2>1, <2>3, TallyQuiet DEF NothingNew
<1>3. ASSUME NEW t \in Tasks, LoseRow(t) PROVE HoldsBehind' /\ Counts
  <2>1. /\ row'[t] = NoRow /\ attempts'[t] = NoEvidence /\ UNCHANGED hold
        /\ gen'[t] = gen[t] + 1 /\ gen[t] \in Nat
        /\ \A u \in Tasks \ {t} : row'[u] = row[u] /\ attempts'[u] = attempts[u] /\ gen'[u] = gen[u]
    BY <1>1, <1>3 DEF LoseRow, TypeOK
  <2>2. BaseTier \in Tiers
    BY LimitAssumption DEF BaseTier, Tiers
  <2>3. \A u \in Tasks : Climbs(u)
    <3>1. Climbs(t)
      BY <2>1 DEF Climbs
    <3>2. \A u \in Tasks \ {t} : Climbs(u)
      BY <1>1, <2>1, LevelClimbs
    <3> QED
      BY <3>1, <3>2
  <2>4. HoldsBehind'
    BY <1>1, <2>1, <2>3, ClaimsKept DEF NothingNew
  <2>5. Counts
    BY <1>1, <2>1, <2>2, InsertTallied DEF Counts
  <2> QED
    BY <2>4, <2>5
<1> QED
  BY <1>2, <1>3 DEF Environment

LEMMA TallyStep ==
  ASSUME TallyInv, [Next]_vars
  PROVE TallyInv'
<1>1. PlanInv' /\ TypeOK'
  BY PlanStep DEF TallyInv, PlanInv
<1> SUFFICES HoldsBehind' /\ Counts
  BY <1>1 DEF TallyInv, Counts
<1>2. CASE UNCHANGED vars
  BY <1>1, <1>2, TallyQuiet DEF vars, NothingNew
<1>3. CASE AnySubmission
  BY <1>1, <1>3, TallySubmission
<1>4. CASE \E w \in Workers : Worker(w)
  BY <1>1, <1>4, TallyWorker
<1>5. CASE Orchestrator
  <2>1. ASSUME NEW B \in SUBSET Agents, Finalise(B) PROVE HoldsBehind' /\ Counts
    BY <1>1, <2>1, TallyQuiet DEF Finalise, NothingNew
  <2>2. ASSUME NEW B \in SUBSET {t \in Tasks : row[t].status = "failed"},
               NEW f \in [B -> Flags], Classify(B, f)
        PROVE HoldsBehind' /\ Counts
    <3>1. B \in SUBSET Tasks
      OBVIOUS
    <3> QED
      BY <1>1, <2>2, <3>1, TallyClassify
  <2> QED
    BY <1>1, <1>5, <2>1, <2>2, TallyReap, TallyRepair DEF Orchestrator
<1>6. CASE Environment
  BY <1>1, <1>6, TallyEnvironment
<1> QED
  BY <1>2, <1>3, <1>4, <1>5, <1>6 DEF Next

LEMMA TallyInvariant == Spec => []TallyInv
<1>1. Init => TallyInv
  BY PlanInit, TallyInit DEF TallyInv
<1>2. TallyInv /\ [Next]_vars => TallyInv'
  BY TallyStep
<1> QED
  BY <1>1, <1>2, PTL DEF Spec

----------------------------------------------------------------------------
(* Why a task is dead: only a step of the classifier makes a row dead, for *)
(* a cause the evidence shows, and nothing then touches the row but a loss.*)

\* The defaults of config.py, and what the runs keep the flags at unless they are
\* about the flags: retries and escalation on, no tier forced.
FlagsNormal == \A f \in Flags : f.retries /\ f.escalation /\ f.force = NoTier

Cause(r, e) ==
  \/ \E k \in Tiers : e[k]["POISON"] > 0
  \/ r.attempt >= MaxTotal
  \/ InfraCount(e) = MaxInfra
  \/ r.tier = NTiers /\ e[NTiers]["CAPABILITY"] = MaxPerTier

DeadWithCause ==
  \A t \in Tasks : row[t].status = "dead" /\ AtCursor(t) => Cause(row[t], attempts[t])

CauseInv == TallyInv /\ DeadWithCause

\* The step leaves a task that is dead after it as it was.
Settled(t) ==
  row'[t].status = "dead" =>
    /\ row[t].status = "dead"
    /\ row'[t].attempt = row[t].attempt /\ row'[t].tier = row[t].tier
    /\ attempts'[t] = attempts[t]

LEMMA SettledWorker ==
  ASSUME TypeOK, NEW w \in Workers, Worker(w), NEW t \in Tasks
  PROVE Settled(t)
<1>1. row[t] \in Row /\ \A u \in Tasks : row[u] \in Row
  BY DEF TypeOK
<1>2. hold[w] # Idle => hold[w].task \in Tasks
  BY DEF TypeOK, Claim
<1>3. ASSUME NEW u \in Tasks, ClaimOne(w, u) PROVE Settled(t)
  <2>1. Leased(row[u], WorkerId[w]).status = "running" /\ UNCHANGED attempts
    BY <1>1, <1>3 DEF Leased, ClaimOne, Row
  <2> QED
    BY <1>3, <2>1 DEF ClaimOne, Settled, TypeOK
<1>4. CASE Renew(w)
  <2>1. UNCHANGED attempts /\ hold[w] # Idle
    BY <1>4 DEF Renew
  <2>2. row'[t] = row[t] \/ row'[t] = [row[t] EXCEPT !.expired = FALSE]
    BY <1>2, <1>4, <2>1 DEF Renew, TypeOK
  <2> QED
    BY <1>1, <2>1, <2>2 DEF Settled, Row
<1>5. ASSUME UNCHANGED <<row, attempts>> PROVE Settled(t)
  BY <1>5 DEF Settled
<1>6. CASE CheckpointSuccess(w)
  <2>1. /\ hold[w].task \in Tasks /\ Succeeded(row[hold[w].task]).status = "succeeded"
        /\ row' = [row EXCEPT ![hold[w].task] = Succeeded(row[hold[w].task])]
        /\ Record(hold[w].task, hold[w].tier, "succeeded")
    BY <1>1, <1>2, <1>6 DEF CheckpointSuccess, Succeeded, Row
  <2> QED
    BY <2>1 DEF Record, Settled, TypeOK
<1>7. ASSUME NEW fc \in FailureClasses, ReportFailure(w, fc) PROVE Settled(t)
  <2>1. /\ hold[w].task \in Tasks /\ Failed(row[hold[w].task], fc).status = "failed"
        /\ row' = [row EXCEPT ![hold[w].task] = Failed(row[hold[w].task], fc)]
        /\ Record(hold[w].task, hold[w].tier, fc)
    BY <1>1, <1>2, <1>7 DEF ReportFailure, Failed, Row
  <2> QED
    BY <2>1 DEF Record, Settled, TypeOK
<1> QED
  BY <1>3, <1>4, <1>5, <1>6, <1>7
  DEF Worker, WorkerStep, NoticeLoss, PassLossCheck, DiscardLost, CheckpointRefused,
      ReportRefused, Abandon

LEMMA SettledElsewhere ==
  ASSUME TypeOK, NEW t \in Tasks,
         \/ AnySubmission
         \/ \E B \in SUBSET Tasks : Reap(B)
         \/ \E B \in SUBSET Agents : Repair(B) \/ Finalise(B)
         \/ Environment
         \/ UNCHANGED vars
  PROVE Settled(t)
<1>1. row[t] \in Row /\ \A u \in Tasks : row[u] \in Row
  BY DEF TypeOK
<1>2. \A k : NewRow(k).status = "pending"
  BY DEF NewRow, NoRow
<1>3. CASE AnySubmission
  <2>1. UNCHANGED attempts /\ (row'[t] = row[t] \/ row'[t].status = "pending")
    BY <1>2, <1>3 DEF AnySubmission, Submit, Seed, InsertAgents
  <2> QED
    BY <2>1 DEF Settled
<1>4. ASSUME NEW B \in SUBSET Tasks, Reap(B) PROVE Settled(t)
  <2>1. Reclaimed(t).status = "pending"
    BY <1>1 DEF Reclaimed, Row
  <2> QED
    BY <1>4, <2>1 DEF Reap, Settled
<1>5. ASSUME NEW B \in SUBSET Agents, Repair(B) \/ Finalise(B) PROVE Settled(t)
  <2>1. UNCHANGED attempts /\ (row'[t] = row[t] \/ row'[t].status = "pending")
    BY <1>2, <1>5 DEF Repair, Finalise
  <2> QED
    BY <2>1 DEF Settled
<1>6. ASSUME NEW u \in Tasks, Expire(u) \/ BackoffElapses(u) PROVE Settled(t)
  <2>1. /\ UNCHANGED attempts
        /\ \/ row'[t] = row[t]
           \/ row'[t] = [row[t] EXCEPT !.expired = TRUE]
           \/ row'[t] = [row[t] EXCEPT !.due = TRUE]
    BY <1>1, <1>6 DEF Expire, BackoffElapses, TypeOK
  <2> QED
    BY <1>1, <2>1 DEF Settled, Row
<1>7. ASSUME NEW u \in Tasks, LoseRow(u) PROVE Settled(t)
  <2>1. \/ row'[t].status = "absent"
        \/ row'[t] = row[t] /\ attempts'[t] = attempts[t]
    BY <1>7 DEF LoseRow, NoRow, TypeOK
  <2> QED
    BY <2>1 DEF Settled
<1> QED
  BY <1>3, <1>4, <1>5, <1>6, <1>7
  DEF Environment, LeaseRunsOut, HeartbeatStalls, vars, Settled

LEMMA CauseClassify ==
  ASSUME FlagsNormal, CauseInv, NEW B \in SUBSET Tasks, NEW f \in [B -> Flags], Classify(B, f),
         NEW t \in Tasks, row'[t].status = "dead", AtCursor(t)
  PROVE Cause(row'[t], attempts'[t])
<1> DEFINE r == row[t]
<1> DEFINE e == attempts[t]
<1>1. /\ TypeOK /\ WorkAtCursor /\ r \in Row /\ e \in Evidence /\ Tallied(r, e)
      /\ attempts'[t] = e
  BY EvidenceTypes DEF CauseInv, TallyInv, PlanInv, Classify
<1>2. CASE row'[t] = r
  BY <1>1, <1>2 DEF CauseInv, DeadWithCause
<1>3. ASSUME t \in B, Doomed(t, f[t]), row'[t] = Killed(r) PROVE Cause(row'[t], attempts'[t])
  <2>1. row'[t].attempt = r.attempt /\ row'[t].tier = r.tier
    BY <1>1, <1>3 DEF Killed, Row
  <2>2. r.tier \in Tiers /\ r.class \in FailureClasses /\ \E k \in Tiers : e[k][r.class] > 0
    BY <1>1, <1>3 DEF Classify, Tallied, ClassReported, Row
  <2>3. CASE r.class = "POISON" \/ r.attempt >= MaxTotal
    BY <1>1, <2>1, <2>2, <2>3 DEF Cause
  <2>4. CASE InfraSpent(t)
    <3>1. InfraCount(e) >= MaxInfra /\ InfraCount(e) <= MaxInfra /\ InfraCount(e) \in Nat
      BY <1>1, <2>4, InfraCountType
      DEF InfraSpent, InfraReports, InfraCount, Tallied
    <3> QED
      BY <1>1, <3>1, LimitAssumption DEF Cause
  <2>5. CASE TierSpent(t) /\ NowhereToGo(t, f[t])
    <3>1. f[t] \in Flags
      BY <1>3
    <3>2. NextTier(r.tier) = NoTier
      BY <2>5, <3>1 DEF NowhereToGo, FlagsNormal
    <3>3. r.tier = NTiers
      BY <2>2, <3>2, LimitAssumption DEF NextTier, NoTier, Tiers
    <3>4. e[NTiers]["CAPABILITY"] \in Nat
      BY <1>1, <2>2, <3>3 DEF Evidence, Outcomes, FailureClasses
    <3>5. e[NTiers]["CAPABILITY"] = MaxPerTier
      BY <1>1, <2>2, <2>5, <3>3, <3>4, LimitAssumption DEF TierSpent, Tallied
    <3> QED
      BY <1>1, <2>1, <3>3, <3>5 DEF Cause
  <2>6. f[t].retries
    BY <1>3 DEF FlagsNormal
  <2> QED
    BY <1>3, <2>3, <2>4, <2>5, <2>6 DEF Doomed
<1>4. ASSUME t \notin B, Cancelled(t), NEW u \in B, AgentOf(t) = AgentOf(u) PROVE FALSE
  <2>1. u \in Tasks /\ row[u].status = "failed" /\ row[t].status = "pending"
    BY <1>4 DEF Classify, Cancelled
  <2>2. AtCursor(u)
    BY <1>1, <2>1 DEF WorkAtCursor
  <2>3. u = t
    BY <1>4, <2>1, <2>2, TaskIdentity DEF AtCursor
  <2> QED
    BY <2>1, <2>3
<1>5. \/ row'[t] = r
      \/ t \in B /\ Doomed(t, f[t]) /\ row'[t] = Killed(r)
      \/ t \in B /\ ~Doomed(t, f[t]) /\ (row'[t] = Promoted(r) \/ row'[t] = Retried(r))
      \/ t \notin B /\ Cancelled(t) /\ \E u \in B : AgentOf(t) = AgentOf(u)
  BY DEF Classify, Routed
<1>6. Promoted(r).status = "pending" /\ Retried(r).status = "pending"
  BY <1>1 DEF Promoted, Retried, Row
<1> QED
  BY <1>2, <1>3, <1>4, <1>5, <1>6

LEMMA CauseStep ==
  ASSUME FlagsNormal, CauseInv, [Next]_vars
  PROVE CauseInv'
<1>1. TallyInv' /\ TypeOK /\ PlanInv
  BY TallyStep DEF CauseInv, TallyInv, PlanInv
<1>2. ASSUME NEW t \in Tasks, Settled(t), row'[t].status = "dead", AtCursor(t)'
      PROVE Cause(row'[t], attempts'[t])
  <2>1. agentStatus[AgentOf(t)] = "failed" /\ AgentOf(t) \in Agents
    BY <1>1, <1>2, TaskIdentity DEF Settled, PlanInv, DeadIsFailed
  <2>2. cursor'[AgentOf(t)] = cursor[AgentOf(t)]
    <3>1. [Progress!Next]_(Progress!progress)
      BY <1>1, RefineStep
    <3> QED
      BY <1>1, <2>1, <3>1
      DEF Progress!Next, Progress!progress, Progress!Start, Progress!Advance, Progress!Fail,
          Progress!Close, TypeOK
  <2>3. AtCursor(t)
    BY <1>2, <2>2 DEF AtCursor
  <2> QED
    BY <1>2, <2>3 DEF Settled, CauseInv, DeadWithCause, Cause
<1>3. ASSUME NEW B \in SUBSET Tasks, NEW f \in [B -> Flags], Classify(B, f)
      PROVE DeadWithCause'
  <2>1. \A t \in Tasks : AtCursor(t)' = AtCursor(t)
    BY <1>3 DEF Classify, AtCursor
  <2> QED
    BY <1>3, <2>1, CauseClassify DEF DeadWithCause
<1>4. ASSUME \A t \in Tasks : Settled(t) PROVE DeadWithCause'
  BY <1>2, <1>4 DEF DeadWithCause
<1>5. ASSUME NEW w \in Workers, Worker(w) PROVE DeadWithCause'
  BY <1>1, <1>4, <1>5, SettledWorker DEF PlanInv
<1>6. ASSUME \/ AnySubmission
             \/ \E B \in SUBSET Tasks : Reap(B)
             \/ \E B \in SUBSET Agents : Repair(B) \/ Finalise(B)
             \/ Environment
             \/ UNCHANGED vars
      PROVE DeadWithCause'
  BY <1>1, <1>4, <1>6, SettledElsewhere
<1>7. ASSUME NEW B \in SUBSET {t \in Tasks : row[t].status = "failed"},
             NEW f \in [B -> Flags], Classify(B, f)
      PROVE DeadWithCause'
  <2>1. B \in SUBSET Tasks
    OBVIOUS
  <2> QED
    BY <1>3, <1>7, <2>1
<1>8. DeadWithCause'
  BY <1>5, <1>6, <1>7 DEF Next, Orchestrator
<1> QED
  BY <1>1, <1>8 DEF CauseInv

----------------------------------------------------------------------------
(* The theorems *)

\* Whoever passes a fence, with an id of its own or not: a task commits once, exactly
\* when its row says so, and MAX_INFRA_ATTEMPTS bounds the infrastructure failures
\* reported for it.
THEOREM SharedIdsBounded == Spec => [](OneCommitSomewhere /\ InfraBudgetHolds)
<1>1. ASSUME TallyInv PROVE OneCommitSomewhere /\ InfraBudgetHolds
  BY <1>1
  DEF TallyInv, Tallied, CommitsSomewhere, OneCommitSomewhere, InfraBudgetHolds,
      InfraReports, InfraCount
<1> QED
  BY <1>1, TallyInvariant, PTL

\* With the flags at their defaults, a task that is dead-lettered had a poison
\* failure, as many handouts at its tier as MAX_TOTAL_ATTEMPTS, as many reported
\* infrastructure failures as MAX_INFRA_ATTEMPTS (reclaims not counted, against
\* classify.py:36-38 and README.md:203), or a full budget of capability failures at
\* the top tier.
THEOREM KilledForCauseHolds ==
  ASSUME FlagsNormal
  PROVE Spec => []KilledForCause
<1>1. Init => CauseInv
  <2> SUFFICES ASSUME Init PROVE CauseInv
    OBVIOUS
  <2>1. TallyInv
    BY PlanInit, TallyInit DEF TallyInv
  <2>2. \A t \in Tasks : row[t].status = "absent"
    BY DEF Init, NoRow
  <2> QED
    BY <2>1, <2>2 DEF CauseInv, DeadWithCause
<1>2. CauseInv /\ [Next]_vars => CauseInv'
  BY CauseStep
<1>3. CauseInv => KilledForCause
  BY DEF CauseInv, DeadWithCause, Cause, KilledForCause, InfraCount, InfraReports
<1> QED
  BY <1>1, <1>2, <1>3, PTL DEF Spec
=============================================================================

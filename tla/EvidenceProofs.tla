--------------------------- MODULE EvidenceProofs --------------------------
(***************************************************************************)
(* The evidence in attempts: what it says of the handouts of a task, which *)
(* promotions it has paid for, and that the budgets read from it hold.     *)
(*                                                                         *)
(* All of it needs worker ids to be distinct: a worker that passes the     *)
(* fence of another's handout records its outcome at the wrong tier.       *)
(***************************************************************************)
EXTENDS PlanSafetyProofs, FiniteSetTheorems

\* What the fences take for granted of WORKER_ID (src/common/config.py).
IdsDistinct == \A v, w \in Workers : WorkerId[v] = WorkerId[w] => v = w

Evidence == [Tiers -> [Outcomes -> Nat]]

\* All attempts in the counts n of one tier.
Total(n) == n["succeeded"] + n["reclaimed"] + n["INFRA"] + n["CAPABILITY"] + n["POISON"]

InfraCount(e) == Cardinality(AttemptRows(e, "INFRA"))

----------------------------------------------------------------------------
(* What a row r and the evidence e recorded under it say of each other. *)

Honest(r, e) ==
  r.status # "absent" =>
    /\ r.attempt = Total(e[r.tier]) + (IF r.status = "running" THEN 1 ELSE 0)
    /\ \A k \in Tiers : k > r.tier => Total(e[k]) = 0

CommitsOnce(r, e) ==
  \A k \in Tiers :
    e[k]["succeeded"] = IF r.status = "succeeded" /\ k = r.tier THEN 1 ELSE 0

Paid(r, e) ==
  \A k \in Tiers : k < r.tier => Total(e[k]) = 0 \/ e[k]["CAPABILITY"] = MaxPerTier

InBudget(e) ==
  /\ InfraCount(e) <= MaxInfra
  /\ \A k \in Tiers : e[k]["CAPABILITY"] <= MaxPerTier

\* A task that can still be handed out, or that failed for another reason, has some
\* of the budget left: this is what keeps a budget from being overrun.
Open(r, fc) ==
  \/ r.status \in {"pending", "running"}
  \/ r.status = "failed" /\ r.class # fc
Headroom(r, e) ==
  /\ Open(r, "CAPABILITY") => e[r.tier]["CAPABILITY"] < MaxPerTier
  /\ Open(r, "INFRA") => InfraCount(e) < MaxInfra

\* The class of a failed row is that of a report recorded at its tier.
ClassRecorded(r, e) ==
  r.status = "failed" => r.class \in FailureClasses /\ e[r.tier][r.class] > 0

Accounted(r, e) ==
  /\ IsFiniteSet(AttemptRows(e, "INFRA"))
  /\ r.status = "absent" => e = NoEvidence
  /\ Honest(r, e)
  /\ CommitsOnce(r, e)
  /\ Paid(r, e)
  /\ InBudget(e)
  /\ Headroom(r, e)
  /\ ClassRecorded(r, e)

\* A worker that passes the fence knows the attempt and the tier its row has.
HoldsHandout ==
  \A w \in Workers : hold[w] # Idle /\ Fenced(w) =>
    /\ hold[w].attempt = row[hold[w].task].attempt
    /\ hold[w].tier = row[hold[w].task].tier

EvidenceInv ==
  /\ PlanInv
  /\ HoldsHandout
  /\ \A t \in Tasks : Accounted(row[t], attempts[t])

----------------------------------------------------------------------------
(* Counting: one more record of an outcome is one more row. *)

Recording(e, k, o) == [e EXCEPT ![k][o] = @ + 1]

LEMMA TotalType ==
  ASSUME NEW e \in Evidence, NEW k \in Tiers
  PROVE /\ Total(e[k]) \in Nat
        /\ Total(e[k]) = 0 => \A o \in Outcomes : e[k][o] = 0
<1>1. \A o \in Outcomes : e[k][o] \in Nat
  BY DEF Evidence
<1>2. Outcomes = {"succeeded", "reclaimed", "INFRA", "CAPABILITY", "POISON"}
  BY DEF Outcomes, FailureClasses
<1>3. Total(e[k]) \in Nat
  BY <1>1, <1>2 DEF Total
<1>4. ASSUME Total(e[k]) = 0, NEW o \in Outcomes PROVE e[k][o] = 0
  <2> DEFINE su == e[k]["succeeded"]
  <2> DEFINE re == e[k]["reclaimed"]
  <2> DEFINE in == e[k]["INFRA"]
  <2> DEFINE ca == e[k]["CAPABILITY"]
  <2> DEFINE po == e[k]["POISON"]
  <2>1. su \in Nat /\ re \in Nat /\ in \in Nat /\ ca \in Nat /\ po \in Nat
    BY <1>1, <1>2
  <2>2. su + re + in + ca + po = 0
    BY <1>4 DEF Total
  <2>3. o = "succeeded" \/ o = "reclaimed" \/ o = "INFRA" \/ o = "CAPABILITY" \/ o = "POISON"
    BY <1>2
  <2>4. e[k][o] \in {su, re, in, ca, po}
    BY <2>3
  <2> HIDE DEF su, re, in, ca, po
  <2>5. su = 0 /\ re = 0 /\ in = 0 /\ ca = 0 /\ po = 0
    BY <2>1, <2>2
  <2> QED
    BY <2>4, <2>5
<1> QED
  BY <1>3, <1>4

LEMMA RecordingType ==
  ASSUME NEW e \in Evidence, NEW k \in Tiers, NEW o \in Outcomes
  PROVE /\ Recording(e, k, o) \in Evidence
        /\ \A j \in Tiers, p \in Outcomes :
             Recording(e, k, o)[j][p] = IF j = k /\ p = o THEN e[j][p] + 1 ELSE e[j][p]
        /\ \A j \in Tiers :
             Total(Recording(e, k, o)[j]) = IF j = k THEN Total(e[j]) + 1 ELSE Total(e[j])
<1>1. Recording(e, k, o) \in Evidence
  BY DEF Evidence, Recording
<1>2. \A j \in Tiers, p \in Outcomes :
        Recording(e, k, o)[j][p] = IF j = k /\ p = o THEN e[j][p] + 1 ELSE e[j][p]
  BY DEF Evidence, Recording
<1>3. \A j \in Tiers, p \in Outcomes : e[j][p] \in Nat
  BY DEF Evidence
<1>4. \A j \in Tiers :
        Total(Recording(e, k, o)[j]) = IF j = k THEN Total(e[j]) + 1 ELSE Total(e[j])
  BY <1>2, <1>3 DEF Total, Outcomes, FailureClasses
<1> QED
  BY <1>1, <1>2, <1>4

LEMMA InfraCountType ==
  ASSUME NEW e, IsFiniteSet(AttemptRows(e, "INFRA"))
  PROVE InfraCount(e) \in Nat
BY FS_CardinalityType DEF InfraCount

LEMMA InfraCountNone ==
  /\ IsFiniteSet(AttemptRows(NoEvidence, "INFRA"))
  /\ InfraCount(NoEvidence) = 0
<1>1. \A k \in Tiers : NoEvidence[k]["INFRA"] = 0
  BY DEF NoEvidence, Outcomes, FailureClasses
<1>2. AttemptRows(NoEvidence, "INFRA") = {}
  BY <1>1 DEF AttemptRows
<1> QED
  BY <1>2, FS_EmptySet DEF InfraCount

LEMMA InfraCountOther ==
  ASSUME NEW e \in Evidence, NEW k \in Tiers, NEW o \in Outcomes, o # "INFRA"
  PROVE /\ AttemptRows(Recording(e, k, o), "INFRA") = AttemptRows(e, "INFRA")
        /\ InfraCount(Recording(e, k, o)) = InfraCount(e)
<1>1. \A j \in Tiers : Recording(e, k, o)[j]["INFRA"] = e[j]["INFRA"]
  <2>1. "INFRA" \in Outcomes
    BY DEF Outcomes, FailureClasses
  <2> QED
    BY <2>1, RecordingType
<1>2. AttemptRows(Recording(e, k, o), "INFRA") = AttemptRows(e, "INFRA")
  BY <1>1 DEF AttemptRows
<1> QED
  BY <1>2 DEF InfraCount

LEMMA InfraCountOneMore ==
  ASSUME NEW e \in Evidence, NEW k \in Tiers, IsFiniteSet(AttemptRows(e, "INFRA"))
  PROVE /\ IsFiniteSet(AttemptRows(Recording(e, k, "INFRA"), "INFRA"))
        /\ InfraCount(Recording(e, k, "INFRA")) = InfraCount(e) + 1
<1> DEFINE n == e[k]["INFRA"]
<1>1. "INFRA" \in Outcomes
  BY DEF Outcomes, FailureClasses
<1>2. \A j \in Tiers : e[j]["INFRA"] \in Nat
  BY <1>1 DEF Evidence
<1>3. \A j \in Tiers :
        Recording(e, k, "INFRA")[j]["INFRA"] = IF j = k THEN e[j]["INFRA"] + 1 ELSE e[j]["INFRA"]
  BY <1>1, RecordingType
<1>4. \A j \in Tiers : \A i : <<j, i>> \in AttemptRows(e, "INFRA") <=> i \in 1 .. e[j]["INFRA"]
  BY DEF AttemptRows
<1>5. <<k, n + 1>> \notin AttemptRows(e, "INFRA")
  BY <1>2, <1>4
<1>6. AttemptRows(Recording(e, k, "INFRA"), "INFRA") = AttemptRows(e, "INFRA") \cup {<<k, n + 1>>}
  <2>1. \A j \in Tiers : \A i : <<j, i>> \in AttemptRows(Recording(e, k, "INFRA"), "INFRA") <=>
          i \in 1 .. Recording(e, k, "INFRA")[j]["INFRA"]
    BY DEF AttemptRows
  <2>2. ASSUME NEW j \in Tiers, NEW i
        PROVE i \in 1 .. Recording(e, k, "INFRA")[j]["INFRA"] <=>
                \/ i \in 1 .. e[j]["INFRA"]
                \/ j = k /\ i = n + 1
    <3>1. CASE j = k
      BY <1>2, <1>3, <3>1
    <3>2. CASE j # k
      BY <1>3, <3>2
    <3> QED
      BY <3>1, <3>2
  <2>3. \A c : \A x \in AttemptRows(c, "INFRA") : \E j \in Tiers : \E i : x = <<j, i>>
    BY DEF AttemptRows
  <2>4. \A x \in AttemptRows(Recording(e, k, "INFRA"), "INFRA") :
          x \in AttemptRows(e, "INFRA") \cup {<<k, n + 1>>}
    BY <1>4, <2>1, <2>2, <2>3
  <2>5. \A x \in AttemptRows(e, "INFRA") \cup {<<k, n + 1>>} :
          x \in AttemptRows(Recording(e, k, "INFRA"), "INFRA")
    BY <1>4, <2>1, <2>2, <2>3
  <2> QED
    BY <2>4, <2>5
<1> QED
  BY <1>5, <1>6, FS_AddElement DEF InfraCount

----------------------------------------------------------------------------
(* Every update of a row, with what it records, keeps the account. *)

LEMMA InsertAccounted ==
  ASSUME NEW k \in Tiers
  PROVE Accounted(NewRow(k), NoEvidence) /\ Accounted(NoRow, NoEvidence)
<1>1. \A j \in Tiers, o \in Outcomes : NoEvidence[j][o] = 0
  BY DEF NoEvidence
<1>2. {"succeeded", "reclaimed", "INFRA", "CAPABILITY", "POISON"} \subseteq Outcomes
  BY DEF Outcomes, FailureClasses
<1>3. \A j \in Tiers : Total(NoEvidence[j]) = 0
  BY <1>1, <1>2 DEF Total
<1>4. /\ NewRow(k).status = "pending" /\ NewRow(k).tier = k /\ NewRow(k).attempt = 0
      /\ NoRow.status = "absent" /\ NoRow.tier = BaseTier
  BY DEF NewRow, NoRow
<1>5. BaseTier \in Tiers
  BY LimitAssumption DEF BaseTier, Tiers
<1> QED
  BY <1>1, <1>2, <1>3, <1>4, <1>5, InfraCountNone, LimitAssumption
  DEF Accounted, Honest, CommitsOnce, Paid, InBudget, Headroom, Open, ClassRecorded

\* Only the status, tier, attempt and class of a row are accounted for.
LEMMA SameAccounted ==
  ASSUME NEW r, NEW s, NEW e, Accounted(r, e),
         s.status = r.status, s.tier = r.tier, s.attempt = r.attempt, s.class = r.class
  PROVE Accounted(s, e)
BY DEF Accounted, Honest, CommitsOnce, Paid, Headroom, Open, ClassRecorded

LEMMA LeasedAccounted ==
  ASSUME NEW r \in Row, NEW e \in Evidence, Accounted(r, e), r.status = "pending", NEW id
  PROVE Accounted(Leased(r, id), e)
<1>1. /\ Leased(r, id).status = "running" /\ Leased(r, id).tier = r.tier
      /\ Leased(r, id).attempt = r.attempt + 1
  BY DEF Leased, Row
<1>2. r.attempt \in Nat /\ r.tier \in Tiers
  BY DEF Row
<1>3. Total(e[r.tier]) = r.attempt
  <2>1. Total(e[r.tier]) \in Nat
    BY <1>2, TotalType
  <2> QED
    BY <1>2, <2>1 DEF Accounted, Honest
<1>4. Honest(Leased(r, id), e)
  BY <1>1, <1>2, <1>3 DEF Accounted, Honest
<1>5. Headroom(Leased(r, id), e)
  BY <1>1 DEF Accounted, Headroom, Open
<1> QED
  BY <1>1, <1>4, <1>5 DEF Accounted, CommitsOnce, Paid, ClassRecorded

\* A running row ends with an outcome that is recorded at its tier: success, a
\* failure of class o, or a reclaim.
LEMMA EndedAccounted ==
  ASSUME NEW r \in Row, NEW e \in Evidence, Accounted(r, e), r.status = "running",
         NEW o \in Outcomes, NEW s, s.tier = r.tier, s.attempt = r.attempt,
         \/ o = "succeeded" /\ s.status = "succeeded"
         \/ o = "reclaimed" /\ s.status = "pending"
         \/ o \in FailureClasses /\ s.status = "failed" /\ s.class = o
  PROVE Accounted(s, Recording(e, r.tier, o))
<1> DEFINE d == Recording(e, r.tier, o)
<1>1. r.tier \in Tiers /\ r.attempt \in Nat
  BY DEF Row
<1>2. d \in Evidence
  BY <1>1, RecordingType
<1>3. \A j \in Tiers, p \in Outcomes : d[j][p] = IF j = r.tier /\ p = o THEN e[j][p] + 1 ELSE e[j][p]
  BY <1>1, RecordingType
<1>4. \A j \in Tiers : Total(d[j]) = IF j = r.tier THEN Total(e[j]) + 1 ELSE Total(e[j])
  BY <1>1, RecordingType
<1>5. /\ IsFiniteSet(AttemptRows(d, "INFRA"))
      /\ InfraCount(d) = IF o = "INFRA" THEN InfraCount(e) + 1 ELSE InfraCount(e)
      /\ InfraCount(e) \in Nat
  BY <1>1, InfraCountOneMore, InfraCountOther, InfraCountType DEF Accounted
<1>6. {"succeeded", "reclaimed", "INFRA", "CAPABILITY", "POISON"} \subseteq Outcomes
  BY DEF Outcomes, FailureClasses
<1>7. \A j \in Tiers, p \in Outcomes : e[j][p] \in Nat
  BY DEF Evidence
<1> HIDE DEF d
<1>8. Honest(s, d)
  <2>1. Total(e[r.tier]) \in Nat
    BY <1>1, TotalType
  <2> QED
    BY <1>1, <1>4, <2>1 DEF Accounted, Honest, Tiers
<1>9. CommitsOnce(s, d)
  <2> SUFFICES ASSUME NEW k \in Tiers
               PROVE d[k]["succeeded"] = IF s.status = "succeeded" /\ k = s.tier THEN 1 ELSE 0
    BY DEF CommitsOnce
  <2>1. e[k]["succeeded"] = 0
    BY DEF Accounted, CommitsOnce
  <2>2. o \in FailureClasses => o # "succeeded"
    BY DEF FailureClasses
  <2> QED
    BY <1>3, <1>6, <2>1, <2>2
<1>10. Paid(s, d)
  BY <1>1, <1>3, <1>4, <1>6 DEF Accounted, Paid, Tiers
<1>11. InBudget(d) /\ Headroom(s, d)
  <2>1. e[r.tier]["CAPABILITY"] < MaxPerTier /\ InfraCount(e) < MaxInfra
    <3>1. Open(r, "CAPABILITY") /\ Open(r, "INFRA")
      BY DEF Open
    <3> QED
      BY <3>1 DEF Accounted, Headroom
  <2>2. MaxPerTier \in Nat /\ MaxInfra \in Nat
    BY LimitAssumption
  <2>3. InBudget(d)
    BY <1>1, <1>3, <1>5, <1>6, <1>7, <2>1, <2>2 DEF Accounted, InBudget
  <2>4. Headroom(s, d)
    BY <1>1, <1>3, <1>5, <1>6, <1>7, <2>1, <2>2 DEF Headroom, Open
  <2> QED
    BY <2>3, <2>4
<1>12. ClassRecorded(s, d)
  <2>1. CASE s.status = "failed"
    <3>1. o \in FailureClasses /\ s.class = o
      BY <2>1
    <3>2. d[r.tier][o] = e[r.tier][o] + 1 /\ e[r.tier][o] \in Nat
      BY <1>1, <1>3, <1>7
    <3> QED
      BY <3>1, <3>2 DEF ClassRecorded
  <2> QED
    BY <2>1 DEF ClassRecorded
<1>13. s.status # "absent"
  OBVIOUS
<1> QED
  BY <1>5, <1>8, <1>9, <1>10, <1>11, <1>12, <1>13 DEF Accounted, d

LEMMA KilledAccounted ==
  ASSUME NEW r \in Row, NEW e \in Evidence, Accounted(r, e), r.status \in {"pending", "failed"}
  PROVE Accounted(Killed(r), e)
<1>1. Killed(r).status = "dead" /\ Killed(r).tier = r.tier /\ Killed(r).attempt = r.attempt
  BY DEF Killed, Row
<1> QED
  BY <1>1 DEF Accounted, Honest, CommitsOnce, Paid, Headroom, Open, ClassRecorded

\* A retry after a failure that leaves both budgets some room.
LEMMA RetriedAccounted ==
  ASSUME NEW r \in Row, NEW e \in Evidence, Accounted(r, e), r.status = "failed",
         r.class # "POISON",
         r.class = "INFRA" => InfraCount(e) < MaxInfra,
         r.class = "CAPABILITY" => e[r.tier]["CAPABILITY"] < MaxPerTier
  PROVE Accounted(Retried(r), e)
<1>1. /\ Retried(r).status = "pending" /\ Retried(r).tier = r.tier
      /\ Retried(r).attempt = r.attempt
  BY DEF Retried, Row
<1>2. e[r.tier]["CAPABILITY"] < MaxPerTier /\ InfraCount(e) < MaxInfra
  BY DEF Accounted, Headroom, Open, ClassRecorded, FailureClasses
<1> QED
  BY <1>1, <1>2 DEF Accounted, Honest, CommitsOnce, Paid, Headroom, Open, ClassRecorded

\* A promotion: the tier left is paid for, nothing is recorded at the next one, and
\* what failed was not the machine.
LEMMA PromotedAccounted ==
  ASSUME NEW r \in Row, NEW e \in Evidence, Accounted(r, e), r.status = "failed",
         r.class = "CAPABILITY", NextTier(r.tier) # NoTier,
         e[r.tier]["CAPABILITY"] >= MaxPerTier
  PROVE Accounted(Promoted(r), e)
<1> DEFINE n == NextTier(r.tier)
<1>1. r.tier \in Tiers /\ n = r.tier + 1 /\ n \in Tiers
  BY LimitAssumption DEF Row, NextTier, Tiers
<1>2. /\ Promoted(r).status = "pending" /\ Promoted(r).tier = n
      /\ Promoted(r).attempt = 0
  BY DEF Promoted, Row
<1>3. {"succeeded", "reclaimed", "INFRA", "CAPABILITY", "POISON"} \subseteq Outcomes
  BY DEF Outcomes, FailureClasses
<1>4. \A j \in Tiers, p \in Outcomes : e[j][p] \in Nat
  BY DEF Evidence
<1>5. Total(e[n]) = 0 /\ e[n]["CAPABILITY"] = 0
  <2>1. Total(e[n]) = 0
    BY <1>1 DEF Accounted, Honest, Tiers
  <2> QED
    BY <1>1, <1>3, <2>1, TotalType
<1>6. e[r.tier]["CAPABILITY"] = MaxPerTier /\ MaxPerTier \in Nat \ {0}
  BY <1>1, <1>3, <1>4, LimitAssumption DEF Accounted, InBudget
<1>7. InfraCount(e) < MaxInfra
  BY DEF Accounted, Headroom, Open
<1> HIDE DEF n
<1>8. Honest(Promoted(r), e)
  BY <1>1, <1>2, <1>5 DEF Accounted, Honest, Tiers
<1>9. Paid(Promoted(r), e)
  BY <1>1, <1>2, <1>6 DEF Accounted, Paid, Tiers
<1>10. CommitsOnce(Promoted(r), e)
  BY <1>2 DEF Accounted, CommitsOnce
<1>11. Headroom(Promoted(r), e) /\ ClassRecorded(Promoted(r), e)
  BY <1>2, <1>5, <1>6, <1>7 DEF Headroom, Open, ClassRecorded
<1> QED
  BY <1>2, <1>8, <1>9, <1>10, <1>11 DEF Accounted

----------------------------------------------------------------------------
(* The steps of the queue. *)

\* A row that runs after the step ran before it, under the same handout.
Steady(t) ==
  row'[t].status = "running" =>
    /\ row[t].status = "running" /\ gen'[t] = gen[t]
    /\ row'[t].owner = row[t].owner
    /\ row'[t].tier = row[t].tier /\ row'[t].attempt = row[t].attempt

\* The step hands worker w nothing new.
NothingNew(w) ==
  hold'[w] # Idle =>
    /\ hold[w] # Idle
    /\ hold'[w].task = hold[w].task /\ hold'[w].gen = hold[w].gen
    /\ hold'[w].tier = hold[w].tier /\ hold'[w].attempt = hold[w].attempt

LEMMA HandoutKept ==
  ASSUME TypeOK, HoldsHandout, \A t \in Tasks : Steady(t), \A w \in Workers : NothingNew(w)
  PROVE HoldsHandout'
<1> SUFFICES ASSUME NEW w \in Workers, hold'[w] # Idle, Fenced(w)'
             PROVE /\ hold'[w].attempt = row'[hold'[w].task].attempt
                   /\ hold'[w].tier = row'[hold'[w].task].tier
  BY DEF HoldsHandout
<1>1. hold[w] # Idle /\ hold[w].task \in Tasks
  BY DEF NothingNew, TypeOK, Claim
<1>2. Fenced(w)
  BY <1>1 DEF NothingNew, Steady, Fenced
<1> QED
  BY <1>1, <1>2 DEF HoldsHandout, NothingNew, Steady, Fenced

\* Neither what marks a claim nor what drops it hands anything out.
LEMMA ClaimsOnlyMarked ==
  ASSUME TypeOK, NEW w \in Workers,
         \/ NoticeLoss(w) \/ PassLossCheck(w) \/ DiscardLost(w) \/ CheckpointRefused(w)
         \/ ReportRefused(w) \/ Abandon(w)
  PROVE \A v \in Workers : NothingNew(v)
<1>1. ASSUME NEW v \in Workers, v # w PROVE NothingNew(v)
  BY <1>1
  DEF NoticeLoss, PassLossCheck, DiscardLost, CheckpointRefused, ReportRefused, Abandon,
      Drop, NothingNew, TypeOK
<1>2. hold[w] # Idle => hold[w] \in Claim
  BY DEF TypeOK
<1>3. NothingNew(w)
  BY <1>2
  DEF NoticeLoss, PassLossCheck, DiscardLost, CheckpointRefused, ReportRefused, Abandon,
      Drop, NothingNew, TypeOK, Claim
<1> QED
  BY <1>1, <1>3

LEMMA EvidenceTypes ==
  ASSUME TypeOK, NEW t \in Tasks
  PROVE row[t] \in Row /\ attempts[t] \in Evidence
BY DEF TypeOK, Evidence

\* Setting a clock column leaves the rest of the row.
LEMMA ClockOnly ==
  ASSUME TypeOK, NEW t \in Tasks,
         \/ row'[t] = row[t]
         \/ row'[t] = [row[t] EXCEPT !.expired = FALSE]
         \/ row'[t] = [row[t] EXCEPT !.expired = TRUE]
         \/ row'[t] = [row[t] EXCEPT !.due = TRUE]
  PROVE /\ row'[t].status = row[t].status /\ row'[t].tier = row[t].tier
        /\ row'[t].attempt = row[t].attempt /\ row'[t].class = row[t].class
        /\ row'[t].owner = row[t].owner
<1>1. row[t] \in Row
  BY EvidenceTypes
<1> QED
  BY <1>1 DEF Row

\* What Record does to the evidence of its task and of the others.
LEMMA RecordIsRecording ==
  ASSUME TypeOK, NEW t \in Tasks, NEW k \in Tiers, NEW o \in Outcomes, Record(t, k, o)
  PROVE /\ attempts'[t] = Recording(attempts[t], k, o)
        /\ \A u \in Tasks \ {t} : attempts'[u] = attempts[u]
BY DEF Record, Recording, TypeOK

LEMMA EvidenceInit == Init => HoldsHandout /\ \A t \in Tasks : Accounted(row[t], attempts[t])
<1> SUFFICES ASSUME Init PROVE HoldsHandout /\ \A t \in Tasks : Accounted(row[t], attempts[t])
  OBVIOUS
<1>1. HoldsHandout
  BY DEF Init, HoldsHandout
<1>2. BaseTier \in Tiers
  BY LimitAssumption DEF BaseTier, Tiers
<1>3. \A t \in Tasks : row[t] = NoRow /\ attempts[t] = NoEvidence
  BY DEF Init
<1> QED
  BY <1>1, <1>2, <1>3, InsertAccounted

\* A step that leaves the evidence alone, and of each row what is accounted for.
LEMMA EvidenceQuiet ==
  ASSUME TypeOK, HoldsHandout, \A t \in Tasks : Accounted(row[t], attempts[t]),
         UNCHANGED <<attempts, gen>>, \A w \in Workers : NothingNew(w),
         \A t \in Tasks : /\ row'[t].status = row[t].status /\ row'[t].tier = row[t].tier
                          /\ row'[t].attempt = row[t].attempt /\ row'[t].class = row[t].class
                          /\ row'[t].owner = row[t].owner
  PROVE HoldsHandout' /\ \A t \in Tasks : Accounted(row'[t], attempts'[t])
<1>1. HoldsHandout'
  BY HandoutKept DEF Steady
<1>2. ASSUME NEW t \in Tasks PROVE Accounted(row'[t], attempts'[t])
  BY SameAccounted
<1> QED
  BY <1>1, <1>2

LEMMA EvidenceSubmission ==
  ASSUME EvidenceInv, AnySubmission
  PROVE HoldsHandout' /\ \A t \in Tasks : Accounted(row'[t], attempts'[t])
<1>1. PICK B \in SUBSET Agents, k \in Tiers :
        (\A a \in B : agentStatus[a] = "absent") /\ InsertAgents(B, k)
  <2>1. BaseTier \in Tiers /\ \A f \in Flags : StartTier(f) \in Tiers
    BY FlagsAssumption, LimitAssumption DEF StartTier, Tiers, BaseTier, NoTier
  <2> QED
    BY <2>1 DEF AnySubmission, Submit, Seed
<1>2. ASSUME NEW t \in Tasks
      PROVE \/ row'[t] = row[t]
            \/ row[t].status = "absent" /\ row'[t] = NewRow(k)
  BY <1>1, TaskIdentity DEF InsertAgents, EvidenceInv, PlanInv, RowsInPlan, Present
<1>3. UNCHANGED <<attempts, gen, hold>>
  BY <1>1 DEF InsertAgents
<1>4. NewRow(k).status = "pending"
  BY DEF NewRow, NoRow
<1>5. HoldsHandout'
  BY <1>2, <1>3, <1>4, HandoutKept DEF Steady, NothingNew, EvidenceInv, PlanInv
<1>6. ASSUME NEW t \in Tasks PROVE Accounted(row'[t], attempts'[t])
  <2>1. Accounted(row[t], attempts[t])
    BY DEF EvidenceInv
  <2> QED
    BY <1>2, <1>3, <2>1, InsertAccounted DEF Accounted
<1> QED
  BY <1>5, <1>6

\* A handout: the new owner's id is no other worker's, so whoever held the task
\* before does not pass the fence.
LEMMA EvidenceClaim ==
  ASSUME IdsDistinct, EvidenceInv, TypeOK', NEW w \in Workers, NEW t \in Tasks, ClaimOne(w, t)
  PROVE HoldsHandout' /\ \A u \in Tasks : Accounted(row'[u], attempts'[u])
<1>1. TypeOK /\ HoldsHandout /\ \A u \in Tasks : Accounted(row[u], attempts[u])
  BY DEF EvidenceInv, PlanInv
<1>2. /\ row'[t] = Leased(row[t], WorkerId[w]) /\ row[t].status = "pending"
      /\ \A u \in Tasks \ {t} : row'[u] = row[u]
      /\ UNCHANGED <<attempts, gen>>
  BY <1>1 DEF ClaimOne, Claimable, TypeOK
<1>3. row[t] \in Row
  BY <1>1, EvidenceTypes
<1>4. /\ row'[t].owner = WorkerId[w] /\ row'[t].tier = row[t].tier
      /\ row'[t].attempt = row[t].attempt + 1
  BY <1>2, <1>3 DEF Leased, Row
<1>5. /\ hold'[w].task = t /\ hold'[w].tier = row[t].tier /\ hold'[w].attempt = row[t].attempt + 1
      /\ \A v \in Workers \ {w} : hold'[v] = hold[v]
  BY <1>1 DEF ClaimOne, TypeOK
<1>6. ASSUME NEW v \in Workers, hold'[v] # Idle, Fenced(v)'
      PROVE /\ hold'[v].attempt = row'[hold'[v].task].attempt
            /\ hold'[v].tier = row'[hold'[v].task].tier
  <2>1. CASE v = w
    BY <1>4, <1>5, <2>1
  <2>2. CASE v # w
    <3>1. hold'[v] = hold[v] /\ hold[v].task \in Tasks
      BY <1>1, <1>5, <1>6, <2>2 DEF TypeOK, Claim
    <3>2. hold[v].task # t
      BY <1>4, <1>6, <2>2, <3>1 DEF Fenced, IdsDistinct
    <3> QED
      BY <1>1, <1>2, <1>6, <3>1, <3>2 DEF Fenced, HoldsHandout
  <2> QED
    BY <2>1, <2>2
<1>7. ASSUME NEW u \in Tasks PROVE Accounted(row'[u], attempts'[u])
  BY <1>1, <1>2, EvidenceTypes, LeasedAccounted
<1> QED
  BY <1>6, <1>7 DEF HoldsHandout

\* The end of a handout that passes the fence, which is recorded where it belongs.
LEMMA EvidenceEnds ==
  ASSUME EvidenceInv, NEW w \in Workers, hold[w] # Idle, Fenced(w),
         NEW o \in Outcomes, NEW s, Record(hold[w].task, hold[w].tier, o),
         row' = [row EXCEPT ![hold[w].task] = s], UNCHANGED gen, Drop(w),
         s.tier = row[hold[w].task].tier, s.attempt = row[hold[w].task].attempt,
         \/ o = "succeeded" /\ s.status = "succeeded"
         \/ o \in FailureClasses /\ s.status = "failed" /\ s.class = o
  PROVE HoldsHandout' /\ \A t \in Tasks : Accounted(row'[t], attempts'[t])
<1> DEFINE t == hold[w].task
<1>1. TypeOK /\ HoldsHandout /\ \A u \in Tasks : Accounted(row[u], attempts[u])
  BY DEF EvidenceInv, PlanInv
<1>2. t \in Tasks
  BY <1>1 DEF TypeOK, Claim
<1>3. hold[w].tier = row[t].tier /\ row[t].status = "running" /\ row[t].tier \in Tiers
  BY <1>1, <1>2, EvidenceTypes DEF HoldsHandout, Fenced, Row
<1>4. /\ attempts'[t] = Recording(attempts[t], row[t].tier, o)
      /\ \A u \in Tasks \ {t} : attempts'[u] = attempts[u]
  BY <1>1, <1>2, <1>3, RecordIsRecording
<1>5. row'[t] = s /\ \A u \in Tasks \ {t} : row'[u] = row[u]
  BY <1>1, <1>2 DEF TypeOK
<1>6. HoldsHandout'
  <2>1. \A u \in Tasks : Steady(u)
    BY <1>5 DEF Steady
  <2>2. \A v \in Workers : NothingNew(v)
    BY <1>1 DEF NothingNew, Drop, TypeOK
  <2> QED
    BY <1>1, <2>1, <2>2, HandoutKept
<1>7. Accounted(row'[t], attempts'[t])
  BY <1>1, <1>2, <1>3, <1>4, <1>5, EvidenceTypes, EndedAccounted
<1> QED
  BY <1>1, <1>4, <1>5, <1>6, <1>7

LEMMA EvidenceWorker ==
  ASSUME IdsDistinct, EvidenceInv, TypeOK', NEW w \in Workers, Worker(w)
  PROVE HoldsHandout' /\ \A t \in Tasks : Accounted(row'[t], attempts'[t])
<1>1. TypeOK /\ HoldsHandout /\ \A u \in Tasks : Accounted(row[u], attempts[u])
  BY DEF EvidenceInv, PlanInv
<1>2. hold[w] # Idle => hold[w].task \in Tasks
  BY <1>1 DEF TypeOK, Claim
<1>3. CASE \E t \in Tasks : ClaimOne(w, t)
  BY <1>3, EvidenceClaim
<1>4. CASE Renew(w)
  <2>1. UNCHANGED <<attempts, gen, hold>>
    BY <1>4 DEF Renew
  <2>2. \A t \in Tasks : row'[t] = row[t] \/ row'[t] = [row[t] EXCEPT !.expired = FALSE]
    BY <1>1, <1>2, <1>4 DEF Renew, TypeOK
  <2>3. \A t \in Tasks : /\ row'[t].status = row[t].status /\ row'[t].tier = row[t].tier
                         /\ row'[t].attempt = row[t].attempt /\ row'[t].class = row[t].class
                         /\ row'[t].owner = row[t].owner
    BY <1>1, <2>2, ClockOnly
  <2> QED
    BY <1>1, <2>1, <2>3, EvidenceQuiet DEF NothingNew
<1>5. CASE \/ NoticeLoss(w) \/ PassLossCheck(w) \/ DiscardLost(w) \/ CheckpointRefused(w)
           \/ ReportRefused(w) \/ Abandon(w)
  <2>1. UNCHANGED <<attempts, gen, row>>
    BY <1>5 DEF NoticeLoss, PassLossCheck, DiscardLost, CheckpointRefused, ReportRefused, Abandon
  <2>2. \A v \in Workers : NothingNew(v)
    BY <1>1, <1>5, ClaimsOnlyMarked
  <2> QED
    BY <1>1, <2>1, <2>2, EvidenceQuiet
<1>6. CASE CheckpointSuccess(w)
  <2> DEFINE s == Succeeded(row[hold[w].task])
  <2>1. hold[w] # Idle /\ Fenced(w)
    BY <1>6 DEF CheckpointSuccess, CheckpointFence
  <2>2. row[hold[w].task] \in Row
    BY <1>1, <1>2, <2>1, EvidenceTypes
  <2>3. /\ s.status = "succeeded" /\ s.tier = row[hold[w].task].tier
        /\ s.attempt = row[hold[w].task].attempt
    BY <2>2 DEF Succeeded, Row
  <2>4. /\ Record(hold[w].task, hold[w].tier, "succeeded") /\ Drop(w) /\ UNCHANGED gen
        /\ row' = [row EXCEPT ![hold[w].task] = s]
    BY <1>6 DEF CheckpointSuccess
  <2> HIDE DEF s
  <2>5. "succeeded" \in Outcomes
    BY DEF Outcomes
  <2> QED
    BY <2>1, <2>3, <2>4, <2>5, EvidenceEnds
<1>7. ASSUME NEW fc \in FailureClasses, ReportFailure(w, fc)
      PROVE HoldsHandout' /\ \A t \in Tasks : Accounted(row'[t], attempts'[t])
  <2> DEFINE s == Failed(row[hold[w].task], fc)
  <2>1. hold[w] # Idle /\ Fenced(w)
    BY <1>7 DEF ReportFailure
  <2>2. row[hold[w].task] \in Row
    BY <1>1, <1>2, <2>1, EvidenceTypes
  <2>3. /\ s.status = "failed" /\ s.class = fc /\ s.tier = row[hold[w].task].tier
        /\ s.attempt = row[hold[w].task].attempt
    BY <2>2 DEF Failed, Row
  <2>4. /\ Record(hold[w].task, hold[w].tier, fc) /\ Drop(w) /\ UNCHANGED gen
        /\ row' = [row EXCEPT ![hold[w].task] = s]
    BY <1>7 DEF ReportFailure
  <2> HIDE DEF s
  <2>5. fc \in Outcomes
    BY DEF Outcomes
  <2> QED
    BY <2>1, <2>3, <2>4, <2>5, EvidenceEnds
<1> QED
  BY <1>3, <1>4, <1>5, <1>6, <1>7 DEF Worker, WorkerStep

LEMMA EvidenceReap ==
  ASSUME EvidenceInv, NEW B \in SUBSET Tasks, Reap(B)
  PROVE HoldsHandout' /\ \A t \in Tasks : Accounted(row'[t], attempts'[t])
<1>1. TypeOK /\ HoldsHandout /\ \A u \in Tasks : Accounted(row[u], attempts[u])
  BY DEF EvidenceInv, PlanInv
<1>2. UNCHANGED <<gen, hold>>
  BY DEF Reap
<1>3. ASSUME NEW t \in Tasks, t \notin B PROVE row'[t] = row[t] /\ attempts'[t] = attempts[t]
  BY <1>3 DEF Reap
<1>4. ASSUME NEW t \in B
      PROVE /\ row[t].status = "running"
            /\ row'[t].status = "pending" /\ row'[t].tier = row[t].tier
            /\ row'[t].attempt = row[t].attempt
            /\ attempts'[t] = Recording(attempts[t], row[t].tier, "reclaimed")
  BY <1>1, EvidenceTypes DEF Reap, Reclaimable, Reclaimed, Recording, Row
<1>5. HoldsHandout'
  BY <1>1, <1>2, <1>3, <1>4, HandoutKept DEF Steady, NothingNew
<1>6. ASSUME NEW t \in Tasks PROVE Accounted(row'[t], attempts'[t])
  <2>1. CASE t \in B
    BY <1>1, <1>4, <2>1, EvidenceTypes, EndedAccounted DEF Outcomes
  <2> QED
    BY <1>1, <1>3, <2>1
<1> QED
  BY <1>5, <1>6

LEMMA EvidenceRepair ==
  ASSUME EvidenceInv, NEW B \in SUBSET Agents, Repair(B)
  PROVE HoldsHandout' /\ \A t \in Tasks : Accounted(row'[t], attempts'[t])
<1>1. TypeOK /\ HoldsHandout /\ \A u \in Tasks : Accounted(row[u], attempts[u])
  BY DEF EvidenceInv, PlanInv
<1>2. UNCHANGED <<gen, hold, attempts>>
  BY DEF Repair
<1>3. ASSUME NEW t \in Tasks
      PROVE \/ row'[t] = row[t]
            \/ row[t].status = "absent" /\ row'[t] = NewRow(BaseTier)
  <2>1. AtCursor(t) => t = <<AgentOf(t), cursor[AgentOf(t)]>>
    BY DEF AtCursor, Tasks, AgentOf, SeqOf
  <2> QED
    BY <2>1 DEF Repair, Stalled
<1>4. NewRow(BaseTier).status = "pending" /\ BaseTier \in Tiers
  BY LimitAssumption DEF NewRow, NoRow, BaseTier, Tiers
<1>5. HoldsHandout'
  BY <1>1, <1>2, <1>3, <1>4, HandoutKept DEF Steady, NothingNew
<1>6. ASSUME NEW t \in Tasks PROVE Accounted(row'[t], attempts'[t])
  BY <1>1, <1>2, <1>3, <1>4, InsertAccounted DEF Accounted
<1> QED
  BY <1>5, <1>6

\* Routing one failed row: killed, promoted or retried, the account still holds.
LEMMA EvidenceRouted ==
  ASSUME TypeOK, NEW t \in Tasks, Accounted(row[t], attempts[t]), row[t].status = "failed",
         NEW f
  PROVE Accounted(Routed(t, f), attempts[t]) /\ Routed(t, f).status \in {"dead", "pending"}
<1> DEFINE r == row[t]
<1> DEFINE e == attempts[t]
<1>1. r \in Row /\ e \in Evidence
  BY EvidenceTypes
<1>2. /\ Killed(r).status = "dead" /\ Promoted(r).status = "pending"
      /\ Retried(r).status = "pending"
  BY <1>1 DEF Killed, Promoted, Retried, Row
<1>3. InfraCount(e) = InfraReports(t)
  BY DEF InfraCount, InfraReports
<1>4. e[r.tier]["CAPABILITY"] \in Nat /\ MaxPerTier \in Nat /\ InfraCount(e) \in Nat /\ MaxInfra \in Nat
  <2>1. r.tier \in Tiers /\ "CAPABILITY" \in Outcomes
    BY <1>1 DEF Row, Outcomes, FailureClasses
  <2> QED
    BY <1>1, <2>1, LimitAssumption, InfraCountType DEF Evidence, Accounted
<1>5. CASE Doomed(t, f)
  BY <1>1, <1>2, <1>5, KilledAccounted DEF Routed
<1>6. CASE ~Doomed(t, f) /\ r.class = "CAPABILITY" /\ TierSpent(t)
  BY <1>1, <1>2, <1>6, PromotedAccounted DEF Routed, Doomed, TierSpent, NowhereToGo
<1>7. CASE ~Doomed(t, f) /\ ~(r.class = "CAPABILITY" /\ TierSpent(t))
  <2>1. /\ r.class # "POISON"
        /\ r.class = "INFRA" => InfraCount(e) < MaxInfra
        /\ r.class = "CAPABILITY" => e[r.tier]["CAPABILITY"] < MaxPerTier
    BY <1>3, <1>4, <1>7 DEF Doomed, InfraSpent, TierSpent
  <2> QED
    BY <1>1, <1>2, <1>7, <2>1, RetriedAccounted DEF Routed
<1> QED
  BY <1>5, <1>6, <1>7

LEMMA EvidenceClassify ==
  ASSUME EvidenceInv, NEW B \in SUBSET Tasks, NEW f \in [B -> Flags], Classify(B, f)
  PROVE HoldsHandout' /\ \A t \in Tasks : Accounted(row'[t], attempts'[t])
<1>1. TypeOK /\ HoldsHandout /\ \A u \in Tasks : Accounted(row[u], attempts[u])
  BY DEF EvidenceInv, PlanInv
<1>2. UNCHANGED <<gen, hold, attempts>>
  BY DEF Classify
<1>3. ASSUME NEW t \in Tasks
      PROVE \/ row'[t] = row[t]
            \/ row[t].status = "failed" /\ row'[t] = Routed(t, f[t])
            \/ row[t].status = "pending" /\ row'[t] = Killed(row[t])
  BY DEF Classify, Cancelled
<1>4. ASSUME NEW t \in Tasks
      PROVE /\ row'[t] = row[t] \/ row'[t].status \in {"dead", "pending"}
            /\ Accounted(row'[t], attempts'[t])
  <2>1. CASE row[t].status = "failed" /\ row'[t] = Routed(t, f[t])
    BY <1>1, <1>2, <2>1, EvidenceRouted
  <2>2. CASE row[t].status = "pending" /\ row'[t] = Killed(row[t])
    <3>1. Killed(row[t]).status = "dead"
      BY <1>1, EvidenceTypes DEF Killed, Row
    <3> QED
      BY <1>1, <1>2, <2>2, <3>1, EvidenceTypes, KilledAccounted
  <2> QED
    BY <1>1, <1>2, <1>3, <2>1, <2>2
<1>5. HoldsHandout'
  BY <1>1, <1>2, <1>4, HandoutKept DEF Steady, NothingNew
<1> QED
  BY <1>4, <1>5

LEMMA EvidenceEnvironment ==
  ASSUME EvidenceInv, Environment
  PROVE HoldsHandout' /\ \A t \in Tasks : Accounted(row'[t], attempts'[t])
<1>1. TypeOK /\ HoldsHandout /\ \A u \in Tasks : Accounted(row[u], attempts[u])
  BY DEF EvidenceInv, PlanInv
<1>2. ASSUME NEW t \in Tasks, LeaseRunsOut(t) \/ HeartbeatStalls(t) \/ BackoffElapses(t)
      PROVE HoldsHandout' /\ \A u \in Tasks : Accounted(row'[u], attempts'[u])
  <2>1. UNCHANGED <<attempts, gen, hold>>
    BY <1>2 DEF LeaseRunsOut, HeartbeatStalls, BackoffElapses, Expire
  <2>2. \A u \in Tasks : \/ row'[u] = row[u]
                         \/ row'[u] = [row[u] EXCEPT !.expired = TRUE]
                         \/ row'[u] = [row[u] EXCEPT !.due = TRUE]
    BY <1>1, <1>2 DEF LeaseRunsOut, HeartbeatStalls, BackoffElapses, Expire, TypeOK
  <2>3. \A u \in Tasks : /\ row'[u].status = row[u].status /\ row'[u].tier = row[u].tier
                         /\ row'[u].attempt = row[u].attempt /\ row'[u].class = row[u].class
                         /\ row'[u].owner = row[u].owner
    BY <1>1, <2>2, ClockOnly
  <2> QED
    BY <1>1, <2>1, <2>3, EvidenceQuiet DEF NothingNew
<1>3. ASSUME NEW t \in Tasks, LoseRow(t)
      PROVE HoldsHandout' /\ \A u \in Tasks : Accounted(row'[u], attempts'[u])
  <2>1. /\ row'[t] = NoRow /\ attempts'[t] = NoEvidence /\ UNCHANGED hold
        /\ \A u \in Tasks \ {t} : row'[u] = row[u] /\ attempts'[u] = attempts[u] /\ gen'[u] = gen[u]
    BY <1>1, <1>3 DEF LoseRow, TypeOK
  <2>2. NoRow.status = "absent" /\ BaseTier \in Tiers
    BY LimitAssumption DEF NoRow, BaseTier, Tiers
  <2>3. HoldsHandout'
    BY <1>1, <2>1, <2>2, HandoutKept DEF Steady, NothingNew
  <2> QED
    BY <1>1, <2>1, <2>2, <2>3, InsertAccounted
<1> QED
  BY <1>2, <1>3 DEF Environment

LEMMA EvidenceStep ==
  ASSUME IdsDistinct, EvidenceInv, [Next]_vars
  PROVE EvidenceInv'
<1>1. PlanInv' /\ TypeOK'
  BY PlanStep DEF EvidenceInv, PlanInv
<1>2. TypeOK /\ HoldsHandout /\ \A u \in Tasks : Accounted(row[u], attempts[u])
  BY DEF EvidenceInv, PlanInv
<1>3. CASE UNCHANGED vars
  <2>1. HoldsHandout' /\ \A t \in Tasks : Accounted(row'[t], attempts'[t])
    BY <1>2, <1>3, EvidenceQuiet DEF vars, NothingNew
  <2> QED
    BY <1>1, <2>1 DEF EvidenceInv
<1>4. CASE AnySubmission
  BY <1>1, <1>4, EvidenceSubmission DEF EvidenceInv
<1>5. CASE \E w \in Workers : Worker(w)
  BY <1>1, <1>5, EvidenceWorker DEF EvidenceInv
<1>6. CASE Orchestrator
  <2>1. ASSUME NEW B \in SUBSET Agents, Finalise(B)
        PROVE HoldsHandout' /\ \A t \in Tasks : Accounted(row'[t], attempts'[t])
    BY <1>2, <2>1, EvidenceQuiet DEF Finalise, NothingNew
  <2>2. ASSUME NEW B \in SUBSET {t \in Tasks : row[t].status = "failed"},
               NEW f \in [B -> Flags], Classify(B, f)
        PROVE HoldsHandout' /\ \A t \in Tasks : Accounted(row'[t], attempts'[t])
    <3>1. B \in SUBSET Tasks
      OBVIOUS
    <3> QED
      BY <2>2, <3>1, EvidenceClassify
  <2>3. HoldsHandout' /\ \A t \in Tasks : Accounted(row'[t], attempts'[t])
    BY <1>6, <2>1, <2>2, EvidenceReap, EvidenceRepair DEF Orchestrator
  <2> QED
    BY <1>1, <2>3 DEF EvidenceInv
<1>7. CASE Environment
  BY <1>1, <1>7, EvidenceEnvironment DEF EvidenceInv
<1>8. \/ UNCHANGED vars
      \/ AnySubmission
      \/ \E w \in Workers : Worker(w)
      \/ Orchestrator
      \/ Environment
  BY DEF Next
<1> QED
  BY <1>3, <1>4, <1>5, <1>6, <1>7, <1>8

LEMMA EvidenceInvariant ==
  ASSUME IdsDistinct
  PROVE Spec => []EvidenceInv
<1>1. Init => EvidenceInv
  BY PlanInit, EvidenceInit DEF EvidenceInv
<1>2. EvidenceInv /\ [Next]_vars => EvidenceInv'
  BY EvidenceStep
<1> QED
  BY <1>1, <1>2, PTL DEF Spec

----------------------------------------------------------------------------
(* The theorems *)

\* The fence of MARK_SUCCEEDED, REPORT_FAILURE and RENEW lets exactly one worker
\* through, the one with the latest handout of the row, as long as no two worker
\* processes write the same lease_owner.
THEOREM FenceExactHolds ==
  ASSUME IdsDistinct
  PROVE Spec => []FenceExact
<1>1. ASSUME EvidenceInv PROVE FenceExact
  <2> SUFFICES ASSUME NEW w \in Workers, hold[w] # Idle, Fenced(w)
               PROVE /\ hold[w].attempt = row[hold[w].task].attempt
                     /\ hold[w].tier = row[hold[w].task].tier
                     /\ \A v \in Workers \ {w} :
                          hold[v] # Idle /\ hold[v].task = hold[w].task => ~Fenced(v)
    BY DEF FenceExact
  <2>1. \A v \in Workers \ {w} : hold[v] # Idle /\ hold[v].task = hold[w].task => ~Fenced(v)
    BY DEF Fenced, IdsDistinct
  <2> QED
    BY <1>1, <2>1 DEF EvidenceInv, HoldsHandout
<1> QED
  BY <1>1, EvidenceInvariant, PTL

\* task_instances.attempt and the rows of attempts never disagree, and nothing is
\* recorded above the current tier, whatever was reaped, promoted or lost.
THEOREM AttemptsHonestHolds ==
  ASSUME IdsDistinct
  PROVE Spec => []AttemptsHonest
<1>1. ASSUME EvidenceInv PROVE AttemptsHonest
  BY <1>1 DEF EvidenceInv, Accounted, Honest, AttemptsHonest, Present, Recorded, Total
<1> QED
  BY <1>1, EvidenceInvariant, PTL

\* One row with outcome succeeded for a task that succeeded, at the tier the row
\* has, and none for any other task.
THEOREM OneCommitPerTaskHolds ==
  ASSUME IdsDistinct
  PROVE Spec => []OneCommitPerTask
<1>1. ASSUME EvidenceInv PROVE OneCommitPerTask
  BY <1>1 DEF EvidenceInv, Accounted, CommitsOnce, OneCommitPerTask
<1> QED
  BY <1>1, EvidenceInvariant, PTL

\* A tier a task has left has its full budget of capability failures recorded, or
\* was never tried: route_one promotes for nothing less.
THEOREM PromotionPaidHolds ==
  ASSUME IdsDistinct
  PROVE Spec => []PromotionPaid
<1>1. ASSUME EvidenceInv PROVE PromotionPaid
  BY <1>1 DEF EvidenceInv, Accounted, Paid, PromotionPaid, Recorded, Total
<1> QED
  BY <1>1, EvidenceInvariant, PTL

\* max_attempts_per_tier bounds the capability failures at every tier, and
\* MAX_INFRA_ATTEMPTS the infrastructure failures reported for a task at all tiers.
THEOREM BudgetsHoldHolds ==
  ASSUME IdsDistinct
  PROVE Spec => []BudgetsHold
<1>1. ASSUME EvidenceInv PROVE BudgetsHold
  BY <1>1 DEF EvidenceInv, Accounted, InBudget, BudgetsHold, InfraCount, InfraReports
<1> QED
  BY <1>1, EvidenceInvariant, PTL
=============================================================================

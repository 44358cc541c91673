-------------------------- MODULE AutoscalerProofs --------------------------
(***************************************************************************)
(* The autoscaler stays within its ceiling, and what it asks for is the    *)
(* least number of orchestrators that carries the load.                    *)
(***************************************************************************)
EXTENDS Autoscaler, TLAPS

\* "Keeping them consistent means the ceiling is never the thing that silently
\* limits recovery" (src/scale/autoscaler.py:64-67): max_replicas orchestrators
\* are enough for the agents that admission lets in, and for a lease of each.
CapsConsistent ==
  /\ MaxReplicas * PerAgent >= AgentCap
  /\ (MaxReplicas - 1) * PerBacklog >= AgentCap

\* math.ceil(a / b): the least number of groups of b that hold a.
LEMMA CeilDivLeast ==
  ASSUME NEW a \in Nat, NEW b \in Nat \ {0}
  PROVE /\ CeilDiv(a, b) \in Nat
        /\ \A q \in Nat : q * b >= a <=> q >= CeilDiv(a, b)
<1> DEFINE d == CeilDiv(a, b)
<1>1. d \in Int /\ d * b <= a + b - 1 /\ a + b - 1 < d * b + b
  BY DEF CeilDiv
<1> HIDE DEF d
<1>2. d \in Nat
  BY <1>1
<1>3. ASSUME NEW q \in Nat, q >= d PROVE q * b >= a
  <2>1. q * b >= d * b
    BY <1>1, <1>3
  <2>2. q * b \in Int /\ d * b \in Int
    BY <1>1
  <2> QED
    BY <2>1, <2>2, <1>1
<1>4. ASSUME NEW q \in Nat, q < d PROVE q * b < a
  <2>1. (q + 1) * b <= d * b
    BY <1>1, <1>4
  <2>2. (q + 1) * b = q * b + b /\ q * b \in Int /\ d * b \in Int
    BY <1>1
  <2> QED
    BY <2>1, <2>2, <1>1
<1> QED
  BY <1>2, <1>3, <1>4 DEF d

LEMMA MinOfTwo ==
  ASSUME NEW a \in Int, NEW b \in Int
  PROVE Min({a, b}) = IF a <= b THEN a ELSE b
BY DEF Min

LEMMA MaxOfThree ==
  ASSUME NEW a \in Int, NEW b \in Int, NEW c \in Int
  PROVE /\ Max({a, b, c}) \in {a, b, c}
        /\ \A m \in {a, b, c} : m <= Max({a, b, c})
<1>1. \E m \in {a, b, c} : \A n \in {a, b, c} : m >= n
  OBVIOUS
<1> QED
  BY <1>1 DEF Max

LEMMA MinOf ==
  ASSUME NEW S \in SUBSET Int, NEW m \in S, \A n \in S : m <= n
  PROVE Min(S) = m
<1>1. Min(S) \in S /\ \A n \in S : Min(S) <= n
  BY DEF Min
<1>2. Min(S) <= m /\ m <= Min(S) /\ Min(S) \in Int /\ m \in Int
  BY <1>1
<1> QED
  BY <1>2

----------------------------------------------------------------------------

ConstantTypes ==
  /\ PerAgent \in Nat \ {0} /\ PerBacklog \in Nat \ {0} /\ Cooldown \in Nat \ {0}
  /\ MinReplicas \in Nat \ {0} /\ MaxReplicas \in Nat \ {0} /\ MinReplicas <= MaxReplicas
  /\ AgentCap \in Nat /\ MaxAgents \in Nat /\ MaxFaults \in Nat

LEMMA ConstantsTyped == ConstantTypes
BY AutoscalerAssumption DEF ConstantTypes

\* How many orchestrators the load of agents and backlog needs, the ceiling aside.
Needed(agents, backlog) ==
  Max({MinReplicas, CeilDiv(agents, PerAgent),
       IF backlog > 0 THEN CeilDiv(backlog, PerBacklog) + 1 ELSE 0})

\* A number of orchestrators carries the load exactly when it is at least what the
\* three demands of desired_replicas come to.
LEMMA NeededIsLeast ==
  ASSUME NEW d \in [agents : Nat, backlog : Nat]
  PROVE /\ Needed(d.agents, d.backlog) \in Nat
        /\ \A r \in Nat : Carries(r, d) <=> r >= Needed(d.agents, d.backlog)
        /\ Desired(d.agents, d.backlog) =
             IF MaxReplicas <= Needed(d.agents, d.backlog)
             THEN MaxReplicas ELSE Needed(d.agents, d.backlog)
<1> DEFINE x == CeilDiv(d.agents, PerAgent)
<1> DEFINE y == IF d.backlog > 0 THEN CeilDiv(d.backlog, PerBacklog) + 1 ELSE 0
<1> DEFINE n == Needed(d.agents, d.backlog)
<1>1. ConstantTypes /\ d.agents \in Nat /\ d.backlog \in Nat
  BY ConstantsTyped
<1>2. x \in Nat /\ \A r \in Nat : r * PerAgent >= d.agents <=> r >= x
  BY <1>1, CeilDivLeast DEF ConstantTypes
<1>3. /\ y \in Nat
      /\ \A r \in Nat : r >= 1 => ((d.backlog > 0 => (r - 1) * PerBacklog >= d.backlog) <=> r >= y)
  <2>1. CASE d.backlog > 0
    <3>1. /\ CeilDiv(d.backlog, PerBacklog) \in Nat
          /\ \A q \in Nat : q * PerBacklog >= d.backlog <=> q >= CeilDiv(d.backlog, PerBacklog)
      BY <1>1, CeilDivLeast DEF ConstantTypes
    <3>2. y = CeilDiv(d.backlog, PerBacklog) + 1
      BY <2>1
    <3>3. ASSUME NEW r \in Nat, r >= 1
          PROVE (r - 1) * PerBacklog >= d.backlog <=> r >= y
      <4>1. r - 1 \in Nat
        BY <3>3
      <4>2. (r - 1) * PerBacklog >= d.backlog <=> r - 1 >= CeilDiv(d.backlog, PerBacklog)
        BY <3>1, <4>1
      <4> QED
        BY <3>1, <3>2, <4>2
    <3> QED
      BY <2>1, <3>1, <3>2, <3>3
  <2>2. CASE ~(d.backlog > 0)
    BY <2>2
  <2> QED
    BY <2>1, <2>2
<1> HIDE DEF x, y
<1>4. n \in {MinReplicas, x, y} /\ \A m \in {MinReplicas, x, y} : m <= n
  <2>1. n = Max({MinReplicas, x, y})
    BY DEF x, y, Needed
  <2>2. MinReplicas \in Int /\ x \in Int /\ y \in Int
    BY <1>1, <1>2, <1>3 DEF ConstantTypes
  <2> QED
    BY <2>1, <2>2, MaxOfThree
<1>5. n \in Nat
  BY <1>1, <1>2, <1>3, <1>4 DEF ConstantTypes
<1>6. Desired(d.agents, d.backlog) = Min({MaxReplicas, n})
  BY DEF Desired, Needed
<1> HIDE DEF n
<1>7. ASSUME NEW r \in Nat PROVE Carries(r, d) <=> r >= n
  <2>1. Carries(r, d) <=> r >= MinReplicas /\ r >= x /\ r >= y
    BY <1>1, <1>2, <1>3, <1>7 DEF Carries, ConstantTypes
  <2> QED
    BY <1>1, <1>2, <1>3, <1>4, <1>5, <2>1 DEF ConstantTypes
<1> QED
  BY <1>1, <1>5, <1>6, <1>7, MinOfTwo DEF ConstantTypes, n

LEMMA DesiredType ==
  ASSUME NEW agents \in Nat, NEW backlog \in Nat
  PROVE Desired(agents, backlog) \in 0 .. MaxReplicas
<1> DEFINE d == [agents |-> agents, backlog |-> backlog]
<1>1. d \in [agents : Nat, backlog : Nat] /\ d.agents = agents /\ d.backlog = backlog
  OBVIOUS
<1> HIDE DEF d
<1> QED
  BY <1>1, NeededIsLeast, ConstantsTyped DEF ConstantTypes

LEMMA DemandTypes ==
  ASSUME NEW d \in Demand
  PROVE /\ d \in [agents : Nat, backlog : Nat]
        /\ d.agents \in 0 .. MaxAgents /\ d.backlog \in Nat /\ d.backlog <= d.agents
<1>1. d \in [agents : 0 .. MaxAgents, backlog : 0 .. MaxAgents] /\ d.backlog <= d.agents
  BY DEF Demand
<1> QED
  BY <1>1, ConstantsTyped DEF ConstantTypes

----------------------------------------------------------------------------

\* However ticks, faults, restarts and changes of the load interleave, no more
\* than max_replicas orchestrators run: the connection budget of compose holds.
THEOREM AutoscalerTyped == FairSpec => []TypeOK
<1> USE ConstantsTyped DEF ConstantTypes
<1>1. Init => TypeOK
  BY DEF Init, TypeOK, Phases
<1>2. ASSUME TypeOK, [Next]_avars PROVE TypeOK'
  <2>1. demand \in Demand /\ demand.agents \in 0 .. MaxAgents /\ demand.backlog \in Nat
    BY <1>2, DemandTypes DEF TypeOK
  <2>2. CASE Count
    BY <1>2, <2>1, <2>2 DEF Count, TypeOK, Phases
  <2>3. CASE Size
    <3>1. scaler.agents \in Nat
      BY <1>2 DEF TypeOK
    <3>2. Desired(scaler.agents, demand.backlog) \in 0 .. MaxReplicas
      BY <2>1, <3>1, DesiredType
    <3> QED
      BY <1>2, <2>3, <3>2 DEF Size, TypeOK, Phases
  <2>4. ASSUME NEW current \in 0 .. MaxReplicas, Look(current) PROVE TypeOK'
    BY <1>2, <2>4 DEF Look, Rested, TypeOK, Phases
  <2>5. CASE Up
    BY <1>2, <2>5 DEF Up, TypeOK, Phases
  <2>6. ASSUME NEW d \in 1 .. Cooldown, Wake(d) PROVE TypeOK'
    <3>1. Min({rested + d, Cooldown}) \in 0 .. Cooldown
      BY <1>2, MinOfTwo DEF TypeOK
    <3> QED
      BY <1>2, <2>6, <3>1 DEF Wake, TypeOK, Phases
  <2>7. CASE ReadFails \/ Restart
    BY <1>2, <2>7 DEF ReadFails, Restart, TypeOK, Phases
  <2>8. CASE DemandChanges
    BY <1>2, <2>8 DEF DemandChanges, TypeOK
  <2>9. CASE ContainerStops
    BY <1>2, <2>9 DEF ContainerStops, TypeOK
  <2>10. CASE UNCHANGED avars
    BY <1>2, <2>10 DEF avars, TypeOK
  <2> QED
    BY <1>2, <2>2, <2>3, <2>4, <2>5, <2>6, <2>7, <2>8, <2>9, <2>10 DEF Next, Loop
<1> QED
  BY <1>1, <1>2, PTL DEF FairSpec

\* desired_replicas rounds up and adds one for a backlog to exactly the least number
\* that carries the load, or to the ceiling; and with the caps consistent the ceiling
\* never limits recovery for the agents that admission lets in.
THEOREM LeastThatCarriesHolds ==
  ASSUME CapsConsistent
  PROVE FairSpec => []LeastThatCarries
<1>1. ASSUME TypeOK PROVE LeastThatCarries
  <2> DEFINE n == Needed(demand.agents, demand.backlog)
  <2> DEFINE enough == {q \in 0 .. MaxReplicas : Carries(q, demand)}
  <2> DEFINE r == Desired(demand.agents, demand.backlog)
  <2>1. demand \in [agents : Nat, backlog : Nat] /\ demand.backlog <= demand.agents
    BY <1>1, DemandTypes DEF TypeOK
  <2>2. /\ n \in Nat /\ \A q \in Nat : Carries(q, demand) <=> q >= n
        /\ r = IF MaxReplicas <= n THEN MaxReplicas ELSE n
    BY <2>1, NeededIsLeast
  <2>3. ConstantTypes
    BY ConstantsTyped
  <2> HIDE DEF n, r
  <2>4. enough = n .. MaxReplicas
    BY <2>2, <2>3 DEF ConstantTypes
  <2>5. r = IF enough = {} THEN MaxReplicas ELSE Min(enough)
    <3>1. CASE MaxReplicas < n
      BY <2>2, <2>3, <2>4, <3>1 DEF ConstantTypes
    <3>2. CASE n <= MaxReplicas
      <4>1. r = n /\ n \in enough
        BY <2>2, <2>3, <2>4, <3>2 DEF ConstantTypes
      <4>2. Min(n .. MaxReplicas) = n
        <5>1. n .. MaxReplicas \in SUBSET Int /\ n \in n .. MaxReplicas
          BY <2>2, <2>3, <3>2 DEF ConstantTypes
        <5>2. \A q \in n .. MaxReplicas : n <= q
          BY <2>2, <2>3 DEF ConstantTypes
        <5> QED
          BY <5>1, <5>2, MinOf
      <4> QED
        BY <2>4, <4>1, <4>2
    <3> QED
      BY <2>2, <2>3, <3>1, <3>2 DEF ConstantTypes
  <2>6. demand.agents <= AgentCap => enough # {}
    <3> SUFFICES ASSUME demand.agents <= AgentCap PROVE MaxReplicas \in enough
      OBVIOUS
    <3>1. /\ MaxReplicas * PerAgent \in Int /\ (MaxReplicas - 1) * PerBacklog \in Int
          /\ MaxReplicas * PerAgent >= demand.agents
          /\ (MaxReplicas - 1) * PerBacklog >= demand.backlog
      <4> DEFINE p == MaxReplicas * PerAgent
      <4> DEFINE q == (MaxReplicas - 1) * PerBacklog
      <4>1. p \in Int /\ q \in Int /\ p >= AgentCap /\ q >= AgentCap
        BY <2>3 DEF CapsConsistent, ConstantTypes
      <4> HIDE DEF p, q
      <4>2. p >= demand.agents /\ q >= demand.backlog
        BY <2>1, <2>3, <4>1 DEF ConstantTypes
      <4> QED
        BY <4>1, <4>2 DEF p, q
    <3>2. Carries(MaxReplicas, demand)
      BY <2>3, <3>1 DEF Carries, ConstantTypes
    <3> QED
      BY <2>3, <3>2 DEF ConstantTypes
  <2> QED
    BY <2>5, <2>6 DEF LeastThatCarries, r
<1> QED
  BY <1>1, AutoscalerTyped, PTL
=============================================================================

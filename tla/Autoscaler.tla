----------------------------- MODULE Autoscaler ----------------------------
(***************************************************************************)
(* The orchestrator autoscaler (src/scale/autoscaler.py): a loop on the    *)
(* host that counts agents and expired leases, asks docker how many        *)
(* orchestrators run and scales the service.                               *)
(*                                                                         *)
(* Demand changes and containers stop between any two of its reads.  Its   *)
(* commands run with check=False: a failed one looks like any other.       *)
(***************************************************************************)
EXTENDS Integers, FiniteSetsExt

CONSTANTS
  PerAgent,     \* per_agent: active agents per orchestrator
  PerBacklog,   \* expired leases per extra orchestrator, 50 in desired_replicas
  MinReplicas,  \* min_replicas
  MaxReplicas,  \* max_replicas
  AgentCap,     \* MAX_ACTIVE_AGENTS, what admission lets in
  MaxAgents,    \* bound: running agents; the harness seeds without the cap
  Cooldown,     \* cooldown_down in intervals
  MaxFaults     \* bound: stopped containers, failed commands and restarts

ASSUME AutoscalerAssumption ==
  /\ {PerAgent, PerBacklog, MinReplicas, MaxReplicas, Cooldown} \subseteq Nat \ {0}
  /\ {AgentCap, MaxAgents, MaxFaults} \subseteq Nat
  /\ MinReplicas <= MaxReplicas

VARIABLES
  demand,    \* running agents, and those of them whose lease has run out
  replicas,  \* orchestrator containers that run
  scaler,    \* where tick is and what it has read so far
  rested,    \* monotonic() - _last_scale_down, up to Cooldown
  faults     \* faults so far

avars == <<demand, replicas, scaler, rested, faults>>

\* A running agent has at most one lease: that of the task at its cursor.
Demand == {d \in [agents : 0 .. MaxAgents, backlog : 0 .. MaxAgents] : d.backlog <= d.agents}
Phases == {"idle", "counted", "sized", "scaling", "asleep"}

Init ==
  /\ demand \in Demand
  /\ replicas \in 0 .. MaxReplicas
  /\ scaler = [phase |-> "idle", agents |-> 0, want |-> 0]
  /\ rested \in {0, Cooldown}  \* _last_scale_down is 0.0: the host may have just booted
  /\ faults = 0

CeilDiv(a, b) == (a + b - 1) \div b

Desired_Unclamped(agents, backlog) ==  \* mutant: the ceiling forgotten with a backlog
  IF backlog > 0 THEN Max({MinReplicas, CeilDiv(agents, PerAgent), CeilDiv(backlog, PerBacklog) + 1})
  ELSE Min({MaxReplicas, Max({MinReplicas, CeilDiv(agents, PerAgent)})})
Desired_Floor(agents, backlog) ==  \* mutant: rounded down
  Min({MaxReplicas, Max({MinReplicas, agents \div PerAgent,
                         IF backlog > 0 THEN CeilDiv(backlog, PerBacklog) + 1 ELSE 0})})
\* desired_replicas
Desired(agents, backlog) ==
  Min({MaxReplicas, Max({MinReplicas, CeilDiv(agents, PerAgent),
                         IF backlog > 0 THEN CeilDiv(backlog, PerBacklog) + 1 ELSE 0})})

\* tick reads the agents, then the backlog, in two transactions.
Count ==
  /\ scaler.phase = "idle"
  /\ scaler' = [scaler EXCEPT !.phase = "counted", !.agents = demand.agents]
  /\ UNCHANGED <<demand, replicas, rested, faults>>

Size ==
  /\ scaler.phase = "counted"
  /\ scaler' = [scaler EXCEPT !.phase = "sized", !.want = Desired(scaler.agents, demand.backlog)]
  /\ UNCHANGED <<demand, replicas, rested, faults>>

\* A read of the database fails: run logs it and goes to sleep.
ReadFails ==
  /\ scaler.phase \in {"idle", "counted"}
  /\ faults < MaxFaults /\ faults' = faults + 1
  /\ scaler' = [scaler EXCEPT !.phase = "asleep"]
  /\ UNCHANGED <<demand, replicas, rested>>

Rested_Eager(current) ==  \* mutant: a suppressed scale-in restarts the cooldown
  IF scaler.want < current THEN 0 ELSE rested
Rested(current) ==
  IF scaler.want < current /\ rested >= Cooldown THEN 0 ELSE rested

\* apply up to its second command.  The count is that of docker compose ps, or 0
\* when ps fails.
Look(current) ==
  /\ scaler.phase = "sized"
  /\ \/ current = replicas /\ UNCHANGED faults
     \/ current = 0 /\ faults < MaxFaults /\ faults' = faults + 1
  /\ scaler' = [scaler EXCEPT !.phase =
       IF scaler.want > current \/ (scaler.want < current /\ rested >= Cooldown)
       THEN "scaling" ELSE "asleep"]
  /\ rested' = Rested(current)
  /\ UNCHANGED <<demand, replicas>>

\* docker compose up --scale: the service has `want` containers, or up failed.
Up ==
  /\ scaler.phase = "scaling"
  /\ \/ replicas' = scaler.want /\ UNCHANGED faults
     \/ faults < MaxFaults /\ faults' = faults + 1 /\ UNCHANGED replicas
  /\ scaler' = [scaler EXCEPT !.phase = "asleep"]
  /\ UNCHANGED <<demand, rested>>

\* sleep(interval), and the time the commands took.
Wake(d) ==
  /\ scaler.phase = "asleep"
  /\ scaler' = [scaler EXCEPT !.phase = "idle"]
  /\ rested' = Min({rested + d, Cooldown})
  /\ UNCHANGED <<demand, replicas, faults>>

\* A new process, or another --once: the cooldown is forgotten.
Restart ==
  /\ faults < MaxFaults /\ faults' = faults + 1
  /\ scaler' = [scaler EXCEPT !.phase = "idle"]
  /\ rested' = Cooldown
  /\ UNCHANGED <<demand, replicas>>

\* The load changes by an agent or by a lease.
DemandChanges ==
  /\ \E d \in Demand :
       /\ demand' = d /\ d # demand
       /\ d.agents - demand.agents \in -1 .. 1
       /\ d.backlog - demand.backlog \in -1 .. 1
  /\ UNCHANGED <<replicas, scaler, rested, faults>>

ContainerStops ==
  /\ replicas > 0
  /\ faults < MaxFaults /\ faults' = faults + 1
  /\ replicas' = replicas - 1
  /\ UNCHANGED <<demand, scaler, rested>>

Loop ==
  \/ Count
  \/ Size
  \/ \E current \in 0 .. MaxReplicas : Look(current)
  \/ Up
  \/ \E d \in 1 .. Cooldown : Wake(d)

Next ==
  \/ Loop
  \/ ReadFails
  \/ Restart
  \/ DemandChanges
  \/ ContainerStops

\* `while True` of one process: the loop goes on, whatever a tick raises.
FairSpec == Init /\ [][Next]_avars /\ WF_avars(Loop)
----------------------------------------------------------------------------
\* The connection budget included: never more than max_replicas containers.
TypeOK ==
  /\ demand \in Demand
  /\ replicas \in 0 .. MaxReplicas
  /\ scaler \in [phase : Phases, agents : 0 .. MaxAgents, want : 0 .. MaxReplicas]
  /\ rested \in 0 .. Cooldown
  /\ faults \in 0 .. MaxFaults

\* What desired_replicas means by a ratio rounded up and a backlog that adds one:
\* r orchestrators carry this load.
Carries(r, d) ==
  /\ r >= MinReplicas
  /\ r * PerAgent >= d.agents
  /\ d.backlog > 0 => (r - 1) * PerBacklog >= d.backlog

\* The number asked for is the least that carries the load, or all there may be;
\* and with the caps kept consistent (autoscaler.py:64-67) the ceiling is never
\* what limits recovery: what admission lets in can be carried.
LeastThatCarries ==
  LET r == Desired(demand.agents, demand.backlog)
      enough == {q \in 0 .. MaxReplicas : Carries(q, demand)} IN
  /\ r = IF enough = {} THEN MaxReplicas ELSE Min(enough)
  /\ demand.agents <= AgentCap => enough # {}

\* Once the load stays, the service gets the size it needs and keeps it: neither
\* the cooldown, nor a failed command, nor a restart leaves it elsewhere.  It says
\* nothing of one tick, which may size for a load that never was (two transactions)
\* or, when ps fails, scale in without a cooldown.
Settles ==
  <>[][FALSE]_demand => <>[](replicas = Desired(demand.agents, demand.backlog))
=============================================================================

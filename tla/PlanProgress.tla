--------------------------- MODULE PlanProgress ----------------------------
(***************************************************************************)
(* What the runtime promises of an agent, and all a client can see of it   *)
(* through GET /agents/{id}: its plan is worked off one task at a time in  *)
(* order, and it ends completed, with the whole plan committed, or failed, *)
(* short of it.  Nothing here knows of workers, leases, tiers or retries.  *)
(***************************************************************************)
EXTENDS Integers

CONSTANTS
  Agents,
  PlanLen  \* PlanLen[a]: number of tasks in the plan of a

VARIABLES
  status,  \* status[a]: absent, running, completed or failed
  done     \* done[a]: tasks committed so far

progress == <<status, done>>

Init ==
  /\ status = [a \in Agents |-> "absent"]
  /\ done = [a \in Agents |-> 0]

SetStatus(B, s) == status' = [a \in Agents |-> IF a \in B THEN s ELSE status[a]]

\* Some agents are submitted together.
Start(B) ==
  /\ B # {}
  /\ \A a \in B : status[a] = "absent"
  /\ SetStatus(B, "running")
  /\ UNCHANGED done

\* One task of one agent commits; the last one completes the agent.
Advance(a) ==
  /\ status[a] = "running"
  /\ done[a] < PlanLen[a]
  /\ done' = [done EXCEPT ![a] = @ + 1]
  /\ SetStatus({a} \cap {b \in Agents : done[b] + 1 = PlanLen[b]}, "completed")

\* Agents whose current task is given up.
Fail(B) ==
  /\ B # {}
  /\ \A a \in B : status[a] = "running" /\ done[a] < PlanLen[a]
  /\ SetStatus(B, "failed")
  /\ UNCHANGED done

\* Agents with nothing (left) to do.
Close(B) ==
  /\ B # {}
  /\ \A a \in B : status[a] = "running" /\ done[a] = PlanLen[a]
  /\ SetStatus(B, "completed")
  /\ UNCHANGED done

Next ==
  \/ \E B \in SUBSET Agents : Start(B) \/ Fail(B) \/ Close(B)
  \/ \E a \in Agents : Advance(a)

\* A running agent is never left alone for ever.
Moves(a) ==
  \/ Advance(a)
  \/ \E B \in SUBSET Agents : a \in B /\ (Fail(B) \/ Close(B))

Spec == Init /\ [][Next]_progress
FairSpec == Spec /\ \A a \in Agents : WF_progress(Moves(a))
=============================================================================

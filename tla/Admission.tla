----------------------------- MODULE Admission -----------------------------
(***************************************************************************)
(* Admission control: the transaction of POST /agents (src/api/main.py),   *)
(* which counts and inserts under one advisory lock, beside the harness's  *)
(* seed (src/chaos/harness.py), which inserts without asking.              *)
(***************************************************************************)
EXTENDS ConnPool

CONSTANTS
  MaxActive,  \* MAX_ACTIVE_AGENTS
  Count       \* Count[r]: the body.count that thread r is sent

ASSUME AdmissionAssumption ==
  MaxActive \in Nat /\ Count \in [Threads -> Nat \ {0}]

VARIABLES
  advisory,  \* the transaction that holds pg_advisory_xact_lock('admission')
  admitted,  \* running agents that POST /agents inserted
  seeded     \* running agents that the harness inserted

avars == <<advisory, admitted, seeded>>

AdmissionInit == advisory = Nobody /\ admitted = 0 /\ seeded = 0

Locks(r) ==
  /\ Doing(r, "lock") /\ advisory = Nobody
  /\ advisory' = r
  /\ Passes(r)
  /\ UNCHANGED <<free, conns, lock, fresh, cache, admitted, seeded>>

\* active + body.count > MAX_ACTIVE_AGENTS.
Full(r) == admitted + seeded + Count[r] > MaxActive

\* The end of the transaction releases its advisory lock.
Unlocks(r) == advisory' = IF advisory = r THEN Nobody ELSE advisory

\* The count is read, and the submission refused with 429 or carried on.
Counts(r) ==
  /\ Doing(r, "count")
  /\ \/ ~Full(r) /\ Passes(r) /\ UNCHANGED <<advisory, free, conns, lock, fresh, cache>>
     \/ Full(r) /\ Ends(r) /\ Unlocks(r)
  /\ UNCHANGED <<admitted, seeded>>

\* The rows become visible, and the lock free, when the transaction commits.
Inserts(r) ==
  /\ Doing(r, "insert")
  /\ admitted' = admitted + Count[r]
  /\ Unlocks(r)
  /\ Ends(r)
  /\ UNCHANGED seeded

Seeds ==
  /\ seeded' = seeded + 1
  /\ UNCHANGED <<advisory, admitted, pvars>>

AgentEnds ==
  /\ \/ admitted > 0 /\ admitted' = admitted - 1 /\ UNCHANGED seeded
     \/ seeded > 0 /\ seeded' = seeded - 1 /\ UNCHANGED admitted
  /\ UNCHANGED <<advisory, pvars>>
=============================================================================

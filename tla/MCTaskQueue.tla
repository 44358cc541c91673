---------------------------- MODULE MCTaskQueue ----------------------------
(* Instances of TaskQueue for TLC. *)
EXTENDS TaskQueue, TLC

CONSTANTS a1, a2, a3, j1, j2, s1

Normal == [retries |-> TRUE, escalation |-> TRUE, force |-> NoTier]
NormalFlags == {Normal}
AllFlags == [retries : BOOLEAN, escalation : BOOLEAN, force : {NoTier, NTiers}]

TwoTasks == [a \in Agents |-> 2]
OneTaskEach == [a \in Agents |-> 1]
OneOneNone == [a \in Agents |-> IF a = a3 THEN 0 ELSE 1]

\* Two junior workers and a senior one.
Pools == [w \in Workers |-> IF w = s1 THEN 2 ELSE 1]

DistinctIds == [w \in Workers |-> w]
SharedIds == [w \in Workers |-> "worker-1"]

\* The two junior workers are interchangeable when each has an id of its own.
JuniorSymmetry == Permutations({j1, j2})
=============================================================================

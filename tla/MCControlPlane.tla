--------------------------- MODULE MCControlPlane --------------------------
(***************************************************************************)
(* One API process with three threads, as many as it takes to exhaust its  *)
(* pool of two; two orchestrators and two workers of one thread each; and  *)
(* a ladder of two tiers to which a third is added on top or in between.   *)
(* Either the API is busy or the processes behind it: they share nothing   *)
(* but the ladder.                                                         *)
(***************************************************************************)
EXTENDS ControlPlane

CONSTANTS a1, a2, a3, o1, o2, w1, w2

MCProcesses == {"api", "orch1", "orch2", "low", "mid", "harness", "operator"}
MCHome == [r \in Threads |->
             CASE r = o1 -> "orch1" [] r = o2 -> "orch2" [] r = w1 -> "low" [] r = w2 -> "mid"
               [] OTHER -> "api"]
MCRole == [p \in MCProcesses |->
             CASE p \in {"orch1", "orch2"} -> "orchestrator" [] p \in {"low", "mid"} -> "worker"
               [] OTHER -> p]
MCPoolTier == [p \in MCProcesses |-> CASE p = "low" -> 1 [] p = "mid" -> 2 [] OTHER -> 0]
MCPoolMax == [p \in MCProcesses |-> 2]
MCCount == [r \in Threads |-> IF r = a1 THEN 2 ELSE 1]

Calls(api, harness, operator, twice, once) ==
  [p \in MCProcesses |->
     CASE p = "api" -> api [] p = "harness" -> harness [] p = "operator" -> operator
       [] p \in {"orch1", "mid"} -> twice [] OTHER -> once]
MCScenarios == {[ladder |-> {1, 2}, calls |-> Calls(3, 1, 0, 0, 0)],
                [ladder |-> {1, 2}, calls |-> Calls(0, 0, 1, 1, 1)],
                [ladder |-> {1, 3}, calls |-> Calls(0, 0, 1, 2, 1)]}
=============================================================================

---------------------------- MODULE LullObserver ---------------------------
(***************************************************************************)
(* The autoscaler with an observer: for how long every tick has found more *)
(* containers than it wants.                                               *)
(***************************************************************************)
EXTENDS Autoscaler

VARIABLE lull

\* What was before the first tick is taken to be lull enough.
ObservedInit == Init /\ lull = Cooldown

\* Looks restart the lull or let it go on; only Wake takes time.
ObservedNext ==
  \/ \E current \in 0 .. MaxReplicas :
       Look(current) /\ lull' = IF scaler.want < current THEN lull ELSE 0
  \/ \E d \in 1 .. Cooldown :
       Wake(d) /\ lull' = Min({lull + d, Cooldown})
  \/ /\ Count \/ Size \/ Up \/ ReadFails \/ Restart \/ DemandChanges \/ ContainerStops
     /\ UNCHANGED lull

ObservedSpec == ObservedInit /\ [][ObservedNext]_<<avars, lull>>

\* "seconds a lull must persist before scaling in" (autoscaler.py:53): containers
\* are taken away only after all ticks of a cooldown found too many.
LullOutlasted ==
  [][Up /\ replicas' < replicas => lull >= Cooldown]_<<avars, lull>>
=============================================================================

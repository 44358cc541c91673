---------------------------- MODULE MCAutoscaler ---------------------------
(* The autoscaler for TLC: the numbers are in the .cfg. *)
EXTENDS Autoscaler
=============================================================================

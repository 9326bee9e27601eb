---------------------------- MODULE MCSessionLoads ----------------------------
(* Model checking of SessionLoads. *)
EXTENDS SessionLoads

=============================================================================

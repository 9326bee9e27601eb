------------------------------- MODULE MCAdapter -------------------------------
(* Model checking of Adapter. *)
EXTENDS Adapter

=============================================================================

---------------------------- MODULE MCEventStreams ----------------------------
(* Model checking of EventStreams, and with it of ManagedAgent. *)
EXTENDS EventStreams

CONSTANTS k1, k2, k3, d1

=============================================================================

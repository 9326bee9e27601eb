---------------------------- MODULE MCSessionTurns ----------------------------
(* Model checking of SessionTurns: the prompts whose names start with m   *)
(* name a model.                                                           *)
EXTENDS SessionTurns, TLC

=============================================================================

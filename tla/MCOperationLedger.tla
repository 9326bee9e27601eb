-------------------------- MODULE MCOperationLedger --------------------------
(* Model checking of OperationLedger.  "text1" and "text2" are two bodies  *)
(* sent under one clientRequestId; "move" is a handoff.                    *)
EXTENDS OperationLedger, TLC

CONSTANTS prompt, handoff, text1, text2, move, ses1, ses2, h1, h2, h3

MCIdentity == [r \in Requests |-> IF r = move THEN handoff ELSE prompt]

(* Handlers and Sessions are interchangeable in a run of safety alone. *)
MCSymmetry == Permutations(Handlers) \cup Permutations(Sessions)

=============================================================================

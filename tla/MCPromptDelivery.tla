--------------------------- MODULE MCPromptDelivery ---------------------------
(* Model checking of PromptDelivery. *)
EXTENDS PromptDelivery

Different == <<"fix it", "ship it">>
TheSame == <<"go on", "go on">>

=============================================================================

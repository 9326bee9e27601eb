-------------------------- MODULE MCLiveConversation --------------------------
(* Model checking of LiveConversation. *)
EXTENDS LiveConversation

=============================================================================
